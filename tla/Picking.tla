------------------------------ MODULE Picking ------------------------------
(***************************************************************************)
(* What a loop collects of a sequence that keeps some of its elements, and *)
(* a map with one more key.  (Functions where SelectSeq and @@ would do:   *)
(* their values can be reasoned about one by one.)                         *)
(***************************************************************************)
EXTENDS Naturals, Sequences

\* The elements of s at the given places, in their order.
Picked(s, places) ==
    LET got[i \in 0 .. Len(s)] ==
          IF i = 0 THEN <<>>
          ELSE IF i \in places THEN Append(got[i - 1], s[i]) ELSE got[i - 1]
    IN  got[Len(s)]

\* map[key] = value.
With(map, key, value) ==
    [k \in DOMAIN map \cup {key} |-> IF k = key THEN value ELSE map[k]]
============================================================================
