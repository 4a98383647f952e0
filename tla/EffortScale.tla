---------------------------- MODULE EffortScale ----------------------------
(***************************************************************************)
(* Reasoning efforts and their scales (internal/proxy/reasoning_levels.go).*)
(* An effort is a number: none, minimal, low, medium, high, xhigh and max  *)
(* have their place in universalEffortOrder; every other name a client may *)
(* ask for, or an upstream may list, has a number beyond them.  Names that *)
(* differ in case are the same effort.  A scale is a list, low to high for *)
(* as far as upstream lists its efforts so.                                *)
(***************************************************************************)
EXTENDS Integers, SequencesExt

NoneEffort == 0
MaxEffort == 6

Known == NoneEffort .. MaxEffort
Effort == Nat

\* A body that names no effort.
NoEffort == -1

\* minimal to xhigh, which are also the levels of the muse-spark family.
DefaultReasoningLevels == <<1, 2, 3, 4, 5>>

\* Fault: a known effort is kept, whatever the model knows.
ClampToKnown(want, scale) ==
    IF want \in ToSet(scale) \cup Known THEN want ELSE Last(scale)

\* An effort the model knows is kept; a known one below a scale that starts
\* with a known one becomes its first; every other one becomes its last.
ClampEffort(want, scale) ==
    IF want \in ToSet(scale) THEN want
    ELSE IF {want, Head(scale)} \subseteq Known /\ want < Head(scale) THEN Head(scale)
    ELSE Last(scale)

Without(s, e) ==
    IF e \in ToSet(s) THEN RemoveAt(s, CHOOSE i \in DOMAIN s : s[i] = e) ELSE s

\* "Taught lists arrive WITHOUT none/max": Learn drops them from a list in
\* which no name is repeated.
Taught(names) == Without(Without(names, NoneEffort), MaxEffort)

\* saneEffortLevels, of names that are plausible ones.
MaxLevels == 16
Sane(scale) == Len(scale) \in 1 .. MaxLevels
============================================================================
