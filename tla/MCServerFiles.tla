--------------------------- MODULE MCServerFiles ---------------------------
(***************************************************************************)
(* An instance of Panel and two of EffortRecovery, the parts of the server *)
(* that keep a file.  They share no state, so one of them moves and the    *)
(* other stays as it is.                                                   *)
(*                                                                         *)
(* Of EffortRecovery: one upstream model names what it accepts, along with *)
(* none and max; one names an effort nobody knows, which it rejects.  A    *)
(* pair of clients asks for none, extra high, max and another effort       *)
(* nobody knows, none of which either model accepts; or three clients that *)
(* ask for no effort queue for the two slots.                              *)
(***************************************************************************)
EXTENDS Panel, EffortRecovery, TLC

CONSTANTS honest, lying, r1, r2, r3

MCAccepts == [m \in Models |-> IF m = honest THEN {2, 3} ELSE {1}]
MCNames == [m \in Models |-> IF m = honest THEN <<2, 3, 6>> ELSE <<0, 1, 7>>]
MCWanted == {0, 5, 6, 8, NoEffort}

Interchangeable ==
    Permutations(Admins) \cup Permutations(Passwords) \cup Permutations({r1, r2})

VARIABLE moves  \* which of the three

\* Where a component that does not move starts.
OneModel == \A r \in Requests : model[r] = honest
EmptyPanel ==
    env = NoPassword /\ ~legacy /\ disk = [password |-> NoPassword, pool |-> <<>>]

FilesInit ==
    /\ Init
    /\ RecoveryInit
    /\ \/ moves = "panel" /\ OneModel
       \/ moves = "queue" /\ EmptyPanel /\ OneModel
       \/ moves = "pair" /\ EmptyPanel /\ model[r3] = honest

Asks(r) == body'[r].effort # NoEffort

FilesNext ==
    /\ UNCHANGED moves
    /\ \/ moves = "panel" /\ Next /\ UNCHANGED recoveryVars
       \/ /\ moves = "queue" /\ RecoveryNext /\ UNCHANGED vars
          /\ \A r \in Requests : ~Asks(r)
       \/ /\ moves = "pair" /\ RecoveryNext /\ UNCHANGED vars
          /\ doing'[r3] = "idle"
          /\ \A r \in {r1, r2} : doing'[r] = "queued" => Asks(r)

FilesSpec == FilesInit /\ [][FilesNext]_<<vars, recoveryVars, moves>>
============================================================================
