---------------------------- MODULE MCClientAuth ----------------------------
(***************************************************************************)
(* Instances of ClientAuth.  Requests are interchangeable, and so are      *)
(* panel requests.                                                         *)
(***************************************************************************)
EXTENDS ClientAuth, TLC

MCCosts == {-1, 1}
Interchangeable == Permutations(Slots) \cup Permutations(Admins)
============================================================================
