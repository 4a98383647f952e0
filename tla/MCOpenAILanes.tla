--------------------------- MODULE MCOpenAILanes ---------------------------
(***************************************************************************)
(* Instances of OpenAILanes.                                               *)
(***************************************************************************)
EXTENDS OpenAILanes

MCNames == {"declared", "alias", "undeclared"}
============================================================================
