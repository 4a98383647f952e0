------------------------- MODULE MCResponsesStream -------------------------
(***************************************************************************)
(* Instances of ResponsesStream.                                           *)
(***************************************************************************)
EXTENDS ResponsesStream

MCNames == {"declared", NoName}
============================================================================
