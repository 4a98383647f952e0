--------------------------- MODULE MCChatStream ---------------------------
(***************************************************************************)
(* Instances of ChatStream.                                                *)
(***************************************************************************)
EXTENDS ChatStream

MCNames == {"declared", "undeclared", NoName}
============================================================================
