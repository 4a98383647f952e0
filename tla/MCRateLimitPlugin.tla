-------------------------- MODULE MCRateLimitPlugin ------------------------
(***************************************************************************)
(* Instances of RateLimitPlugin.  Processes are interchangeable.           *)
(***************************************************************************)
EXTENDS RateLimitPlugin, TLC

Interchangeable == Permutations(Proc)
============================================================================
