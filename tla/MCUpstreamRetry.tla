-------------------------- MODULE MCUpstreamRetry --------------------------
(***************************************************************************)
(* Instances of UpstreamRetry: two calls of one conversation and one of    *)
(* another share a cache that holds a single affinity.                     *)
(***************************************************************************)
EXTENDS UpstreamRetry, TLC

CONSTANTS c1, c2, c3, k1, k2

MCCalls == {c1, c2, c3}
MCKeys == {k1, k2}
MCKeyOf == (c1 :> k1) @@ (c2 :> k1) @@ (c3 :> k2)

\* c1 and c2 have the same key, so they can be exchanged.
TwinCalls == Permutations({c1, c2})
============================================================================
