-------------------------- MODULE ToolResolution --------------------------
(***************************************************************************)
(* Which upstream tool calls can be handed to the client: internal/proxy's *)
(* toolnames.go and toolrecover.go.  Arguments are a sequence of pieces    *)
(* [call, n, last, shaped]: the n-th part of the arguments of an upstream  *)
(* call, whether it completes them, and whether the complete arguments fit *)
(* exactly one declared schema.                                            *)
(***************************************************************************)
EXTENDS Naturals, Sequences

CONSTANTS NoName, NoId

\* A value, or the other one when there is none.
Or(value, none, other) == IF value = none THEN other ELSE value

\* The arguments of one call, all of them, in order.
Complete(args) ==
    /\ args # <<>>
    /\ \A i \in DOMAIN args :
          /\ args[i].call = args[1].call
          /\ args[i].n = i
          /\ args[i].last <=> i = Len(args)

\* ResolveDeclaredToolName: the declared tool that a name stands for, if any.
\* An "alias" is a declared tool's name in another spelling, behind a
\* namespace, or a marker tool's name that has a declared counterpart.
ResolveDeclaredToolName(declared, name) ==
    IF declared /\ name \in {"declared", "alias"} THEN "declared" ELSE NoName

\* By its name, or, for a call that has none, by MatchNamelessTool: the
\* arguments must parse and fit one schema.  Without declared tools nothing
\* resolves.
Resolvable(declared, name, args) ==
    IF name # NoName THEN ResolveDeclaredToolName(declared, name) # NoName
    ELSE declared /\ Complete(args) /\ args[1].shaped
============================================================================
