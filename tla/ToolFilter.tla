----------------------------- MODULE ToolFilter -----------------------------
(***************************************************************************)
(* What stands between upstream tool calls and a client of                 *)
(* /v1/chat/completions: chatToolCallFilter (internal/server/              *)
(* openai_toolfilter.go) for a stream, AggregateOpenAIStream               *)
(* (internal/proxy/stream_aggregate.go) and filterUndeclaredOpenAITools    *)
(* (openai_proxy.go) for a stream that is gathered into one answer.        *)
(* A chunk is [text, reasoning, calls, finish] of the only choice; calls   *)
(* are fragments [index, id, name, args].                                  *)
(***************************************************************************)
EXTENDS ToolResolution, SequencesExt, Picking

----------------------------------------------------------------------------
(* The stream filter.                                                      *)

newChatToolCallFilter(declared) ==
    [declared |-> declared, verdicts |-> <<>>, keptAny |-> FALSE]

Resolves(f, name) == ResolveDeclaredToolName(f.declared, name) # NoName

\* A call is judged once, when its name is first seen.
verdictFor(f, frag) ==
    IF frag.name = NoName \/ frag.index \in DOMAIN f.verdicts THEN f
    ELSE [f EXCEPT !.verdicts = With(@, frag.index, Resolves(f, frag.name))]

\* The fragments of a chunk, one after the other.
verdicts(f, frags) ==
    LET judged[i \in 0 .. Len(frags)] ==
          IF i = 0 THEN f ELSE verdictFor(judged[i - 1], frags[i])
    IN  judged[Len(frags)]

\* Fragments of calls without a verdict pass.
Passes(f, frag) == frag.index \in DOMAIN f.verdicts => f.verdicts[frag.index]

\* The filter after a chunk.  (A chunk has at most one fragment of a call.)
Judged(f, chunk) ==
    LET j == verdicts(f, chunk.calls)
    IN  [j EXCEPT !.keptAny = @ \/ \E frag \in ToSet(chunk.calls) : Passes(j, frag)]

Renamed(f, frag) ==
    [frag EXCEPT !.name = Or(ResolveDeclaredToolName(f.declared, @), NoName, @)]

\* Fault: the finish reason is relayed as it is.
FinishAsIs(f, finish) == finish

\* Without any call there is nothing the client could run.
Finish(f, finish) == IF finish = "tool_calls" /\ ~f.keptAny THEN "stop" ELSE finish

\* filterChatToolCalls: what the client gets of a chunk, by the filter f that
\* has judged it.
filterChatToolCalls(f, chunk) ==
    LET kept == Picked(chunk.calls,
                       {i \in DOMAIN chunk.calls : Passes(f, chunk.calls[i])})
    IN  [chunk EXCEPT !.calls = [i \in DOMAIN kept |-> Renamed(f, kept[i])],
                      !.finish = Finish(f, @)]

----------------------------------------------------------------------------
(* The whole answer of a stream.  A client's SDK gathers one the same way. *)

NoAnswer == [text |-> <<>>, reasoning |-> <<>>, calls |-> <<>>, finish |-> "", any |-> FALSE]

\* A fragment goes to the call of its index, or begins one.
appendTool(calls, frag) ==
    IF \E i \in DOMAIN calls : calls[i].index = frag.index
    THEN [i \in DOMAIN calls |->
            IF calls[i].index # frag.index THEN calls[i]
            ELSE [calls[i] EXCEPT !.id = Or(frag.id, NoId, @),
                                  !.name = Or(frag.name, NoName, @),
                                  !.args = @ \o frag.args]]
    ELSE Append(calls, frag)

appendTools(calls, frags) ==
    LET gathered[i \in 0 .. Len(frags)] ==
          IF i = 0 THEN calls ELSE appendTool(gathered[i - 1], frags[i])
    IN  gathered[Len(frags)]

Gathered(a, chunk) ==
    [text |-> a.text \o chunk.text, reasoning |-> a.reasoning \o chunk.reasoning,
     calls |-> appendTools(a.calls, chunk.calls),
     finish |-> Or(chunk.finish, "", a.finish), any |-> TRUE]

\* AggregateOpenAIStream, once the stream is over and had any chunk.  An
\* answer with calls is a tool turn, whatever the upstream made of it.
AggregateOpenAIStream(a) ==
    [a EXCEPT !.finish = IF @ \in {"", "stop"}
                         THEN IF a.calls # <<>> THEN "tool_calls" ELSE "stop"
                         ELSE @]

\* filterUndeclaredOpenAITools, filterUndeclaredResponsesTools: the names must
\* be declared as they are.
Undeclared(declared, name) == ~(declared /\ name = "declared")

filterUndeclaredOpenAITools(a, declared) ==
    [a EXCEPT !.calls =
        Picked(@, {i \in DOMAIN a.calls : ~Undeclared(declared, a.calls[i].name)})]
============================================================================
