----------------------------- MODULE WebSearch -----------------------------
(***************************************************************************)
(* internal/server/web_search_proxy.go: the messages that the shim makes   *)
(* up for a client that declared Anthropic's web_search tool, which the    *)
(* chat upstream does not have.  The upstream is asked what to search for, *)
(* the proxy searches, and the upstream is asked again, with the results.  *)
(*                                                                         *)
(* An upstream answer is [text, reasoning, calls, strange, broken, search, *)
(* finish]: whether it has text, what it thought, the ids of its calls,    *)
(* which of them are of tools that the client did not declare, which have  *)
(* arguments that are no JSON, whether it calls web_search as well, and    *)
(* why it ended.  A message is [blocks, stop, usage], usage the answers    *)
(* whose tokens it counts.                                                 *)
(***************************************************************************)
EXTENDS AnthropicEvents, PromptCache, ReasoningCache

\* The first call by the name web_search is the one; others are not looked at.
extractWebSearchCall(answer) == answer.search

\* A key of their own for each of the two requests.
webSearchPromptCacheKey(base, stage) ==
    IF base = NoKey THEN NoKey ELSE [base |-> base, stage |-> stage]

\* Why an answer ended: a finish reason, none at all, any that the proxy does
\* not know (as content_filter), or because there is no answer in it.
Finishes ==
    {"stop", "length", "tool_calls", "function_call", "content_filter", "nil", "no_choice"}

\* The calls of an answer that are calls: those that the length limit cut off
\* are not.
Whole(answer) ==
    {i \in DOMAIN answer.calls : answer.finish # "length" \/ answer.calls[i] \notin answer.broken}

finishReasonToStopForMessage(finish, hasToolUse) ==
    CASE finish \in {"nil", "stop"} -> IF hasToolUse THEN "tool_use" ELSE "end_turn"
      [] finish = "length" -> "max_tokens"
      [] finish \in {"tool_calls", "function_call"} -> "tool_use"
      [] finish = "content_filter" -> "end_turn"
      [] finish = "no_choice" -> ""

\* ConvertResponse: what an upstream answer is to the client, its calls under
\* the ids of the client's.
ConvertResponse(answer, ids, stage) ==
    LET thinking == [kind |-> "thinking"]
        text == [kind |-> "text"]
        called == [i \in DOMAIN ids |->
                    [kind |-> "tool_use", id |-> ids[i],
                     declared |-> answer.calls[i] \notin answer.strange]]
        calls == Picked(called, Whole(answer))
    IN  [blocks |-> (IF answer.reasoning # NoReasoning THEN <<thinking>> ELSE <<>>)
                    \o (IF answer.text THEN <<text>> ELSE <<>>)
                    \o calls,
         stop |-> finishReasonToStopForMessage(answer.finish, calls # <<>>),
         usage |-> {stage}]

\* Fault: the calls are taken out and the message asks for tools still.
StillAsking(resp) ==
    [resp EXCEPT !.blocks = Picked(@, {i \in DOMAIN @ : @[i].kind = "tool_use" => @[i].declared})]

\* Calls of tools that the client did not declare are taken out again, and
\* then the message asks for no tools, even if it has other calls.
filterUndeclaredToolUses(resp) ==
    LET kept == {i \in DOMAIN resp.blocks :
                    resp.blocks[i].kind = "tool_use" => resp.blocks[i].declared}
    IN  [resp EXCEPT !.blocks = Picked(@, kept),
                     !.stop = IF kept # DOMAIN resp.blocks /\ @ = "tool_use" THEN "end_turn"
                              ELSE @]

\* The search and what came of it, under one id.
webSearchServerBlocks(found) ==
    <<[kind |-> "server_tool_use", id |-> "search"],
      [kind |-> "web_search_tool_result", for |-> "search", usable |-> found]>>

\* Of the second answer only what there is to read.
finalTextLikeContent(blocks) ==
    Picked(blocks, {i \in DOMAIN blocks : blocks[i].kind \in {"text", "thinking"}})

\* The proxy's own words, or its list of the results.
fallbackSearchSummary == <<[kind |-> "text"]>>

\* A search that found nothing ends the turn.
NothingFound(asked) ==
    [blocks |-> webSearchServerBlocks(FALSE) \o fallbackSearchSummary,
     stop |-> "end_turn", usage |-> asked]

\* Nor is one lost because its second answer failed, or has nothing to read.
AnswerFailed(asked) ==
    [blocks |-> webSearchServerBlocks(TRUE) \o fallbackSearchSummary,
     stop |-> "end_turn", usage |-> asked]

SearchAnswered(asked, answer, ids) ==
    LET final == ConvertResponse(answer, ids, "answer")
        shown == finalTextLikeContent(final.blocks)
    IN  [blocks |-> webSearchServerBlocks(TRUE)
                    \o (IF shown = <<>> THEN fallbackSearchSummary ELSE shown),
         stop |-> IF final.stop = "max_tokens" THEN "max_tokens" ELSE "end_turn",
         usage |-> asked \cup final.usage]

\* One block of a message as events: text and the input of a server tool come
\* as a delta, all else in the start.
BlockEvents(i, block) ==
    IF block.kind \in {"text", "thinking", "server_tool_use"}
    THEN <<Opened(i, block), Delta(i, <<>>), Closed(i)>>
    ELSE <<Opened(i, block), Closed(i)>>

\* The same message as a stream, which always has a stop reason.
writeSyntheticAnthropicStream(resp) ==
    FlattenSeq([i \in DOMAIN resp.blocks |-> BlockEvents(i - 1, resp.blocks[i])])
        \o <<Stopping(IF resp.stop = "" THEN "end_turn" ELSE resp.stop), Stopped>>

\* What the client makes of a message of the shim, streamed or in one piece.
Delivered(resp, streamed) ==
    IF streamed THEN Received(NoMessage, writeSyntheticAnthropicStream(resp))
    ELSE [NoMessage EXCEPT !.blocks = resp.blocks, !.stop = resp.stop, !.ended = TRUE]
============================================================================
