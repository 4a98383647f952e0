---------------------------- MODULE OpenAILanes ----------------------------
(***************************************************************************)
(* The lanes of OpenAI clients: /v1/chat/completions (openai_proxy.go) and *)
(* /v1/responses over a chat upstream or over a native Anthropic one       *)
(* (responses_proxy.go).  A turn of any lane is relayed as a stream,       *)
(* gathered into one answer ("aggregated": the upstream only streams, the  *)
(* client did not ask for it), or has an upstream that answers in one      *)
(* piece ("plain").                                                        *)
(*                                                                         *)
(* The upstream is external: it streams text, reasoning and the fragments  *)
(* of calls, several interleaved, and may stop at any point.               *)
(***************************************************************************)
EXTENDS ToolFilter, ResponsesWriter

CONSTANTS
    MaxChunks,      \* bound: chunks of a stream
    MaxCalls,       \* bound: tool calls in a turn
    Names           \* names of calls: "declared", "alias", "undeclared"

ASSUME LanesAssumption ==
    /\ MaxChunks \in Nat /\ MaxCalls \in Nat
    /\ Names \subseteq {"declared", "alias", "undeclared"}
    /\ NoName \notin {"declared", "alias", "undeclared"}
    /\ NoId \notin {0, 1} \X Nat

\* The relay of each form: relayOpenAIStream and relayOpenAIAggregated,
\* relayResponsesStream, relayResponsesChatAggregated and relayResponsesJSON,
\* relayResponsesAnthropicStream and relayResponsesAnthropicJSON.  A plain chat
\* answer is relayed byte for byte (relayOpenAIJSON) and left out.
Requests ==
    {r \in [lane : {"chat", "responses", "native"},
            form : {"stream", "aggregated", "plain"}, declared : BOOLEAN] :
        /\ r.lane = "native" => r.form # "aggregated"
        /\ r.lane = "chat" => r.form # "plain"}

VARIABLES
    request,    \* the turn
    phase,      \* "open", then "answered" or "failed"
    filter,     \* the filter of a streamed chat turn
    conv,       \* the converter of a streamed Responses turn
    answer,     \* what is gathered of the chunks: by a chat client of those it
                \* gets, by AggregateOpenAIStream of those that come
    response,   \* what the Responses client has
    sent,       \* history: the calls, as far as sent
    count,      \* chunks received
    reason      \* history: the finish reason the upstream has given, "" when
                \* none, "done" when it ended with [DONE] without one

vars == <<request, phase, filter, conv, answer, response, sent, count, reason>>

Responses == request.lane # "chat"
Streamed == request.form = "stream"

Init ==
    /\ request \in Requests
    /\ phase = "open"
    /\ filter = newChatToolCallFilter(request.declared)
    /\ conv = NewResponsesStreamConverter
    /\ answer = NoAnswer
    /\ response = IF Responses /\ Streamed THEN conv.wire ELSE NoResponse
    /\ sent = <<>>
    /\ count = 0
    /\ reason = ""

----------------------------------------------------------------------------
(* The upstream.  A call is [index, name, size, at, named]: its arguments are  *)
(* in size pieces, of which at were sent; its id and its name come with    *)
(* the first fragment or with the second.                                  *)

Id(call) == <<1, call.index>>
Piece(call, n) == [call |-> call.index, n |-> n, last |-> n = call.size]

Fragment(call, args, named) ==
    [index |-> call.index, id |-> IF named THEN Id(call) ELSE NoId,
     name |-> IF named THEN call.name ELSE NoName, args |-> args]

Silent == [text |-> <<>>, reasoning |-> <<>>, calls |-> <<>>, finish |-> ""]

\* A call that begins in a chunk: with its first piece, or with none.
Beginnings(index) ==
    [index : {index}, name : Names, size : {1, 2}, at : {0, 1}, named : {TRUE}]
    \cup [index : {index}, name : Names, size : {2}, at : {1}, named : {FALSE}]

First(call) == Fragment(call, IF call.at = 0 THEN <<>> ELSE <<Piece(call, 1)>>, call.named)
Following(call) == Fragment(call, <<Piece(call, call.at + 1)>>, ~call.named)

\* The blocks of an Anthropic stream begin with the name and without input.
Begun(call) == request.lane = "native" => call.named /\ call.at = 0

Opening ==
    {[calls |-> <<First(c)>>, sent |-> Append(sent, c)] :
        c \in {b \in Beginnings(Len(sent) + 1) : Len(sent) < MaxCalls /\ Begun(b)}}

\* Two calls that begin in one chunk, whole.
OpeningTwo ==
    IF Len(sent) + 2 > MaxCalls \/ request.lane = "native" THEN {}
    ELSE {[calls |-> <<First(c), First(d)>>, sent |-> sent \o <<c, d>>] :
            c \in {b \in Beginnings(Len(sent) + 1) : b.size = 1 /\ b.at = 1},
            d \in {b \in Beginnings(Len(sent) + 2) : b.size = 1 /\ b.at = 1}}

Continuing ==
    {[calls |-> <<Following(sent[i])>>,
      sent |-> [sent EXCEPT ![i].at = @ + 1, ![i].named = TRUE]] :
        i \in {j \in DOMAIN sent : sent[j].at < sent[j].size}}

AllSent(calls) == \A c \in ToSet(calls) : c.at = c.size

\* Why a turn with the calls made so far may end.  (An upstream may also say
\* that there are calls to run when it has made none.)
Reasons(calls) == {"length"} \cup IF AllSent(calls) THEN {"stop", "tool_calls"} ELSE {}

anthropicReason(finish) ==
    CASE finish = "tool_calls" -> "tool_use"
      [] finish = "length" -> "max_tokens"
      [] finish = "stop" -> "end_turn"

\* The thinking of an Anthropic stream is not looked at.
Texts ==
    {[Silent EXCEPT !.text = <<count + 1>>]}
    \cup IF request.lane = "native" THEN {} ELSE {[Silent EXCEPT !.reasoning = <<count + 1>>]}

\* What the upstream may send next, with the record of calls it leaves.
Bodies ==
    {[chunk |-> c, sent |-> sent] : c \in Texts \cup {Silent}}
    \cup {[chunk |-> [Silent EXCEPT !.calls = o.calls], sent |-> o.sent] :
            o \in Opening \cup OpeningTwo \cup Continuing}

\* A stop reason comes in an Anthropic event of its own, a finish reason in
\* any chunk.
Finishes(o) ==
    IF request.lane = "native"
    THEN IF o.chunk = Silent THEN {anthropicReason(f) : f \in Reasons(sent)} ELSE {""}
    ELSE Reasons(o.sent) \cup IF o.chunk = Silent THEN {} ELSE {""}

Offers == UNION {{[o EXCEPT !.chunk.finish = f] : f \in Finishes(o)} : o \in Bodies}

\* Nothing but usage follows the finish reason.
Sends(o) ==
    /\ phase = "open" /\ reason = "" /\ count < MaxChunks
    /\ sent' = o.sent
    /\ count' = count + 1
    /\ reason' = o.chunk.finish

----------------------------------------------------------------------------
(* The handlers.                                                           *)

openAIFinishReasonFromAnthropic(r) ==
    CASE r = "tool_use" -> "tool_calls"
      [] r = "max_tokens" -> "length"
      [] r = "end_turn" -> "stop"
      [] OTHER -> r

\* The events of an Anthropic stream are chunks of one delta each.
Normalized(chunk) == [chunk EXCEPT !.finish = openAIFinishReasonFromAnthropic(@)]

\* A chunk of a chat stream is relayed, its calls filtered.
RelayChat ==
    /\ ~Responses /\ Streamed
    /\ \E o \in Offers :
          /\ Sends(o)
          /\ filter' = Judged(filter, o.chunk)
          /\ answer' = Gathered(answer, filterChatToolCalls(filter', o.chunk))
    /\ UNCHANGED <<request, phase, conv, response>>

\* A chunk becomes Responses events.
RelayResponses ==
    /\ Responses /\ Streamed
    /\ \E o \in Offers :
          /\ Sends(o)
          /\ conv' = HandleChunk(conv, Normalized(o.chunk))
    /\ response' = conv'.wire
    /\ UNCHANGED <<request, phase, filter, answer>>

\* A chunk of a turn the client wants in one piece.
Gather ==
    /\ request.form = "aggregated"
    /\ \E o \in Offers :
          /\ Sends(o)
          /\ answer' = Gathered(answer, o.chunk)
    /\ UNCHANGED <<request, phase, filter, conv, response>>

\* The client is told that the turn failed.
Fails ==
    /\ phase' = "failed"
    /\ conv' = IF Responses /\ Streamed THEN EmitError(conv) ELSE conv
    /\ response' = IF Responses /\ Streamed THEN conv'.wire ELSE response
    /\ UNCHANGED answer

\* A Responses turn is over when the upstream said so: with [DONE] or a finish
\* reason, with message_stop or a stop reason.
Over(done) == done \/ reason # ""

\* The body of a stream ends, after [DONE] (message_stop) or without.  A chat
\* client only sees it end.
StreamEnds ==
    /\ phase = "open" /\ Streamed
    /\ \/ ~Responses /\ phase' = "answered" /\ UNCHANGED <<conv, response, answer, reason>>
       \/ /\ Responses
          /\ \E done \in BOOLEAN :
                /\ reason' = IF done /\ reason = "" THEN "done" ELSE reason
                /\ \/ ~Over(done) /\ Fails
                   \/ /\ Over(done)
                      /\ conv' = Finalize(conv)
                      /\ response' = conv'.wire
                      /\ phase' = "answered"
                      /\ UNCHANGED answer
    /\ UNCHANGED <<request, filter, sent, count>>

filterUndeclaredResponsesTools(r, declared) ==
    Whole(r.status, Picked(r.items, {i \in DOMAIN r.items :
        r.items[i].kind = "function_call" => ~Undeclared(declared, r.items[i].name)}))

\* The body of a gathered stream ends, however it does: what has come is the
\* answer, unless nothing has.
AggregateEnds ==
    /\ phase = "open" /\ request.form = "aggregated"
    /\ \/ ~answer.any /\ Fails
       \/ /\ answer.any
          /\ phase' = "answered"
          /\ UNCHANGED conv
          /\ LET whole == AggregateOpenAIStream(answer)
                 converted == ConvertResponsesResponse(whole)
             IN  IF Responses
                 THEN /\ response' = filterUndeclaredResponsesTools(converted, request.declared)
                      /\ answer' = whole
                 ELSE /\ answer' = filterUndeclaredOpenAITools(whole, request.declared)
                      /\ UNCHANGED response
    /\ UNCHANGED <<request, filter, sent, count, reason>>

\* The body breaks off, or reports an error.
Breaks ==
    /\ phase = "open"
    /\ Fails
    /\ UNCHANGED <<request, filter, sent, count, reason>>

\* An upstream that answers in one piece.
WholeCalls == {c \in Beginnings(1) \cup Beginnings(2) : c.size = 1 /\ c.at = 1}

Answers ==
    {calls \in UNION {[1 .. n -> WholeCalls] : n \in 0 .. MaxCalls} :
        \A i \in DOMAIN calls : calls[i].index = i}

PlainChat(calls, r) ==
    \E text, reasoning \in {<<>>, <<1>>} :
        response' = ConvertResponsesResponse(
            [text |-> text, reasoning |-> reasoning, finish |-> r,
             calls |-> [i \in DOMAIN calls |-> First(calls[i])]])

\* The calls among texts and thinking.
Blocks(calls) ==
    LET blocks == {[kind |-> k, id |-> NoId, name |-> NoName, data |-> <<1>>] :
                      k \in {"text", "thinking"}}
        used == [i \in DOMAIN calls |->
                    [kind |-> "tool_use", id |-> Id(calls[i]), name |-> calls[i].name,
                     data |-> <<Piece(calls[i], 1)>>]]
    IN  UNION {{before \o used \o after : after \in SeqOf(blocks, 1)} :
                  before \in SeqOf(blocks, 2)}

PlainAnthropic(calls, r) ==
    \E blocks \in Blocks(calls) :
        response' = ConvertAnthropicResponseToResponses(blocks, anthropicReason(r))

Answered ==
    /\ phase = "open" /\ request.form = "plain"
    /\ \E calls \in Answers : \E r \in Reasons(calls) :
          /\ IF request.lane = "native" THEN PlainAnthropic(calls, r) ELSE PlainChat(calls, r)
          /\ sent' = calls
          /\ reason' = r
    /\ phase' = "answered"
    /\ UNCHANGED <<request, filter, conv, answer, count>>

Next ==
    \/ RelayChat \/ RelayResponses \/ Gather
    \/ StreamEnds \/ AggregateEnds \/ Breaks \/ Answered

Spec == Init /\ [][Next]_vars

----------------------------------------------------------------------------
(* Properties.                                                             *)

\* An answer of /v1/responses is a well-formed response: items at consecutive
\* output indexes that only grow, each done once as it was streamed, and one
\* terminal event that repeats them at their places (ResponsesStreamConverter
\* and the conversions of whole answers).
ResponseContract == INSTANCE ResponsesMessage
ResponseWellFormed == ResponseContract!Spec

\* The calls the client has, as [id, name, args].
Got ==
    IF Responses
    THEN {[id |-> i.id, name |-> i.name, args |-> i.data] : i \in ToSet(FunctionCalls(response))}
    ELSE {[id |-> c.id, name |-> c.name, args |-> c.args] : c \in ToSet(answer.calls)}

NumberGot == IF Responses THEN Len(FunctionCalls(response)) ELSE Len(answer.calls)

\* The name a call has for the client, NoName when it must not get the call: a
\* chat stream is filtered by what a name resolves to, a gathered one by the
\* names themselves, and the others not at all.
NameFor(call) ==
    CASE request.lane = "chat" /\ Streamed ->
            ResolveDeclaredToolName(request.declared, call.name)
      [] request.form = "aggregated" ->
            IF request.declared /\ call.name = "declared" THEN call.name ELSE NoName
      [] OTHER -> call.name

\* Each call of the upstream reaches the client once, under its own id and
\* name, with all its arguments in order and no other call's; one that the
\* client did not declare does not reach it, but for what a chat stream had
\* relayed of it before its name came (verdictFor, handleTool, appendTool).
CallsDelivered ==
    phase = "answered" =>
        LET named == {c \in ToSet(sent) : c.named /\ NameFor(c) # NoName}
            all(c) == [n \in 1 .. c.at |-> Piece(c, n)]
            whole == {[id |-> Id(c), name |-> NameFor(c), args |-> all(c)] : c \in named}
        IN  /\ whole \subseteq Got
            /\ \A g \in Got \ whole : g.name = NoName /\ Len(g.args) = 1
            /\ NumberGot = Cardinality(Got)

\* A call of the upstream that the client is to get, and a leftover: what a
\* chat stream had relayed of a call before its name came.
HasCall == \E call \in ToSet(sent) : call.named /\ NameFor(call) # NoName
HasLeftover == \E call \in ToSet(answer.calls) : call.name = NoName

\* How a turn ended is told by what the client was given and by what the
\* upstream said (keptAny, AggregateOpenAIStream, status, SawDone, SawFinish).
\* A chat stream says that there are calls to run if and only if the upstream
\* did and the client has one of them, or a leftover of one.  A gathered chat
\* says so whenever the upstream said so or made a call, kept or not, unless it
\* was cut short.  A response is incomplete if and only if the upstream was cut
\* short; and one that is answered although the upstream has not said that the
\* turn was over was gathered from a stream that broke off.
FinishHonest ==
    /\ request.lane = "chat" /\ Streamed =>
          (answer.finish = "tool_calls" <=> reason = "tool_calls" /\ (HasCall \/ HasLeftover))
    /\ request.lane = "chat" /\ ~Streamed /\ phase = "answered" =>
          (answer.finish = "tool_calls" <=>
              reason = "tool_calls" \/ (reason # "length" /\ sent # <<>>))
    /\ Responses /\ phase = "answered" =>
          /\ response.status = "incomplete" <=> reason \in {"length", "max_tokens"}
          /\ reason = "" => request.form = "aggregated"

\* "A choice that lost every call has its finish_reason corrected from
\* tool_calls to stop" (README.md:558-559): a chat stream that says there are
\* calls to run has given the client one with a name.
LostCallsCorrected ==
    request.lane = "chat" /\ Streamed /\ answer.finish = "tool_calls" =>
        \E call \in ToSet(answer.calls) : call.name # NoName
============================================================================
