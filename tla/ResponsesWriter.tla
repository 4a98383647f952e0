-------------------------- MODULE ResponsesWriter --------------------------
(***************************************************************************)
(* The writers of /v1/responses answers (internal/proxy/responses.go):     *)
(* ResponsesStreamConverter, which turns chat chunks (or the deltas of an  *)
(* Anthropic stream) into Responses events, and the conversions of whole   *)
(* answers.  A fragment of a tool call is [index, id, name, args], its     *)
(* arguments a sequence of pieces (see ToolResolution); a text is the      *)
(* sequence of its parts.                                                  *)
(***************************************************************************)
EXTENDS ResponsesEvents, ToolResolution

Narrative(kind, data) == [kind |-> kind, id |-> NoId, name |-> NoName, data |-> data]
Call(id, name, data) == [kind |-> "function_call", id |-> id, name |-> name, data |-> data]

----------------------------------------------------------------------------
(* The stream converter.  The output index of an item is its place in      *)
(* items; text, reasoning and tools, a map from the upstream's indexes,    *)
(* hold the places of what they name.  (Places count from 1 here.)         *)

\* NewResponsesStreamConverter announces the response.
NewResponsesStreamConverter ==
    [items |-> <<>>, text |-> 0, reasoning |-> 0, tools |-> <<>>, finish |-> "",
     finalized |-> FALSE, wire |-> Received(NoResponse, <<Created>>)]

Told(c, events) == [c EXCEPT !.wire = Received(@, events)]

\* A new item at the next output index.
Started(c, item) ==
    [Told(c, <<Added(Len(c.items) + 1, item)>>) EXCEPT !.items = Append(@, item)]

\* More of the item at a place.
Continued(c, at, data) ==
    [Told(c, <<Delta(at, data)>>) EXCEPT !.items[at].data = @ \o data]

handleText(c, data) ==
    IF c.text # 0 THEN Continued(c, c.text, data)
    ELSE LET at == Len(c.items) + 1
         IN  Continued([Started(c, Narrative("message", <<>>)) EXCEPT !.text = at], at, data)

handleReasoning(c, data) ==
    IF c.reasoning # 0 THEN Continued(c, c.reasoning, data)
    ELSE LET at == Len(c.items) + 1
         IN  Continued([Started(c, Narrative("reasoning", <<>>)) EXCEPT !.reasoning = at],
                       at, data)

\* The first fragment of a call announces it; one that has no id gets a random
\* one, named by its index.
toolState(c, frag) ==
    IF frag.index \in DOMAIN c.tools THEN c
    ELSE [Started(c, Call(Or(frag.id, NoId, <<0, frag.index>>), frag.name, <<>>))
            EXCEPT !.tools = With(@, frag.index, Len(c.items) + 1)]

\* Fault: what is known of a call is what its latest fragment says.
handleToolLatest(c, frag) ==
    LET t == toolState(c, frag)
        at == t.tools[frag.index]
        n == [t EXCEPT !.items[at].id = Or(frag.id, NoId, @), !.items[at].name = frag.name]
    IN  IF frag.args = <<>> THEN n ELSE Continued(n, at, frag.args)

handleTool(c, frag) ==
    LET t == toolState(c, frag)
        at == t.tools[frag.index]
        n == [t EXCEPT !.items[at].id = Or(frag.id, NoId, @),
                       !.items[at].name = Or(frag.name, NoName, @)]
    IN  IF frag.args = <<>> THEN n ELSE Continued(n, at, frag.args)

\* The fragments of a chunk, one after the other.
handleTools(c, frags) ==
    LET handled[i \in 0 .. Len(frags)] ==
          IF i = 0 THEN c ELSE handleTool(handled[i - 1], frags[i])
    IN  handled[Len(frags)]

\* A chunk: its reasoning, its text, the fragments of calls, the finish reason.
HandleChunk(c, chunk) ==
    LET r == IF chunk.reasoning = <<>> THEN c ELSE handleReasoning(c, chunk.reasoning)
        t == IF chunk.text = <<>> THEN r ELSE handleText(r, chunk.text)
    IN  [handleTools(t, chunk.calls) EXCEPT !.finish = Or(chunk.finish, "", @)]

Places(c, kind) ==
    Picked([i \in DOMAIN c.items |-> i], {i \in DOMAIN c.items : c.items[i].kind = kind})

\* Fault: the output lists the items in the order in which they are done.
OutputAsDone(c) ==
    LET order == Places(c, "reasoning") \o Places(c, "message") \o Places(c, "function_call")
    IN  [i \in DOMAIN order |-> c.items[order[i]]]

\* The output of the terminal event: each item at its output index.
Output(c) == c.items

status(finish) == IF finish = "length" THEN "incomplete" ELSE "completed"

\* Finalize, once: the reasoning is done, then the text, then the calls in the
\* order in which they were announced, then the response.
Finalize(c) ==
    IF c.finalized THEN c
    ELSE LET s == IF c.items = <<>> THEN handleText(c, <<>>) ELSE c
             order == Places(s, "reasoning") \o Places(s, "message")
                        \o Places(s, "function_call")
             done == [i \in DOMAIN order |-> Done(order[i], s.items[order[i]])]
         IN  [Told(s, Append(done, Terminal(status(s.finish), Output(s))))
                EXCEPT !.finalized = TRUE]

EmitError(c) ==
    IF c.finalized THEN c
    ELSE [Told(c, <<Terminal("failed", <<>>)>>) EXCEPT !.finalized = TRUE]

----------------------------------------------------------------------------
(* Answers that come whole.                                                *)

WholeCall(call) == Call(Or(call.id, NoId, <<0, call.index>>), call.name, call.args)

\* ConvertResponsesResponse, of a chat message [reasoning, text, calls, finish].
ConvertResponsesResponse(m) ==
    Whole(status(m.finish),
          (IF m.reasoning = <<>> THEN <<>> ELSE <<Narrative("reasoning", m.reasoning)>>)
          \o (IF m.text = <<>> THEN <<>> ELSE <<Narrative("message", m.text)>>)
          \o [i \in DOMAIN m.calls |-> WholeCall(m.calls[i])])

\* ConvertAnthropicResponseToResponses, of a sequence of blocks [kind, data,
\* id, name].  Text is held back until a block of another kind; reasoning
\* gathers, and each thinking block shows all of it.
FlushText(a) ==
    IF a.text = <<>> THEN a
    ELSE [a EXCEPT !.output = Append(@, Narrative("message", a.text)), !.text = <<>>]

Block(a, b) ==
    CASE b.kind = "text" -> [a EXCEPT !.text = @ \o b.data]
      [] b.kind = "thinking" ->
            [FlushText(a) EXCEPT !.reasoning = @ \o b.data,
                !.output = Append(@, Narrative("reasoning", a.reasoning \o b.data))]
      [] b.kind = "tool_use" ->
            [FlushText(a) EXCEPT !.output = Append(@, Call(b.id, b.name, b.data))]

\* The blocks of an answer, one after the other.
Converted(blocks) ==
    LET after[i \in 0 .. Len(blocks)] ==
          IF i = 0 THEN [text |-> <<>>, reasoning |-> <<>>, output |-> <<>>]
          ELSE Block(after[i - 1], blocks[i])
    IN  after[Len(blocks)]

ConvertAnthropicResponseToResponses(blocks, reason) ==
    LET a == Converted(blocks)
    IN  Whole(IF reason = "max_tokens" THEN "incomplete" ELSE "completed", FlushText(a).output)
============================================================================
