--------------------------- MODULE ChatConverter ---------------------------
(***************************************************************************)
(* proxy.StreamConverter (internal/proxy/stream.go): the translation of an *)
(* OpenAI chat-completion stream into Anthropic events, as operators on a  *)
(* converter record.  Text and thinking are relayed as they come; the      *)
(* fragments of tool calls are buffered and each call is emitted whole     *)
(* when the stream is finalized.                                           *)
(* A fragment's arguments are one piece (see ToolResolution).              *)
(***************************************************************************)
EXTENDS Integers, AnthropicEvents, ToolResolution

legacyFunctionCallIndex == -1

\* NewStreamConverter; names is whether the request declared any tools.
\* message_start and ping are the same for every stream and left out; wire is
\* the message its reader has made of the events written so far.
NewStreamConverter(names) ==
    [declared |-> names, cur |-> "none", next |-> 0, text |-> FALSE,
     reasoning |-> FALSE, tools |-> <<>>, minKey |-> legacyFunctionCallIndex,
     finish |-> "", dropped |-> <<>>, finalized |-> FALSE, stop |-> "none",
     wire |-> NoMessage]

----------------------------------------------------------------------------
(* Narration.                                                              *)

\* closeCurrent: the event that ends the open block, if there is one.
closeCurrent(c) == IF c.cur = "none" THEN <<>> ELSE <<Closed(c.next - 1)>>

\* Fault: a block is opened while the one before it is still open.
BlockUnclosed(c, kind, from) == <<Opened(c.next, [kind |-> kind, from |-> from])>>

\* The block before is closed and a new one opened.
Block(c, kind, from) ==
    closeCurrent(c) \o <<Opened(c.next, [kind |-> kind, from |-> from])>>

\* One delta of the given kind, in a new block unless the open one has it.
Narrated(c, kind, from) ==
    IF c.cur = kind
    THEN [c EXCEPT !.wire = Receive(@, Delta(c.next - 1, <<>>))]
    ELSE [c EXCEPT !.cur = kind, !.next = @ + 1,
                   !.wire = Received(@, Append(Block(c, kind, from),
                                               Delta(c.next, <<>>)))]

handleThinking(c, from) == [Narrated(c, "thinking", from) EXCEPT !.reasoning = TRUE]
handleText(c, from) == [Narrated(c, "text", from) EXCEPT !.text = TRUE]

----------------------------------------------------------------------------
(* Tool calls.                                                             *)

Slots(c, key) == {i \in DOMAIN c.tools : c.tools[i].key = key}

\* Fault: fragments are told apart by their index alone.
BufferKeyByIndex(c, f) == f.index

\* A fragment with another id and a name, at an index that is taken, gets a
\* key of its own.
BufferKey(c, f) ==
    IF /\ \E i \in Slots(c, f.index) : c.tools[i].id \notin {NoId, f.id}
       /\ f.id # NoId
       /\ f.name # NoName
    THEN c.minKey - 1
    ELSE f.index

bufferTool(c, f) ==
    LET key == BufferKey(c, f)
        known == IF Slots(c, key) # {} THEN c.tools
                 ELSE Append(c.tools, [key |-> key, id |-> NoId,
                                       name |-> NoName, args |-> <<>>])
        i == CHOOSE j \in DOMAIN known : known[j].key = key
        st == known[i]
        filled == [st EXCEPT !.id = IF @ = NoId THEN f.id ELSE @,
                             !.name = IF @ = NoName THEN f.name ELSE @,
                             !.args = Append(@, f.piece)]
    IN  [c EXCEPT !.tools = ReplaceAt(known, i, filled),
                  !.minKey = IF key < @ THEN key ELSE @]

\* ensureToolID mints an id for a call that has none; it is named by
\* its key (upstream ids are pairs of a sample and an ordinal from 1).
ToolId(st) == IF st.id = NoId THEN <<0, st.key>> ELSE st.id

\* The events of one call, emitted whole as the block at index i.
emitBufferedTool(i, st) ==
    <<Opened(i, [kind |-> "tool_use", id |-> ToolId(st), args |-> <<>>]),
      Delta(i, st.args), Closed(i)>>

\* Where the calls are that Finalize will emit; it will drop the others.
Usable(c) ==
    {i \in DOMAIN c.tools : Resolvable(c.declared, c.tools[i].name, c.tools[i].args)}

\* The calls Finalize will emit and those it will drop, in first-seen order.
Emitted(c) == Picked(c.tools, Usable(c))
Dropped(c) == Picked(c.tools, DOMAIN c.tools \ Usable(c))

HasToolUse(c) == c.tools # <<>>

----------------------------------------------------------------------------
(* Chunks and the end of the stream.                                       *)

Stripped(c, ch) == ch.role /\ ch.body \in {"none", "thinking"}

\* HandleChunk: one choice, with a delta of at most one kind.  A delta that
\* has a role and neither text nor calls is skipped before its finish reason
\* is looked at; an empty finish reason replaces nothing.
HandleChunk(c, ch) ==
    LET told ==
          CASE ch.body = "thinking" -> handleThinking(c, ch.from)
            [] ch.body = "text" -> handleText(c, ch.from)
            [] ch.body = "tool" -> bufferTool(c, ch.frag)
            [] ch.body \in {"none", "usage"} -> c
    IN  IF Stripped(c, ch) \/ ch.finish = "" THEN told
        ELSE [told EXCEPT !.finish = ch.finish]

mapFinishReason(reason) ==
    CASE reason = "length" -> "max_tokens"
      [] reason = "tool_calls" -> "tool_use"
      [] OTHER -> "end_turn"

\* Fault: the upstream's tool_calls is believed when every call was dropped.
FinishReasonBelieved(c) ==
    IF c.finish \in {"", "stop"}
    THEN IF Emitted(c) = <<>> THEN "stop" ELSE "tool_calls"
    ELSE c.finish

\* What to tell the client: calls that are emitted turn a plain stop into a
\* tool turn, and a tool turn of which nothing is emitted is a plain stop.
FinishReason(c) ==
    IF c.finish \in {"", "stop", "tool_calls"}
    THEN IF Emitted(c) = <<>> THEN "stop" ELSE "tool_calls"
    ELSE c.finish

\* The message after the calls, each emitted whole behind the one before.
HandedOver(c, m) ==
    LET calls == Emitted(c)
        told[i \in 0 .. Len(calls)] ==
          IF i = 0 THEN m
          ELSE Received(told[i - 1], emitBufferedTool(c.next + i - 1, calls[i]))
    IN  told[Len(calls)]

\* The end of a stream: the open block is closed, the calls follow, then
\* message_delta and message_stop.
Ending(c) ==
    Received(HandedOver(c, Received(c.wire, closeCurrent(c))),
             <<Stopping(mapFinishReason(FinishReason(c))), Stopped>>)

\* Finalize, once only.
Finalize(c) ==
    IF c.finalized THEN c
    ELSE [c EXCEPT !.cur = "none", !.next = @ + Len(Emitted(c)),
                   !.dropped = Dropped(c), !.finalized = TRUE,
                   !.stop = mapFinishReason(FinishReason(c)), !.wire = Ending(c)]

EmitError(c) == [c EXCEPT !.wire = Receive(@, Error)]
============================================================================
