------------------------ MODULE ResponsesConverter ------------------------
(***************************************************************************)
(* proxy.ResponsesToAnthropicStreamer (internal/proxy/                     *)
(* anthropic_responses_stream.go): the translation of an OpenAI Responses  *)
(* stream into Anthropic events, as operators on a streamer record.  Text  *)
(* is relayed as it comes; what the frames say of an output item is        *)
(* gathered under its item id, and a call is emitted whole when a frame    *)
(* says that its item is done, or when the stream is finalized.            *)
(*                                                                         *)
(* Of the frames only what the code reads is kept: f.type, the item, the   *)
(* name, call id and arguments they may carry (as pieces, see              *)
(* ToolResolution), and how a text ends.                                   *)
(***************************************************************************)
EXTENDS AnthropicEvents, ToolResolution

\* NewResponsesToAnthropicStreamer and RestrictTools; names is whether the
\* request declared any tools.  message_start is left out; wire is the message
\* its reader has made of the events written so far, and text the samples whose
\* text it holds (textLen is 0 when there is none).
NewResponsesToAnthropicStreamer(names) ==
    [declared |-> names, items |-> <<>>, text |-> {}, head |-> "",
     open |-> FALSE, next |-> 0, toolUse |-> FALSE, dropped |-> <<>>,
     status |-> "", incomplete |-> FALSE, failed |-> FALSE, big |-> FALSE,
     finalized |-> FALSE, wire |-> NoMessage]

Told(c, events) == [c EXCEPT !.wire = Received(@, events)]

----------------------------------------------------------------------------
(* Text.                                                                   *)

ensureTextBlock(c, from) ==
    IF c.open THEN c
    ELSE [Told(c, <<Opened(c.next, [kind |-> "text", from |-> from])>>)
            EXCEPT !.open = TRUE, !.next = @ + 1]

closeTextBlock(c) ==
    IF c.open THEN [Told(c, <<Closed(c.next - 1)>>) EXCEPT !.open = FALSE] ELSE c

\* textHead: how the first 400 bytes end.  "long" is text that filled them.
Headed(head, ends) == IF head = "long" \/ ends = "" THEN head ELSE ends

\* Text that ends as ends says ("" for a delta without text) goes to the open
\* block, or to a new one.
Narrated(c, from, ends) ==
    LET t == ensureTextBlock(c, from)
    IN  [Told(t, <<Delta(t.next - 1, <<>>)>>)
            EXCEPT !.text = IF ends = "" THEN @ ELSE @ \cup {from},
                   !.head = Headed(@, ends)]

\* response.output_text.done carries the text again; it is the only copy of
\* it when no delta had any.
outputTextDone(c, f) ==
    closeTextBlock(IF f.ends # "" /\ c.text = {} THEN Narrated(c, f.from, f.ends) ELSE c)

----------------------------------------------------------------------------
(* Output items.                                                           *)

Known(c, id) == \E i \in DOMAIN c.items : c.items[i].item = id

pendingFor(c, id) ==
    IF Known(c, id) THEN c
    ELSE [c EXCEPT !.items = Append(@,
            [item |-> id, name |-> NoName, callID |-> NoId, args |-> <<>>,
             sawAdded |-> FALSE, notool |-> FALSE, emitted |-> FALSE])]

Place(c, id) == CHOOSE i \in DOMAIN c.items : c.items[i].item = id

\* What a frame adds to what is known of its item p.
WithDelta(p, f) ==
    [p EXCEPT !.name = Or(@, NoName, f.name), !.callID = Or(@, NoId, f.callID),
              !.args = @ \o f.args]

WithAdded(p, f) ==
    IF f.kind # "function_call"
    THEN [p EXCEPT !.sawAdded = TRUE, !.notool = TRUE]
    ELSE [p EXCEPT !.sawAdded = TRUE, !.name = Or(f.name, NoName, @),
                   !.callID = Or(f.callID, NoId, @), !.args = @ \o f.args]

\* Evidence that an item is a call after all.
SaysCall(p, f) ==
    \/ f.kind = "function_call"
    \/ f.name # NoName \/ f.callID # NoId
    \/ f.args # <<>> \/ p.args # <<>>

\* A done frame carries the complete arguments or none; one for an item of
\* another type says nothing more.
WithDone(p, f) ==
    IF f.kind = "other" THEN p
    ELSE [p EXCEPT !.notool = @ /\ ~SaysCall(p, f), !.name = Or(f.name, NoName, @),
                   !.callID = Or(f.callID, NoId, @), !.args = Or(f.args, <<>>, @)]

\* Nothing is lost with an item that is not a call, or of which only the end
\* was seen.
Silent(p) ==
    /\ p.args = <<>>
    /\ p.notool \/ (p.name = NoName /\ ~p.sawAdded /\ p.callID = NoId)

\* The id of a call; one that has none gets a random one, named by its place.
CallId(c, i) == IF c.items[i].callID = NoId THEN <<0, i>> ELSE c.items[i].callID

\* The call at place i is handed over, behind the text.
HandedOver(c, i) ==
    LET t == closeTextBlock(c)
        block == [kind |-> "tool_use", id |-> CallId(c, i), args |-> <<>>]
    IN  [Told(t, <<Opened(t.next, block), Delta(t.next, c.items[i].args), Closed(t.next)>>)
            EXCEPT !.next = @ + 1, !.toolUse = TRUE]

\* flushTool: once per item.
flushTool(c, i) ==
    LET p == c.items[i]
        done == [c EXCEPT !.items[i].emitted = TRUE]
    IN  CASE p.emitted -> c
          [] ~p.emitted /\ Silent(p) -> done
          [] ~p.emitted /\ ~Silent(p) ->
                IF ~p.notool /\ Resolvable(c.declared, p.name, p.args)
                THEN HandedOver(done, i)
                ELSE [done EXCEPT !.dropped = Append(@, p)]

\* What flushTool is still going to say something of.
HasPendingTools(c) == \E p \in ToSet(c.items) : ~p.emitted /\ ~Silent(p)

----------------------------------------------------------------------------
(* Frames and the end of the stream.                                       *)

\* A frame about an output item.
HandleItem(c, f) ==
    LET t == pendingFor(c, f.item)
        i == Place(t, f.item)
    IN  CASE f.type = "delta" -> [t EXCEPT !.items[i] = WithDelta(@, f)]
          [] f.type = "added" -> [t EXCEPT !.items[i] = WithAdded(@, f)]
          [] f.type = "done" -> flushTool([t EXCEPT !.items[i] = WithDone(@, f)], i)

\* A terminal frame; the stream is finalized by the handler.  A completed one
\* may have no response in it, and then an empty status.
Outcome(c, f) ==
    CASE f.type = "completed" ->
            [c EXCEPT !.status = f.status, !.big = f.big,
                      !.incomplete = @ \/ f.status = "incomplete"]
      [] f.type = "incomplete" -> [c EXCEPT !.incomplete = TRUE, !.big = f.big]
      [] f.type = "failed" -> [c EXCEPT !.failed = TRUE]

\* Frames of other types, pings and frames that do not parse change nothing.
HandleEvent(c, f) ==
    CASE f.type = "text" -> Narrated(c, f.from, f.ends)
      [] f.type = "text_done" -> outputTextDone(c, f)
      [] f.type \in {"delta", "added", "done"} -> HandleItem(c, f)
      [] f.type \in {"completed", "incomplete", "failed"} -> Outcome(c, f)

\* Fault: an incomplete response has no calls worth running.
StopReasonIncomplete(c) ==
    IF c.incomplete THEN "max_tokens" ELSE IF c.toolUse THEN "tool_use" ELSE "end_turn"

StopReason(c) ==
    CASE c.toolUse -> "tool_use"
      [] ~c.toolUse /\ c.incomplete -> "max_tokens"
      [] ~c.toolUse /\ ~c.incomplete -> "end_turn"

\* flushTool for every item, in the order in which they were first seen.
Flushed(c) ==
    LET told[i \in 0 .. Len(c.items)] ==
          IF i = 0 THEN c ELSE flushTool(told[i - 1], i)
    IN  told[Len(c.items)]

\* What is left of the items, then the end of the text, then of the message.
Ended(c) ==
    LET t == closeTextBlock(Flushed(c))
    IN  Told(t, <<Stopping(StopReason(t)), Stopped>>)

\* Finalize, once only.  A failed response ends with the error alone.
Finalize(c) ==
    IF c.finalized THEN c
    ELSE [IF c.failed THEN Told(c, <<Error>>) ELSE Ended(c) EXCEPT !.finalized = TRUE]

EmitError(c) == [Told(c, <<Error>>) EXCEPT !.finalized = TRUE]
============================================================================
