-------------------------- MODULE AnthropicEvents --------------------------
(***************************************************************************)
(* The events of an Anthropic Messages stream and what a client assembles  *)
(* from them.  The client (Claude Code and its SDK) is not in this         *)
(* repository; its rules are those the stream writers are written for:     *)
(* blocks are opened at consecutive indexes, one at a time, a delta goes   *)
(* to the open block, and message_delta and message_stop come last; only   *)
(* an error may come at any time.                                          *)
(***************************************************************************)
EXTENDS Naturals, SequencesExt, Picking

Opened(i, block) == [ev |-> "content_block_start", at |-> i, block |-> block]
Delta(i, piece) == [ev |-> "content_block_delta", at |-> i, piece |-> piece]
Closed(i) == [ev |-> "content_block_stop", at |-> i]
Stopping(reason) == [ev |-> "message_delta", reason |-> reason]
Stopped == [ev |-> "message_stop"]
Error == [ev |-> "error"]

\* A message under construction: its blocks so far, whether the last one is
\* open, the stop reason once known, and whether the events were in order.
NoMessage ==
    [blocks |-> <<>>, open |-> FALSE, stop |-> "none",
     ended |-> FALSE, failed |-> FALSE, valid |-> TRUE]

Streaming(m) == m.valid /\ ~m.ended /\ m.stop = "none"

\* May the client accept event e after the events that made m?
Acceptable(m, e) ==
    CASE e.ev = "content_block_start" ->
            Streaming(m) /\ ~m.open /\ e.at = Len(m.blocks)
      [] e.ev \in {"content_block_delta", "content_block_stop"} ->
            Streaming(m) /\ m.open /\ e.at = Len(m.blocks) - 1
      [] e.ev = "message_delta" -> Streaming(m) /\ ~m.open
      [] e.ev = "message_stop" -> m.valid /\ ~m.ended /\ m.stop # "none"
      [] e.ev = "error" -> m.valid

\* The input of a tool call grows with its deltas; how text grows is not
\* recorded, only that the block has some.
Grown(m, piece) ==
    IF Last(m.blocks).kind = "tool_use"
    THEN [m EXCEPT !.blocks[Len(m.blocks)].args = @ \o piece]
    ELSE m

Accepted(m, e) ==
    CASE e.ev = "content_block_start" ->
            [m EXCEPT !.blocks = Append(@, e.block), !.open = TRUE]
      [] e.ev = "content_block_delta" -> Grown(m, e.piece)
      [] e.ev = "content_block_stop" -> [m EXCEPT !.open = FALSE]
      [] e.ev = "message_delta" -> [m EXCEPT !.stop = e.reason]
      [] e.ev = "message_stop" -> [m EXCEPT !.ended = TRUE]
      [] e.ev = "error" -> [m EXCEPT !.failed = TRUE]

\* An event out of order makes the message invalid for good.  (The set gives
\* TLC the value of the message so far once, not once per use.)
Receive(sofar, e) ==
    CHOOSE r \in {IF Acceptable(m, e) THEN Accepted(m, e)
                  ELSE [m EXCEPT !.valid = FALSE] : m \in {sofar}} : TRUE

\* What the client makes of message m and the events that follow.  (A
\* function, not a fold: its values can be reasoned about one by one.)
Received(m, events) ==
    LET told[i \in 0 .. Len(events)] ==
          IF i = 0 THEN m ELSE Receive(told[i - 1], events[i])
    IN  told[Len(events)]

Calls(m) == Picked(m.blocks, {i \in DOMAIN m.blocks : m.blocks[i].kind = "tool_use"})
============================================================================
