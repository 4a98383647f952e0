-------------------------- MODULE ResponsesEvents --------------------------
(***************************************************************************)
(* The events of a streamed OpenAI Responses answer and what a client      *)
(* assembles from them.  The client (Codex, an OpenAI SDK) is not in this  *)
(* repository; its rules are those the converter writes for: output items  *)
(* are announced at consecutive output indexes, deltas go to announced     *)
(* items, a done event repeats the whole item, and one terminal event      *)
(* repeats the whole output.                                               *)
(*                                                                         *)
(* An item is [kind, id, name, data]; its data, the parts of a text or of  *)
(* arguments, in order.  The events about an item's single content part go *)
(* with those about the item.                                              *)
(***************************************************************************)
EXTENDS SequencesExt, Naturals, Picking

Created == [ev |-> "created"]
Added(at, item) == [ev |-> "added", at |-> at, item |-> item]
Delta(at, data) == [ev |-> "delta", at |-> at, data |-> data]
Done(at, item) == [ev |-> "done", at |-> at, item |-> item]
Terminal(status, output) == [ev |-> "terminal", status |-> status, output |-> output]

\* A response under construction: its status, its items, the output indexes
\* (from 1 on) of those that are done, and whether the events were in order.
NoResponse == [status |-> "none", items |-> <<>>, done |-> {}, valid |-> TRUE]

\* A response that came in one piece.
Whole(status, output) ==
    [status |-> status, items |-> output, done |-> DOMAIN output, valid |-> TRUE]

Growing(r, at) == at \in DOMAIN r.items \ r.done

Acceptable(r, e) ==
    IF e.ev = "created" THEN r = NoResponse
    ELSE /\ r.valid /\ r.status = "in_progress"
         /\ CASE e.ev = "added" -> e.at = Len(r.items) + 1
              [] e.ev = "delta" -> Growing(r, e.at)
              [] e.ev = "done" ->
                    /\ Growing(r, e.at)
                    /\ e.item.kind = r.items[e.at].kind
                    /\ e.item.data = r.items[e.at].data
              [] e.ev = "terminal" ->
                    \/ e.status = "failed"
                    \/ r.done = DOMAIN r.items /\ e.output = r.items

Accepted(r, e) ==
    CASE e.ev = "created" -> [r EXCEPT !.status = "in_progress"]
      [] e.ev = "added" -> [r EXCEPT !.items = Append(@, e.item)]
      [] e.ev = "delta" -> [r EXCEPT !.items[e.at].data = @ \o e.data]
      [] e.ev = "done" -> [r EXCEPT !.items[e.at] = e.item, !.done = @ \cup {e.at}]
      [] e.ev = "terminal" -> [r EXCEPT !.status = e.status]

\* An event out of order makes the response invalid for good.
Receive(sofar, e) ==
    CHOOSE n \in {IF Acceptable(r, e) THEN Accepted(r, e)
                  ELSE [r EXCEPT !.valid = FALSE] : r \in {sofar}} : TRUE

\* What the client makes of response r and the events that follow.
Received(r, events) ==
    LET told[i \in 0 .. Len(events)] ==
          IF i = 0 THEN r ELSE Receive(told[i - 1], events[i])
    IN  told[Len(events)]

FunctionCalls(r) ==
    Picked(r.items, {i \in DOMAIN r.items : r.items[i].kind = "function_call"})
============================================================================
