------------------------- MODULE AnthropicMessage -------------------------
(***************************************************************************)
(* What a streamed Anthropic message promises its client, whatever the     *)
(* upstream protocol was: narration grows one block at a time and is never *)
(* taken back, a tool call is handed over whole, in one step and under an  *)
(* id of its own, and the message ends once, with a stop reason, or breaks *)
(* off with an error that nothing follows.                                 *)
(***************************************************************************)
EXTENDS AnthropicEvents, Naturals

CONSTANT Eager      \* are calls handed over before the message ends?

VARIABLE message

Init == message = NoMessage

Going == Streaming(message) /\ ~message.failed

\* The blocks of message' that message does not have.
More == SubSeq(message'.blocks, Len(message.blocks) + 1, Len(message'.blocks))

Distinct(calls) == \A i, j \in DOMAIN calls : calls[i].id = calls[j].id => i = j

\* A text or thinking block is begun, or comes whole; the one before it is
\* complete.
Narrate ==
    /\ Going
    /\ Len(More) = 1
    /\ More[1].kind \in {"text", "thinking"}
    /\ message.open => More[1].kind # Last(message.blocks).kind
    /\ message'.open \in BOOLEAN
    /\ message' = [message EXCEPT !.blocks = @ \o More, !.open = message'.open]

\* The open block is complete and nothing follows yet.
Pause ==
    /\ Going
    /\ message' = [message EXCEPT !.open = FALSE]

\* A call is handed over, and what came before it is complete.
HandOver ==
    /\ Eager /\ Going
    /\ Len(More) = 1
    /\ More[1].kind = "tool_use"
    /\ Distinct(Calls(message'))
    /\ message' = [message EXCEPT !.blocks = @ \o More, !.open = FALSE]

\* The turn ends: the calls not handed over yet come together with the stop
\* reason, and a client that is told to run tools has some to run.  Calls that
\* were handed over before are to be run whatever came after them.  An error
\* may go with it.
Conclude ==
    /\ Going
    /\ IsPrefix(message.blocks, message'.blocks)
    /\ \A b \in ToSet(More) : b.kind = "tool_use"
    /\ Distinct(Calls(message'))
    /\ message'.stop \in {"end_turn", "max_tokens", "tool_use"}
    /\ message'.stop = "tool_use" => Calls(message') # <<>>
    /\ Eager /\ Calls(message') # <<>> => message'.stop = "tool_use"
    /\ message'.valid /\ message'.ended /\ ~message'.open

\* The turn breaks off where it is.
Break ==
    /\ Going
    /\ message' = [message EXCEPT !.failed = TRUE]

Next == Narrate \/ Pause \/ HandOver \/ Conclude \/ Break

Spec == Init /\ [][Next]_message
============================================================================
