-------------------------- MODULE ResponsesStream --------------------------
(***************************************************************************)
(* relayAnthropicResponsesStream (internal/server/anthropic_responses.go): *)
(* a Responses stream relayed to an Anthropic client.  A turn that ended   *)
(* without any call may be sampled again, up to MaxAttempts times when its *)
(* text announces an action that did not come.  A further sample is run    *)
(* through a streamer of its own, and its frames are replayed into the     *)
(* open message only when it completed with a call.                        *)
(*                                                                         *)
(* The upstream is external: it sends the frames of several output items,  *)
(* interleaved, in any of the shapes met in the code's comments and tests, *)
(* and may stop at any point.                                              *)
(***************************************************************************)
EXTENDS ResponsesConverter

CONSTANTS
    MaxAttempts,    \* further samples asked for a stalled turn, 3 in the code
    MaxFrames,      \* bound: frames of the first and the latest sample together
    MaxItems,       \* bound: output items other than text in one sample
    Names,          \* names a call may have: "declared", "undeclared", NoName
    Endings,        \* how a text may end: "colon", "plain", "long"
    Forms           \* the ways an output item may be streamed

AllForms == {"standard", "prefilled", "flat", "named", "bare", "split",
             "hidden", "reasoning"}

Samples == {1, 2}

ASSUME ResponsesAssumption ==
    /\ NoId \notin Samples \X Nat
    /\ MaxAttempts \in Nat \ {0}
    /\ MaxFrames \in Nat /\ MaxItems \in Nat
    /\ Names \subseteq {"declared", "undeclared", NoName}
    /\ Endings \subseteq {"colon", "plain", "long"}
    /\ Forms \subseteq AllForms

VARIABLES
    pc,         \* "first", "verdict", "second", "replay", "done"
    enabled,    \* resampleEnabled
    conv,       \* the streamer of the client's message
    candidate,  \* the streamer of the further sample
    frames,     \* the further sample's frames kept for, or left of, the replay
    attempt,    \* the loop variable
    sent,       \* history: the items of the first and of the latest sample
    count,      \* frames received of each
    ended       \* samples that have sent a terminal frame

stream == <<conv, candidate, frames>>
upstream == <<sent, count, ended>>
vars == <<pc, enabled, stream, attempt, upstream>>

Init ==
    /\ pc = "first"
    /\ enabled \in BOOLEAN
    /\ \E names \in BOOLEAN :
          /\ conv = NewResponsesToAnthropicStreamer(names)
          /\ candidate = NewResponsesToAnthropicStreamer(names)
    /\ frames = <<>>
    /\ attempt = 1
    /\ sent = [s \in Samples |-> <<>>]
    /\ count = [s \in Samples |-> 0]
    /\ ended = {}

----------------------------------------------------------------------------
(* The upstream.                                                           *)

\* The frames of an item, in order.
Program(form) ==
    CASE form = "standard" -> <<"added", "delta", "done">>
      [] form = "prefilled" -> <<"added_full", "done">>
      [] form = "flat" -> <<"flat_done">>
      [] form = "named" -> <<"named_delta", "marker">>
      [] form = "bare" -> <<"delta", "delta">>
      [] form = "split" -> <<"delta", "args_done", "done">>
      [] form = "hidden" -> <<"added_other", "delta", "done_other">>
      [] form = "reasoning" -> <<"added_other", "marker">>

\* The deltas among the first k frames of a form; at least one piece in all.
Deltas(form, k) ==
    Cardinality({n \in 1 .. k : Program(form)[n] \in {"delta", "named_delta"}})
Size(form) == IF Deltas(form, Len(Program(form))) = 2 THEN 2 ELSE 1

\* Forms that never tell the name, or tell it after the end of the arguments.
Anonymous == {"bare", "split"}

NewItems(s) ==
    [id : {<<s, Len(sent[s]) + 1>>}, form : Forms, name : Names, shaped : BOOLEAN,
     at : {1}]

\* The shape of the arguments matters only when there is no name to go by.
Plausible(call) ==
    /\ call.form \in {"hidden", "reasoning", "bare"} => call.name = NoName
    /\ call.shaped => call.name = NoName \/ call.form \in Anonymous

Pieces(call, from, to) ==
    [n \in 1 .. (to - from + 1) |->
        [call |-> call.id, n |-> from + n - 1, last |-> from + n - 1 = Size(call.form),
         shaped |-> call.shaped]]

\* The frame at place k of a call's program.  Items are numbered anew in each
\* sample; the first component is for the prefix of the replay.
Frame(call, k) ==
    LET kind == Program(call.form)[k]
        all == Pieces(call, 1, Size(call.form))
        whose == kind \in {"added", "added_full", "named_delta", "flat_done", "done"}
    IN  [type |-> CASE kind \in {"added", "added_full", "added_other"} -> "added"
                    [] kind \in {"delta", "named_delta"} -> "delta"
                    [] OTHER -> "done",
         item |-> <<0, call.id[2]>>,
         kind |-> CASE kind \in {"added", "added_full", "done"} -> "function_call"
                    [] kind \in {"added_other", "done_other"} -> "other"
                    [] OTHER -> "none",
         name |-> IF whose THEN call.name ELSE NoName,
         callID |-> IF whose THEN call.id ELSE NoId,
         args |-> CASE kind \in {"delta", "named_delta"} ->
                        LET n == Deltas(call.form, k) IN Pieces(call, n, n)
                    [] kind \in {"added_full", "flat_done", "args_done", "done"} -> all
                    [] OTHER -> <<>>]

\* Neither the size of a further sample's answer nor the end of its text is
\* looked at.
Texts(s) ==
    [type : {"text", "text_done"}, from : {s},
     ends : (IF s = 1 THEN Endings ELSE {"plain"}) \cup {""}]
Ends(s) ==
    [type : {"completed"}, status : {"completed", "incomplete", ""}, big : {FALSE, s = 1}]
    \cup [type : {"incomplete", "failed"}, status : {""}, big : {FALSE}]

\* What sample s may send next, with the record of items it leaves.
Offers(s) ==
    IF s \in ended THEN {}
    ELSE {[frame |-> f, items |-> sent[s]] : f \in Texts(s) \cup Ends(s)}
         \cup {[frame |-> Frame(c, 1), items |-> Append(sent[s], c)] :
            c \in {n \in NewItems(s) : Len(sent[s]) < MaxItems /\ Plausible(n)}}
         \cup {[frame |-> Frame(sent[s][i], sent[s][i].at + 1),
                items |-> [sent[s] EXCEPT ![i].at = @ + 1]] :
            i \in {j \in DOMAIN sent[s] : sent[s][j].at < Len(Program(sent[s][j].form))}}

Send(s, o) ==
    /\ count[1] + count[2] < MaxFrames
    /\ count' = [count EXCEPT ![s] = @ + 1]
    /\ sent' = [sent EXCEPT ![s] = o.items]
    /\ ended' = IF o.frame.type \in {"completed", "incomplete", "failed"}
                THEN ended \cup {s} ELSE ended

----------------------------------------------------------------------------
(* The handler.                                                            *)

\* isToolCallStall: short text that announces an action.
Stalled == conv.head = "colon"

\* ShouldResampleToolless, as called by maybeResampleToollessStream.
MayResample ==
    /\ enabled /\ conv.declared
    /\ ~conv.toolUse /\ ~HasPendingTools(conv)
    /\ conv.dropped = <<>>
    /\ conv.status \in {"", "completed"}
    /\ ~conv.big /\ ~conv.failed /\ ~conv.incomplete

Conclude ==
    /\ conv' = Finalize(conv)
    /\ pc' = "done"

\* A frame of the first sample is translated and flushed to the client.
RelayFrame ==
    /\ pc = "first"
    /\ \E o \in Offers(1) :
          /\ Send(1, o)
          /\ conv' = HandleEvent(conv, o.frame)
    /\ UNCHANGED <<pc, enabled, candidate, frames, attempt>>

\* The body breaks off: the message is closed, then the error is told.
FirstBreaks ==
    /\ pc = "first"
    /\ conv' = EmitError(Finalize(conv))
    /\ pc' = "done"
    /\ UNCHANGED <<enabled, candidate, frames, attempt, upstream>>

\* The body ends, with a terminal frame or without.
FirstEnds ==
    /\ pc = "first"
    /\ pc' = "verdict"
    /\ UNCHANGED <<enabled, stream, attempt, upstream>>

\* A further sample is asked for.
Resample ==
    /\ pc = "verdict" /\ MayResample
    /\ pc' = "second"
    /\ UNCHANGED <<enabled, stream, attempt, upstream>>

\* The turn is good as it is, or past help.
Accept ==
    /\ pc = "verdict" /\ ~MayResample
    /\ Conclude
    /\ UNCHANGED <<enabled, candidate, frames, attempt, upstream>>

\* Fault: the further sample's text is kept behind the first one's.
KeptWhole(f) == f.type \notin {"incomplete", "failed"}

\* Text that would follow the first sample's is not kept, nor are failures.
Kept(f) ==
    \/ f.type \in {"delta", "added", "done", "completed"}
    \/ f.type \in {"text", "text_done"} /\ conv.text = {}

BufferFrame ==
    /\ pc = "second"
    /\ \E o \in Offers(2) :
          /\ Send(2, o)
          /\ candidate' = HandleEvent(candidate, o.frame)
          /\ frames' = IF Kept(o.frame) THEN Append(frames, o.frame) ELSE frames
    /\ UNCHANGED <<pc, enabled, conv, attempt>>

\* The further sample is of no use and forgotten: the first stands, and a
\* stalled one is tried again.
Unrescued ==
    /\ candidate' = NewResponsesToAnthropicStreamer(conv.declared)
    /\ frames' = <<>>
    /\ sent' = [sent EXCEPT ![2] = <<>>]
    /\ count' = [count EXCEPT ![2] = 0]
    /\ ended' = ended \ {2}
    /\ IF Stalled /\ attempt < MaxAttempts
       THEN pc' = "verdict" /\ attempt' = attempt + 1 /\ UNCHANGED conv
       ELSE Conclude /\ UNCHANGED attempt
    /\ UNCHANGED enabled

Usable(c) == ~c.failed /\ ~c.incomplete /\ c.status = "completed" /\ c.toolUse

\* The further request fails, is refused, or its answer breaks off.
SecondFails ==
    /\ pc = "second"
    /\ Unrescued

SecondEnds ==
    /\ pc = "second"
    /\ \/ ~Usable(Finalize(candidate)) /\ Unrescued
       \/ /\ Usable(Finalize(candidate))
          /\ candidate' = Finalize(candidate)
          /\ pc' = "replay"
          /\ UNCHANGED <<enabled, conv, frames, attempt, upstream>>

\* Fault: replayed items keep their ids.
NamespacedNot(f) == f

\* The items of a replayed sample get ids that no first sample has.
Namespaced(f) ==
    IF f.type \in {"delta", "added", "done"} THEN [f EXCEPT !.item[1] = 1] ELSE f

ReplayFrame ==
    /\ pc = "replay" /\ frames # <<>>
    /\ conv' = HandleEvent(conv, Namespaced(Head(frames)))
    /\ frames' = Tail(frames)
    /\ UNCHANGED <<pc, enabled, candidate, attempt, upstream>>

Rescued ==
    /\ pc = "replay" /\ frames = <<>>
    /\ Conclude
    /\ UNCHANGED <<enabled, candidate, frames, attempt, upstream>>

Next ==
    \/ RelayFrame \/ FirstBreaks \/ FirstEnds
    \/ Resample \/ Accept
    \/ BufferFrame \/ SecondFails \/ SecondEnds
    \/ ReplayFrame \/ Rescued

Spec == Init /\ [][Next]_vars

----------------------------------------------------------------------------
(* Properties.                                                             *)

wire == conv.wire

\* The further sample was worth replaying.
Won == candidate.finalized

\* The sample that tells the items of the turn.
Source == IF Won THEN 2 ELSE 1

\* The events the client receives are a well-formed Anthropic message: text
\* and calls in the order of their frames, each call whole and under its own
\* id, nothing taken back by a further sample, one conclusion or one error
\* (HandleEvent, flushTool, finalizeWith and the replay).
MessageContract == INSTANCE AnthropicMessage
    WITH message <- wire, Eager <- TRUE
ImplementsMessage == MessageContract!Spec

\* What a client or a drop log must be told of an item, as far as it was sent.
Evident(call) ==
    CASE call.form = "reasoning" -> FALSE
      [] call.form = "hidden" -> call.at > 1
      [] OTHER -> TRUE

\* The pieces of its arguments that have come, by deltas or with a done frame.
Arrived(call) ==
    IF \E k \in 1 .. call.at :
            Program(call.form)[k] \in {"added_full", "flat_done", "args_done", "done"}
    THEN Size(call.form) ELSE Deltas(call.form, call.at)

\* A call of the sample that counts reaches the client as one block or is
\* recorded as dropped, once, with the arguments that came, once each and no
\* other call's, whichever frames its item had and however they interleaved
\* (pendingFor, flushTool, the prefix of the replay).
CallsExactlyOnce ==
    pc = "done" /\ ~conv.failed =>
        LET told == Calls(wire) \o conv.dropped
            items == sent[Source]
            calls == Picked(items, {i \in DOMAIN items : Evident(items[i])})
        IN  /\ Len(told) = Len(calls)
            /\ \A call \in ToSet(calls) : \E b \in ToSet(told) :
                  b.args = Pieces(call, 1, Arrived(call))
                      \/ (Arrived(call) = 0 /\ b.args = <<>>)

\* A message is one sample's turn: its calls are all from the sample that
\* counts, no second text follows the first, a further sample that does not
\* count shows nowhere, and only a text that announces an action has more than
\* one (anthropic_responses.go:390-393 and 627-630).
OneSample ==
    /\ \A b \in ToSet(Calls(wire)) : b.args # <<>> => b.args[1].call[1] = Source
    /\ conv.text \in {{}, {1}, {Source}}
    /\ attempt > 1 => conv.head = "colon" /\ 1 \in conv.text
============================================================================
