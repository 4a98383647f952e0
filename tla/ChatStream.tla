---------------------------- MODULE ChatStream ----------------------------
(***************************************************************************)
(* handleStreamResponse (internal/server/proxy.go): a chat-completion      *)
(* stream relayed to an Anthropic client, with the two ways a turn without *)
(* tool calls may be sampled again from the same upstream: when it ended   *)
(* without any call, and when it broke off.  The second sample is run      *)
(* through a converter of its own and replayed into the open message only  *)
(* when it ends in tool calls.                                             *)
(*                                                                         *)
(* The upstream is external: it may send any chunks the protocol allows,   *)
(* in any shape met in the code's comments and tests.                      *)
(***************************************************************************)
EXTENDS ChatConverter

CONSTANTS
    MaxChunks,      \* bound: chunks of one upstream sample
    MaxCalls,       \* bound: tool calls in one sample
    Names,          \* names a call may have: "declared", "undeclared", NoName
    Finishes,       \* finish reasons other than "" an upstream may report
    Indexing        \* how calls are indexed: "own", "legacy", "whole", "split"

Samples == {1, 2}

ASSUME ChatAssumption ==
    /\ NoId \notin Samples \X Nat
    /\ MaxChunks \in Nat \ {0} /\ MaxCalls \in Nat
    /\ Names \subseteq {"declared", "undeclared", NoName}
    /\ Finishes \subseteq {"stop", "length", "tool_calls", "content_filter"}
    /\ Indexing \subseteq {"own", "legacy", "whole", "split"}

VARIABLES
    pc,         \* "first", "second", "replay", "done"
    why,        \* why a second sample is taken: "none", "aborted", "toolless"
    enabled,    \* resampleEnabled
    conv,       \* the converter of the client's stream
    candidate,  \* the converter of the second sample
    chunks,     \* the second sample's chunks that are still to be replayed
    keepText,   \* replay their text too
    big,        \* output tokens above ToollessResampleMaxOutputTokens
    sent,       \* history: the calls of each sample, as far as sent
    count,      \* chunks received of each sample
    ended       \* samples that have sent a finish reason

stream == <<conv, candidate, chunks, keepText>>
upstream == <<sent, count, ended>>
vars == <<pc, why, enabled, stream, big, upstream>>

Init ==
    /\ pc = "first"
    /\ why = "none"
    /\ enabled \in BOOLEAN
    /\ \E names \in BOOLEAN :
          /\ conv = NewStreamConverter(names)
          /\ candidate = NewStreamConverter(names)
    /\ chunks = <<>>
    /\ keepText = FALSE
    /\ big = FALSE
    /\ sent = [s \in Samples |-> <<>>]
    /\ count = [s \in Samples |-> 0]
    /\ ended = {}

----------------------------------------------------------------------------
(* The upstream.  A call is [id, index, name, size, shaped, at, named]: its *)
(* arguments come in size pieces of which at were sent; its name may come  *)
(* after the first piece.                                                  *)

\* A call begins: with an index of its own, as the legacy function_call (no
\* id, one per message), or under the index of the first call, "whole" in one
\* fragment or "split" over several.
NewCalls(s) ==
    {[id |-> <<s, Len(sent[s]) + 1>>, style |-> style, size |-> size,
      name |-> name, shaped |-> shaped, at |-> 1, named |-> named] :
        style \in Indexing, size \in {1, 2}, name \in Names,
        shaped \in BOOLEAN, named \in BOOLEAN}

Plausible(s, call) ==
    /\ call.style = "legacy" => \A c \in ToSet(sent[s]) : c.style # "legacy"
    /\ call.style \in {"whole", "split"} => sent[s] # <<>> /\ call.named /\ call.name # NoName
    /\ call.style = "whole" => call.size = 1
    /\ call.name = NoName => call.named
    /\ call.name # NoName => ~call.shaped
    /\ ~call.named => call.size = 2

Index(call) ==
    CASE call.style = "own" -> call.id[2]
      [] call.style = "legacy" -> legacyFunctionCallIndex
      [] call.style \in {"whole", "split"} -> 1

Fragment(call, n, first, name) ==
    [index |-> Index(call),
     id |-> IF first /\ call.style # "legacy" THEN call.id ELSE NoId,
     name |-> IF name THEN call.name ELSE NoName,
     piece |-> [call |-> call.id, n |-> n, last |-> n = call.size,
                shaped |-> call.shaped]]

\* What a chunk may carry, with the record of calls it leaves.
Deltas(s) ==
    {[body |-> b, frag |-> NoId, calls |-> sent[s]] :
        b \in {"none", "text", "thinking", "usage"}}
    \cup {[body |-> "tool", frag |-> Fragment(c, 1, TRUE, c.named),
           calls |-> Append(sent[s], c)] :
            c \in {n \in NewCalls(s) : Len(sent[s]) < MaxCalls /\ Plausible(s, n)}}
    \cup {[body |-> "tool", frag |-> Fragment(sent[s][i], 2, FALSE, ~sent[s][i].named),
           calls |-> [sent[s] EXCEPT ![i].at = 2, ![i].named = TRUE]] :
            i \in {j \in DOMAIN sent[s] : sent[s][j].at < sent[s][j].size}}

\* What sample s may send next: nothing but usage follows a finish reason,
\* and usage is in a chunk of its own.  Nothing depends on the usage of the
\* second sample.
Offers(s) ==
    {o \in [delta : Deltas(s), finish : Finishes \cup {""}] :
        /\ s \in ended => o.delta.body = "usage"
        /\ o.delta.body = "usage" => s = 1 /\ o.finish = "" /\ count[s] > 0
        /\ o.delta.body = "none" => o.finish # "" \/ count[s] = 0}

\* The role comes with the first chunk.
Chunk(s, o) ==
    [from |-> s, role |-> count[s] = 0, body |-> o.delta.body,
     frag |-> o.delta.frag, finish |-> o.finish]

Send(s, o) ==
    /\ count[s] < MaxChunks
    /\ count' = [count EXCEPT ![s] = @ + 1]
    /\ sent' = [sent EXCEPT ![s] = o.delta.calls]
    /\ ended' = IF o.finish = "" THEN ended ELSE ended \cup {s}

----------------------------------------------------------------------------
(* The handler.                                                            *)

\* ShouldResampleToolless, as called by maybeResampleToollessChatStream.
\* Drops are recorded by Finalize, so there are none yet.
MayResampleToolless ==
    /\ enabled /\ conv.declared
    /\ ~HasToolUse(conv) /\ conv.dropped = <<>>
    /\ conv.finish \in {"", "stop"}
    /\ ~big
    /\ ~conv.reasoning

\* Fault: thinking that is on the wire does not stop the second sample.
MayResampleAbortedThinking ==
    enabled /\ conv.declared /\ ~HasToolUse(conv) /\ conv.dropped = <<>> /\ ~big

\* maybeResampleAbortedChatStream.
MayResampleAborted ==
    /\ enabled /\ conv.declared
    /\ ~HasToolUse(conv) /\ conv.dropped = <<>>
    /\ ~conv.reasoning
    /\ ~big

\* runChatResample asks the upstream for a second sample.
Resample(reason) ==
    /\ why' = reason
    /\ pc' = "second"

\* The last words to the client, after c.
Conclude(c) ==
    /\ conv' = Finalize(c)
    /\ pc' = "done"

\* A chunk of the first sample is translated and flushed to the client.
RelayChunk ==
    /\ pc = "first"
    /\ \E o \in Offers(1) :
          /\ Send(1, o)
          /\ conv' = HandleChunk(conv, Chunk(1, o))
          /\ big' = (big \/ o.delta.body = "usage")
    /\ UNCHANGED <<pc, why, enabled, candidate, chunks, keepText>>

\* The verdict on a turn that ended cleanly, or was rescued.
Verdict ==
    \/ /\ MayResampleToolless
       /\ Resample("toolless")
       /\ UNCHANGED conv
    \/ /\ ~MayResampleToolless
       /\ Conclude(conv)
       /\ UNCHANGED why

\* The first sample ends cleanly: [DONE], or the end of a body that had at
\* least one chunk.
FirstEnds ==
    /\ pc = "first"
    /\ Verdict
    /\ UNCHANGED <<enabled, candidate, chunks, keepText, big, upstream>>

\* The first sample breaks off, or holds an error, or is empty.
FirstBreaks ==
    /\ pc = "first"
    /\ \/ /\ MayResampleAborted
          /\ Resample("aborted")
          /\ UNCHANGED conv
       \/ /\ ~MayResampleAborted
          /\ Conclude(EmitError(conv))
          /\ UNCHANGED why
    /\ UNCHANGED <<enabled, candidate, chunks, keepText, big, upstream>>

\* A chunk of the second sample is kept, and translated for the candidate.
BufferChunk ==
    /\ pc = "second"
    /\ \E o \in Offers(2) :
          /\ Send(2, o)
          /\ candidate' = HandleChunk(candidate, Chunk(2, o))
          /\ chunks' = Append(chunks, Chunk(2, o))
    /\ UNCHANGED <<pc, why, enabled, conv, keepText, big>>

\* runChatResample returns false: the first sample is all there is.
Unrescued ==
    /\ Conclude(IF why = "aborted" THEN EmitError(conv) ELSE conv)
    /\ chunks' = <<>>
    /\ UNCHANGED <<why, enabled, keepText, big, upstream>>

\* The second request fails, is refused, or breaks off.
SecondFails ==
    /\ pc = "second"
    /\ Unrescued
    /\ UNCHANGED candidate

\* The second sample ends cleanly; only tool calls make it worth replaying.
SecondEnds ==
    /\ pc = "second"
    /\ candidate' = Finalize(candidate)
    /\ \/ candidate'.stop # "tool_use" /\ Unrescued
       \/ /\ candidate'.stop = "tool_use"
          /\ pc' = "replay"
          /\ keepText' = ~conv.text
          /\ UNCHANGED <<why, enabled, conv, chunks, big, upstream>>

\* Text that would follow the first sample's is left out of the replay.
Replayed(ch) ==
    IF ch.body = "text" /\ ~keepText THEN [ch EXCEPT !.body = "none"] ELSE ch

ReplayChunk ==
    /\ pc = "replay" /\ chunks # <<>>
    /\ conv' = HandleChunk(conv, Replayed(Head(chunks)))
    /\ chunks' = Tail(chunks)
    /\ UNCHANGED <<pc, why, enabled, candidate, keepText, big, upstream>>

\* All is replayed.  An aborted turn goes on to the toolless verdict.
Rescued ==
    /\ pc = "replay" /\ chunks = <<>>
    /\ \/ why = "aborted" /\ Verdict
       \/ why = "toolless" /\ Conclude(conv) /\ UNCHANGED why
    /\ UNCHANGED <<enabled, candidate, chunks, keepText, big, upstream>>

Next ==
    \/ RelayChunk \/ FirstEnds \/ FirstBreaks
    \/ BufferChunk \/ SecondFails \/ SecondEnds
    \/ ReplayChunk \/ Rescued

Spec == Init /\ [][Next]_vars

----------------------------------------------------------------------------
(* Properties.                                                             *)

wire == conv.wire

\* The second sample's calls were worth replaying.
Won == candidate.stop = "tool_use"

\* The sample a block came from.  The arguments name it for a tool call.
Origin(b) == IF b.kind = "tool_use" THEN b.args[1].call[1] ELSE b.from

\* The events the client receives are a well-formed Anthropic message that is
\* narrated forward, never rewritten by the second sample, and concluded once
\* with all of its calls (HandleChunk, Finalize and both resample paths).
MessageContract == INSTANCE AnthropicMessage
    WITH message <- wire, Eager <- FALSE
ImplementsMessage == MessageContract!Spec

\* The i-th call is the first under its index.
Leads(calls, i) == \A j \in 1 .. i - 1 : Index(calls[j]) # Index(calls[i])

\* The pieces that are told as the arguments of the i-th call, as pairs of a
\* call and a number: its own first one, which begins it, and, when it leads
\* its index, the later ones of all calls under that index.
Held(calls, i) ==
    {<<calls[i].id, 1>>} \cup
    {<<calls[j].id, 2>> : j \in {k \in DOMAIN calls :
        calls[k].at = 2 /\ Leads(calls, i) /\ Index(calls[k]) = Index(calls[i])}}

\* The calls of the sample that counts, and what became of them.
Source == sent[IF Won THEN 2 ELSE 1]
Delivered == Calls(wire) \o conv.dropped

\* A call the upstream made in the sample that counts reaches the client as
\* one block or is recorded as dropped, once, under the first of its pieces.
\* Every piece that came is told once, and with its own call: but a later
\* piece of a call that shares its index with an earlier one goes to the
\* first call of that index (bufferTool, emitBufferedTool, the replay).
CallsExactlyOnce ==
    pc = "done" =>
        /\ Len(Delivered) = Len(Source)
        /\ \A i \in DOMAIN Source : \E b \in ToSet(Delivered) :
              /\ b.args[1].call = Source[i].id /\ b.args[1].n = 1
              /\ {<<piece.call, piece.n>> : piece \in ToSet(b.args)} = Held(Source, i)
              /\ \A m, n \in DOMAIN b.args : b.args[m] = b.args[n] => m = n

\* "Claude Code receives a structurally complete tool call" (README.md:243-244),
\* and calls that share an index are kept apart "instead of merging two calls'
\* arguments into corrupt JSON" (stream.go:376-377): every call that is told
\* has all its arguments and no other call's, when the stream broke off and
\* when all its calls came whole.
CallsComplete ==
    pc = "done" /\ (wire.failed \/ \A call \in ToSet(Source) : call.at = call.size) =>
        \A b \in ToSet(Calls(wire)) : Complete(b.args)

\* The stop reason tells the client to run tools when it was given calls and
\* only then; a call is withheld from that only by an upstream that says it
\* was cut short (the reconciliation in Finalize).
StopReasonHonest ==
    pc = "done" =>
        (wire.stop = "tool_use") <=>
            (Calls(wire) # <<>> /\ conv.finish \notin {"length", "content_filter"})

\* A message is one sample's turn.  Its calls and its thinking are all from
\* the sample that counts, a second sample that does not count shows nowhere,
\* and no second text follows the first (proxy.go:718-721, README.md:50-51).
OneSample ==
    LET blocks == ToSet(wire.blocks)
        texts == {b \in blocks : b.kind = "text"}
    IN  /\ \A b \in blocks \ texts : Origin(b) = IF Won THEN 2 ELSE 1
        /\ \A b, c \in texts : Origin(b) = Origin(c)
        /\ ~Won => \A b \in texts : Origin(b) = 1
============================================================================
