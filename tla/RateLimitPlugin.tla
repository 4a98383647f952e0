-------------------------- MODULE RateLimitPlugin --------------------------
(***************************************************************************)
(* The plugin's three hooks (contrib/opencode/rate-limit-retry/index.ts)   *)
(* in OpenCode processes that share one scope, each with one session at    *)
(* work.  http.request turns an attempt away while the scope's cooldown    *)
(* lasts; http.response records what a limited answer asks for; retry      *)
(* decides on another attempt and its pause.  The engine that calls the    *)
(* hooks is outside the repository: it counts the attempts and waits.      *)
(***************************************************************************)
EXTENDS CooldownStore

CONSTANTS
    Waits,        \* the Retry-After times upstream may ask for
    NativeDelays, \* pauses the engine itself may have decided upon
    Horizon, MaxFailures   \* bounds of a checked instance

ASSUME PluginAssumption ==
    /\ Waits \subseteq Nat
    /\ NativeDelays \subseteq Nat
    /\ Horizon \in Nat
    /\ MaxFailures \in Nat

VARIABLES
    attempt,  \* per process: the number of its session's attempt
    entry,    \* ... its session's entry in the map of requests: absent, open or gated
    wake,     \* ... when it tries again
    heeded    \* history: the deadline its latest decision to retry has read

session == <<attempt, entry, wake, heeded>>
vars == <<disk, now, pc, failure, updating, promised, session>>

Init ==
    /\ StoreInit
    /\ now = 0
    /\ pc = [p \in Proc |-> "idle"]
    /\ failure = [p \in Proc |-> Thrown]
    /\ attempt = [p \in Proc |-> 1]
    /\ entry = [p \in Proc |-> "absent"]
    /\ wake = [p \in Proc |-> 0]
    /\ heeded = [p \in Proc |-> 0]

\* What the engine knows of the turn is gone with it.
Forgotten(p) ==
    /\ attempt' = [attempt EXCEPT ![p] = 1]
    /\ wake' = [wake EXCEPT ![p] = 0]
    /\ heeded' = [heeded EXCEPT ![p] = 0]

\* The session's turn is over, answered or given up.
EndTurn(p, from) ==
    /\ Goto(p, from, "idle")
    /\ Forgotten(p)
    /\ failure' = [failure EXCEPT ![p] = Thrown]

----------------------------------------------------------------------------
(* http.request.                                                           *)

\* Fault: the entry of an earlier attempt stays as it is.
RequestKeepingMark(p) ==
    /\ wake[p] <= now
    /\ \E from \in {"idle", "wait"} : Goto(p, from, "gate")
    /\ entry' = [entry EXCEPT ![p] = IF @ = "gated" THEN @ ELSE "open"]
    /\ wake' = [wake EXCEPT ![p] = 0]
    /\ heeded' = [heeded EXCEPT ![p] = 0]
    /\ UNCHANGED <<disk, now, failure, updating, promised, attempt>>

\* A turn starts, or the engine has waited: the request is noted in the map,
\* and the record is read in a later step.
Request(p) ==
    /\ wake[p] <= now
    /\ \E from \in {"idle", "wait"} : Goto(p, from, "gate")
    /\ entry' = [entry EXCEPT ![p] = "open"]
    /\ wake' = [wake EXCEPT ![p] = 0]
    /\ heeded' = [heeded EXCEPT ![p] = 0]
    /\ UNCHANGED <<disk, now, failure, updating, promised, attempt>>

\* The cooldown lasts: the hook throws, and marks the entry if it is still there.
Gate(p) ==
    /\ record.until > now
    /\ Goto(p, "gate", "failed")
    /\ entry' = [entry EXCEPT ![p] = IF @ = "open" THEN "gated" ELSE @]
    /\ failure' = [failure EXCEPT ![p] = Thrown]
    /\ UNCHANGED <<disk, now, updating, promised, attempt, wake, heeded>>

\* The record cannot be read, and no request is sent.
GateFails(p) ==
    /\ Goto(p, "gate", "failed")
    /\ failure' = [failure EXCEPT ![p] = Thrown]
    /\ UNCHANGED <<disk, now, updating, promised, session>>

Send(p) ==
    /\ record.until <= now
    /\ Goto(p, "gate", "sent")
    /\ UNCHANGED <<disk, now, failure, updating, promised, session>>

\* 1024 requests of other sessions later, the entry has been dropped.
Forget(p) ==
    /\ entry[p] # "absent"
    /\ entry' = [entry EXCEPT ![p] = "absent"]
    /\ UNCHANGED <<disk, now, pc, failure, updating, promised, attempt, wake, heeded>>

----------------------------------------------------------------------------
(* http.response.                                                          *)

Answered(p) ==
    /\ EndTurn(p, "sent")
    /\ entry' = [entry EXCEPT ![p] = "absent"]
    /\ UNCHANGED <<disk, now, updating, promised>>

\* 429, 529, and a 5xx that says when to come back.
Recorded(f) ==
    \/ f.status = "limited"
    \/ f.status = "server" /\ f.supplied # NoHeader

\* The streak of failures that the updates under way can still make of the record.
FailuresToCome == record.failures + Cardinality({q \in Proc : pc[q] \in Updating})

\* Upstream limits the request, and the record is updated before the engine
\* hears of it.
Limited(p, f) ==
    /\ Recorded(f)
    /\ FailuresToCome < MaxFailures
    /\ Goto(p, "sent", "lock")
    /\ failure' = [failure EXCEPT ![p] = f]
    /\ UNCHANGED <<disk, now, updating, promised, session>>

\* Any other failure leaves the record alone.
Failed(p, f) ==
    /\ ~Recorded(f)
    /\ Goto(p, "sent", "failed")
    /\ failure' = [failure EXCEPT ![p] = f]
    /\ UNCHANGED <<disk, now, updating, promised, session>>

----------------------------------------------------------------------------
(* retry.                                                                  *)

\* The record the decision rests on: that of the request in the map.
Looked(p) == IF entry[p] = "absent" THEN NoRecord ELSE record

Gated(p) == entry[p] = "gated"

KindOf(p) == IF Gated(p) THEN record.kind ELSE failure[p].kind

\* decide agrees to a retry after the given pause.
Agrees(p, native, delay) ==
    /\ MayRetry(KindOf(p), failure[p].status, Looked(p), attempt[p] + 1, native, Gated(p))
    /\ delay <= MaxAutoWait

Retry(p, native, jitter) ==
    \E delay \in {Delay(Looked(p), attempt[p] + 1, native, jitter, now)} :
        /\ Agrees(p, native, delay)
        /\ Goto(p, "failed", "wait")
        /\ attempt' = [attempt EXCEPT ![p] = @ + 1]
        /\ wake' = [wake EXCEPT ![p] = now + delay]
        /\ heeded' = [heeded EXCEPT ![p] = Looked(p).until]
        /\ failure' = [failure EXCEPT ![p] = Thrown]
        /\ UNCHANGED <<disk, now, updating, promised, entry>>

Stop(p, native, jitter) ==
    /\ \A delay \in {Delay(Looked(p), attempt[p] + 1, native, jitter, now)} :
           ~Agrees(p, native, delay)
    /\ EndTurn(p, "failed")
    /\ entry' = [entry EXCEPT ![p] = "absent"]
    /\ UNCHANGED <<disk, now, updating, promised>>

\* The record cannot be read: no retry.
DecideFails(p) ==
    /\ EndTurn(p, "failed")
    /\ entry' = [entry EXCEPT ![p] = "absent"]
    /\ UNCHANGED <<disk, now, updating, promised>>

----------------------------------------------------------------------------
(* Time and processes.                                                     *)

Tick ==
    /\ now < Horizon
    /\ now' = now + 1
    /\ UNCHANGED <<disk, pc, failure, updating, promised, session>>

\* A process ends, between turns or in the middle of anything: its memory is
\* lost, and what it has left on the disk stays.
Exit(p) ==
    /\ pc[p] # "exited"
    /\ pc' = [pc EXCEPT ![p] = "exited"]
    /\ failure' = [failure EXCEPT ![p] = Thrown]
    /\ tries' = [tries EXCEPT ![p] = Tries]
    /\ seen' = [seen EXCEPT ![p] = Free]
    /\ draft' = [draft EXCEPT ![p] = NoRecord]
    /\ Forgotten(p)
    /\ entry' = [entry EXCEPT ![p] = "absent"]
    /\ UNCHANGED <<disk, now, promised>>

----------------------------------------------------------------------------

Answers ==
    {f \in [status : {"limited", "server", "ok", "none"},
            kind : {"quota", "rate", "transient", "permanent"},
            supplied : Waits \cup {NoHeader}] : f \in Failures}

Hook(p) ==
    \/ Request(p)
    \/ Gate(p)
    \/ GateFails(p)
    \/ Send(p)
    \/ Forget(p)
    \/ Answered(p)
    \/ \E f \in Answers : Limited(p, f) \/ Failed(p, f)
    \/ \E native \in NativeDelays \cup {NoNative}, jitter \in Jitters(attempt[p] + 1) :
           Retry(p, native, jitter) \/ Stop(p, native, jitter)
    \/ DecideFails(p)

Next ==
    \/ \E p \in Proc :
           \/ Hook(p)
           \/ /\ Update(p)
              /\ UNCHANGED session
           \/ Exit(p)
    \/ Tick

Spec == Init /\ [][Next]_vars

----------------------------------------------------------------------------
(* Properties.                                                             *)

\* Types; no session's attempts exceed the retries allowed; no pid other than
\* a process's is ever in the lock directory.
TypeOK ==
    /\ record \in Records \cup {NoRecord}
    /\ lock \in Proc \cup {Free, NoPid}
    /\ now \in 0 .. Horizon
    /\ pc \in [Proc -> Updating \cup {"idle", "gate", "sent", "failed", "wait", "exited"}]
    /\ failure \in [Proc -> Failures]
    /\ tries \in [Proc -> 0 .. Tries]
    /\ seen \in [Proc -> Proc \cup {Free}]
    /\ draft \in [Proc -> Records \cup {NoRecord}]
    /\ promised \in Nat
    /\ attempt \in [Proc -> 1 .. MaxRetries + 1]
    /\ entry \in [Proc -> {"absent", "open", "gated"}]
    /\ wake \in [Proc -> Nat]
    /\ heeded \in [Proc -> Nat]

Holders == {p \in Proc : pc[p] \in Inside}

AllLive == Live = Proc

\* As long as every process that ever ran is still running, at most one of
\* them is between its pid and the removal of the lock directory: processes
\* that fail to write, find the directory, or give up never disturb the owner.
Exclusion == AllLive => Cardinality(Holders) <= 1

\* "A concurrent healthy or shorter response must never erase a future
\* deadline" (policy.ts:83), for the record that readers find, as long as no
\* process exits: read, change and rename are steps apart, and yet the recorded
\* deadline only ever moves later.
DeadlineKept == [][AllLive => record'.until >= record.until]_record

\* No request goes upstream before the last of all the deadlines that any
\* process has recorded, whoever recorded it and however updates, retries and
\* dropped map entries interleave, as long as no process exits.
DeadlinesHonoured ==
    [][\A p \in Proc :
        pc[p] = "gate" /\ pc'[p] = "sent" /\ AllLive => promised <= now]_pc

\* "Honors numeric/date Retry-After deadlines ... Long deadlines stop automatic
\* retry instead of shortening the provider deadline" (README.md:38): a session
\* that waits does so at least to the deadline its decision has read, and no
\* longer than the automatic limit allows.
WaitsForDeadline ==
    \A p \in Proc :
        pc[p] = "wait" => wake[p] >= heeded[p] /\ wake[p] <= now + MaxAutoWait

\* "Pre-request cooldown rejection has no output" (policy.ts:95), which is why
\* decide lets a gated attempt be repeated where it would not repeat a failed
\* one: an attempt that went upstream is never taken for a gated one, though
\* the mark outlives the attempt it was made for.
GatedMeansUnsent ==
    \A p \in Proc : pc[p] = "failed" /\ Gated(p) => failure[p] = Thrown /\ record # NoRecord
============================================================================
