--------------------------- MODULE UpstreamRetry ---------------------------
(***************************************************************************)
(* doUpstreamWithRetry (internal/server/helpers.go) run by several calls   *)
(* at once, with the process-wide affinity cache they share                *)
(* (internal/server/zen_failover.go).                                      *)
(*                                                                         *)
(* A call sends its request, and on a transport failure, a 5xx or Zen's    *)
(* "Endpoint is unavailable" decides whether to send it again, possibly    *)
(* under a freshly minted session affinity.  An affinity that worked is    *)
(* cached for an hour under the call's key, so that the next turn of the   *)
(* same conversation starts with it.                                       *)
(***************************************************************************)
EXTENDS Integers, FiniteSets

CONSTANTS
    Calls,              \* upstream calls, each one run of doUpstreamWithRetry
    Keys,               \* cache keys: credential, origin, model and session
    NoKey,              \* the empty key: not a Zen request, or no session
    KeyOf,              \* the key of each call
    NoSession,          \* the empty affinity: the request keeps its own header
    NoEntry,            \* "nothing cached"
    TransportTries,     \* 3 in the code
    FailoverLimit,      \* zenFailoverLimit, 3 in the code
    CacheLimit,         \* 512 in the code
    TTL,                \* one hour, in clock ticks
    MaxTime             \* bound on the clock of a checked instance

\* An affinity is 256 random bits; it is named by the call that minted it and
\* by the number of its failover.
Sessions == Calls \X (1 .. FailoverLimit)

ASSUME RetryAssumption ==
    /\ NoKey \notin Keys
    /\ KeyOf \in [Calls -> Keys \cup {NoKey}]
    /\ NoSession \notin Sessions
    /\ TransportTries \in Nat \ {0, 1}
    /\ FailoverLimit \in Nat \ {0}
    /\ CacheLimit \in Nat \ {0}
    /\ TTL \in Nat \ {0}
    /\ MaxTime \in Nat

Entries == [session : Sessions, at : 0 .. MaxTime]

ASSUME EntryAssumption == NoEntry \notin Entries

\* An attempt is "sending" until upstream has taken the request in, in "flight"
\* until the headers come, and "reading" while it reads the body of a 5xx.
PCs == {"idle", "sending", "flight", "reading", "again", "backoff", "done"}
Results == {"none", "response", "cancelled", "transport", "status"}

VARIABLES
    pc,         \* where each call is in the loop
    attempt,    \* the loop variable
    failovers,  \* alternates minted by this call
    affinity,   \* the affinity the next attempt carries
    result,     \* what the call returned
    gone,       \* calls whose downstream client has left (context cancelled)
    entries,    \* zenAffinities.entries
    now,        \* the clock
    dead,       \* history: affinities each call was told are unavailable
    proven,     \* history: <<key, session>> pairs that once got an answer < 400
    transport,  \* history: calls that met a transport failure
    starved     \* history: calls that could not mint an alternate

control == <<pc, attempt, failovers, affinity, result>>
history == <<dead, proven, transport, starved>>
vars == <<control, gone, entries, now, history>>

Init ==
    /\ pc = [c \in Calls |-> "idle"]
    /\ attempt = [c \in Calls |-> 0]
    /\ failovers = [c \in Calls |-> 0]
    /\ affinity = [c \in Calls |-> NoSession]
    /\ result = [c \in Calls |-> "none"]
    /\ gone = {}
    /\ entries = [k \in Keys |-> NoEntry]
    /\ now = 0
    /\ dead = [c \in Calls |-> {}]
    /\ proven = {}
    /\ transport = {}
    /\ starved = {}

----------------------------------------------------------------------------
(* The affinity cache.                                                     *)

Cached(es) == {k \in Keys : es[k] # NoEntry}

Fresh(k) == entries[k] # NoEntry /\ now - entries[k].at < TTL

\* cachedZenAffinity: the affinity to start with ...
Lookup(k) == IF k \in Keys /\ Fresh(k) THEN entries[k].session ELSE NoSession

\* ... and the cache it leaves: an expired entry is removed when looked up.
Pruned(k) ==
    IF k \in Keys /\ ~Fresh(k) THEN [entries EXCEPT ![k] = NoEntry] ELSE entries

Oldest(es) == {k \in Cached(es) : \A j \in Cached(es) : es[k].at <= es[j].at}

\* Fault: nothing is evicted.
EvictedNever(es) == {es}

\* A full cache loses its oldest entry, even when the key is already present.
Evicted(es) ==
    IF Cardinality(Cached(es)) >= CacheLimit
    THEN {[es EXCEPT ![v] = NoEntry] : v \in Oldest(es)}
    ELSE {es}

\* rememberZenAffinity(k, s) for a session to keep: the caches it may leave.
Remembered(k, s) ==
    {[es EXCEPT ![k] = [session |-> s, at |-> now]] : es \in Evicted(entries)}

\* rememberZenAffinity(k, "").
Forgotten(k) == [entries EXCEPT ![k] = NoEntry]

----------------------------------------------------------------------------
(* One call.                                                               *)

Return(c, r) ==
    /\ pc' = [pc EXCEPT ![c] = "done"]
    /\ result' = [result EXCEPT ![c] = r]
    /\ UNCHANGED <<attempt, failovers, affinity>>

\* The call reads the cache before its first attempt.
Begin(c) ==
    /\ pc[c] = "idle"
    /\ pc' = [pc EXCEPT ![c] = "sending"]
    /\ affinity' = [affinity EXCEPT ![c] = Lookup(KeyOf[c])]
    /\ entries' = Pruned(KeyOf[c])
    /\ UNCHANGED <<attempt, failovers, result, gone, now, history>>

\* Connected, and the request written: upstream has it.
Sent(c) ==
    /\ pc[c] = "sending"
    /\ pc' = [pc EXCEPT ![c] = "flight"]
    /\ UNCHANGED <<attempt, failovers, affinity, result, gone, entries, now, history>>

\* A 2xx or 3xx keeps the affinity that carried it.
Succeed(c) ==
    /\ pc[c] = "flight"
    /\ Return(c, "response")
    /\ IF affinity[c] # NoSession
       THEN /\ entries' \in Remembered(KeyOf[c], affinity[c])
            /\ proven' = proven \cup {<<KeyOf[c], affinity[c]>>}
       ELSE UNCHANGED <<entries, proven>>
    /\ UNCHANGED <<gone, now, dead, transport, starved>>

\* Fault: any answer below 500 keeps the affinity.
RejectKeepingAffinity(c) ==
    /\ pc[c] = "flight"
    /\ Return(c, "response")
    /\ IF affinity[c] # NoSession
       THEN entries' \in Remembered(KeyOf[c], affinity[c])
       ELSE UNCHANGED entries
    /\ UNCHANGED <<gone, now, history>>

\* A 4xx is handed to the caller and teaches the cache nothing.
Reject(c) ==
    /\ pc[c] = "flight"
    /\ Return(c, "response")
    /\ UNCHANGED <<gone, entries, now, history>>

\* Fault: one attempt too many.
MayRetryTransportLate(c) == attempt[c] <= TransportTries - 1

MayRetryTransport(c) == attempt[c] < TransportTries - 1

\* A timeout, a dropped connection or an unreachable proxy.
FailTransport(c) ==
    /\ pc[c] \in {"sending", "flight"}
    /\ IF MayRetryTransport(c)
       THEN /\ pc' = [pc EXCEPT ![c] = "again"]
            /\ UNCHANGED <<attempt, failovers, affinity, result>>
       ELSE Return(c, "transport")
    /\ transport' = transport \cup {c}
    /\ UNCHANGED <<gone, entries, now, dead, proven, starved>>

\* Any other transport error is final; so is the cancellation of the context.
FailFinally(c) ==
    /\ pc[c] \in {"sending", "flight"}
    /\ Return(c, IF c \in gone THEN "cancelled" ELSE "transport")
    /\ UNCHANGED <<gone, entries, now, history>>

\* The headers of a 5xx: its body is read, bounded in size but not in time.
Receive5xx(c) ==
    /\ pc[c] = "flight"
    /\ pc' = [pc EXCEPT ![c] = "reading"]
    /\ UNCHANGED <<attempt, failovers, affinity, result, gone, entries, now, history>>

MayRetryStatus(c) == attempt[c] = 0

AgainOrGiveUp(c) ==
    IF MayRetryStatus(c)
    THEN /\ pc' = [pc EXCEPT ![c] = "again"]
         /\ UNCHANGED <<attempt, failovers, affinity, result>>
    ELSE Return(c, "status")

\* A 5xx whose body, as far as it could be read, says nothing about the endpoint.
FailStatus(c) ==
    /\ pc[c] = "reading"
    /\ AgainOrGiveUp(c)
    /\ UNCHANGED <<gone, entries, now, history>>

\* Fault: the loop counter is restarted for the alternate, which is not counted.
FailoverRestarting(c) ==
    /\ pc' = [pc EXCEPT ![c] = "again"]
    /\ attempt' = [attempt EXCEPT ![c] = -1]
    /\ affinity' = [affinity EXCEPT ![c] = <<c, 1>>]
    /\ UNCHANGED <<failovers, result>>

\* Fault: the alternate is counted but the request keeps its affinity.
FailoverInPlace(c) ==
    /\ pc' = [pc EXCEPT ![c] = "again"]
    /\ failovers' = [failovers EXCEPT ![c] = @ + 1]
    /\ UNCHANGED <<attempt, affinity, result>>

\* Fault: one alternate too many.
MayFailoverOnceMore(c) == failovers[c] <= FailoverLimit

MayFailover(c) == failovers[c] < FailoverLimit

Failover(c) ==
    /\ pc' = [pc EXCEPT ![c] = "again"]
    /\ failovers' = [failovers EXCEPT ![c] = @ + 1]
    /\ affinity' = [affinity EXCEPT ![c] = <<c, failovers[c] + 1>>]
    /\ UNCHANGED <<attempt, result>>

\* Zen's 503 "Endpoint is unavailable" for a call with a key: whatever the
\* cache holds under the key is dropped, and an alternate affinity is tried
\* while the limit allows and the system's entropy yields one.
FailUnavailable(c, minted) ==
    /\ pc[c] = "reading"
    /\ KeyOf[c] # NoKey
    /\ entries' = Forgotten(KeyOf[c])
    /\ IF MayFailover(c) /\ minted THEN Failover(c) ELSE AgainOrGiveUp(c)
    /\ dead' = [dead EXCEPT ![c] = @ \cup {affinity[c]}]
    /\ starved' = IF minted THEN starved ELSE starved \cup {c}
    /\ UNCHANGED <<gone, now, proven, transport>>

\* The head of the loop: a client that has left is not worth a wait.
Recheck(c) ==
    /\ pc[c] = "again"
    /\ IF c \in gone
       THEN Return(c, "cancelled")
       ELSE /\ pc' = [pc EXCEPT ![c] = "backoff"]
            /\ UNCHANGED <<attempt, failovers, affinity, result>>
    /\ UNCHANGED <<gone, entries, now, history>>

\* The client leaves during the two-second wait.  When the timer fires at the
\* same moment, the attempt runs on a cancelled context, which fails at once
\* with the same error.
Leave(c) ==
    /\ pc[c] = "backoff"
    /\ c \in gone
    /\ Return(c, "cancelled")
    /\ UNCHANGED <<gone, entries, now, history>>

Elapse(c) ==
    /\ pc[c] = "backoff"
    /\ c \notin gone
    /\ pc' = [pc EXCEPT ![c] = "sending"]
    /\ attempt' = [attempt EXCEPT ![c] = @ + 1]
    /\ UNCHANGED <<failovers, affinity, result, gone, entries, now, history>>

----------------------------------------------------------------------------
(* The environment.                                                        *)

ClientGone(c) ==
    /\ pc[c] \notin {"idle", "done"}
    /\ gone' = gone \cup {c}
    /\ UNCHANGED <<control, entries, now, history>>

Tick ==
    /\ now < MaxTime
    /\ now' = now + 1
    /\ UNCHANGED <<control, gone, entries, history>>

----------------------------------------------------------------------------

\* The exchange with upstream: connection and request ...
Send(c) == Sent(c) \/ FailTransport(c) \/ FailFinally(c)

\* ... its answer, the header timeout or another error ...
Await(c) ==
    /\ pc[c] = "flight"
    /\ \/ Succeed(c)
       \/ Reject(c)
       \/ Receive5xx(c)
       \/ FailTransport(c)
       \/ FailFinally(c)

\* ... and the end of the body of a 5xx.
Read5xx(c) ==
    \/ FailStatus(c)
    \/ \E minted \in BOOLEAN : FailUnavailable(c, minted)

Next ==
    \/ \E c \in Calls :
        \/ Begin(c)
        \/ Send(c)
        \/ Await(c)
        \/ Read5xx(c)
        \/ Recheck(c)
        \/ Leave(c)
        \/ Elapse(c)
        \/ ClientGone(c)
    \/ Tick

\* The transport bounds the wait for headers to 30 seconds, the timer of a
\* backoff fires, and a cancelled context ends whatever its call is doing.
\* Nothing else is bounded: upstream may take for ever to take a request in,
\* or to end the body of a 5xx.  Nothing makes a client call, leave or stay.
Fairness ==
    \A c \in Calls :
        /\ WF_vars(Await(c) \/ Recheck(c) \/ Leave(c) \/ Elapse(c))
        /\ WF_vars(c \in gone /\ (Send(c) \/ Read5xx(c)))

Spec == Init /\ [][Next]_vars /\ Fairness

----------------------------------------------------------------------------
(* Properties.                                                             *)

TypeOK ==
    /\ pc \in [Calls -> PCs]
    /\ attempt \in [Calls -> Nat]
    /\ failovers \in [Calls -> 0 .. FailoverLimit]
    /\ affinity \in [Calls -> Sessions \cup {NoSession}]
    /\ result \in [Calls -> Results]
    /\ gone \subseteq Calls
    /\ entries \in [Keys -> Entries \cup {NoEntry}]
    /\ now \in 0 .. MaxTime
    /\ dead \in [Calls -> SUBSET (Sessions \cup {NoSession})]
    /\ proven \subseteq Keys \X Sessions
    /\ transport \subseteq Calls
    /\ starved \subseteq Calls

\* However its failures are mixed, a call is sent again at most once per
\* alternate affinity plus TransportTries - 1 times, and without a transport
\* failure plus once: the three retry rules of doUpstreamWithRetry share one
\* attempt counter and cannot feed each other.
AttemptBudget ==
    \A c \in Calls :
        /\ attempt[c] <= failovers[c] + (TransportTries - 1)
        /\ c \notin transport => attempt[c] <= failovers[c] + 1

\* A cached affinity was answered below 400 under that very key, and was
\* minted for it; and no call carries an affinity minted under another key
\* (zen_failover.go: never "sharing an affinity across credentials, models,
\* or upstream origins").
AffinityProvenance ==
    /\ \A k \in Keys : entries[k] # NoEntry =>
        /\ <<k, entries[k].session>> \in proven
        /\ KeyOf[entries[k].session[1]] = k
    /\ \A c \in Calls : affinity[c] # NoSession => KeyOf[affinity[c][1]] = KeyOf[c]

\* The process-wide cache never outgrows its limit, whatever calls run.
CacheBounded == Cardinality(Cached(entries)) <= CacheLimit

\* A call never carries an affinity to an endpoint that told this call it is
\* unavailable, unless entropy ran out and it had no alternate.
NoDeadReuse ==
    \A c \in Calls :
        pc[c] \notin {"idle", "done"} /\ affinity[c] \in dead[c] => c \in starved

\* Upstream does not read the request of this call, or never ends the body of
\* its 5xx, and the client waits.
Stalled(c) == pc[c] \in {"sending", "reading"} /\ c \notin gone

\* Every call that begins returns, unless upstream stalls one exchange of it
\* for ever while its client waits: retries, failovers and waits end, and a
\* client that leaves ends the call whatever upstream does.
CallReturns == \A c \in Calls : pc[c] = "sending" ~> (pc[c] = "done" \/ []Stalled(c))
=============================================================================
