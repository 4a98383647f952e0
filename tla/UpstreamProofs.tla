--------------------------- MODULE UpstreamProofs ---------------------------
(***************************************************************************)
(* Theorems about the way of a request to the upstream: the retry loop     *)
(* (UpstreamRetry), for any number of calls and keys and any limits, and   *)
(* around it the recoveries of a rejected effort (EffortRecovery), for any *)
(* number of requests, models, slots and restarts, whatever upstream       *)
(* accepts and names.                                                      *)
(***************************************************************************)
EXTENDS UpstreamRetry, EffortRecovery, FiniteSetTheorems, SequenceTheorems, TLAPS

----------------------------------------------------------------------------
(* The retry loop.                                                         *)

\* Only a call with a cache key ever carries an affinity of ours.
Keyed == \A c \in Calls : affinity[c] # NoSession => KeyOf[c] \in Keys

\* What the place in the loop says of the counters.  A failover always leads
\* to another attempt, so while a call runs it has no more alternates than
\* attempts, one ahead between the failover and the attempt.
Phase(c) ==
    /\ pc[c] = "idle" => attempt[c] = 0 /\ failovers[c] = 0 /\ dead[c] = {}
    /\ pc[c] \in {"sending", "flight", "reading"} => failovers[c] <= attempt[c]
    /\ pc[c] \in {"again", "backoff"} => failovers[c] <= attempt[c] + 1

Phases == \A c \in Calls : Phase(c)

\* A call that is about to send again has room for it in the budget.
RoomToRetry ==
    \A c \in Calls : pc[c] \in {"again", "backoff"} =>
        /\ attempt[c] + 1 <= failovers[c] + (TransportTries - 1)
        /\ c \notin transport => attempt[c] <= failovers[c]

\* An affinity that is in use, cached or known dead has been minted.
Minted(s) == s \in Sessions => s[2] <= failovers[s[1]]

AllMinted ==
    /\ \A k \in Keys : entries[k] # NoEntry => Minted(entries[k].session)
    /\ \A c \in Calls : Minted(affinity[c])
    /\ \A c \in Calls : \A s \in dead[c] : Minted(s)

Typed == TypeOK /\ Keyed

----------------------------------------------------------------------------

LEMMA LookupType ==
    ASSUME TypeOK, NEW k
    PROVE  /\ Lookup(k) \in Sessions \cup {NoSession}
           /\ Lookup(k) # NoSession =>
                 k \in Keys /\ entries[k] # NoEntry /\ Lookup(k) = entries[k].session
           /\ Pruned(k) \in [Keys -> Entries \cup {NoEntry}]
           /\ \A j \in Keys : Pruned(k)[j] # NoEntry => Pruned(k)[j] = entries[j]
  BY RetryAssumption, EntryAssumption
     DEF TypeOK, Lookup, Fresh, Pruned, Entries

\* What remembering does to each entry of the cache.
LEMMA RememberedType ==
    ASSUME TypeOK, NEW k \in Keys, NEW s \in Sessions,
           NEW es \in Remembered(k, s)
    PROVE  /\ es \in [Keys -> Entries \cup {NoEntry}]
           /\ es[k] = [session |-> s, at |-> now]
           /\ \A j \in Keys : j # k /\ es[j] # NoEntry => es[j] = entries[j]
  <1>1. PICK was \in Evicted(entries) : es = [was EXCEPT ![k] = [session |-> s, at |-> now]]
    BY DEF Remembered
  <1>2. /\ was \in [Keys -> Entries \cup {NoEntry}]
        /\ \A j \in Keys : was[j] # NoEntry => was[j] = entries[j]
    BY <1>1 DEF Evicted, Oldest, Cached, TypeOK
  <1>3. [session |-> s, at |-> now] \in Entries
    BY DEF TypeOK, Entries
  <1> QED
    BY <1>1, <1>2, <1>3

LEMMA ForgottenType ==
    ASSUME TypeOK, NEW k \in Keys
    PROVE  /\ Forgotten(k) \in [Keys -> Entries \cup {NoEntry}]
           /\ Forgotten(k)[k] = NoEntry
           /\ \A j \in Keys : j # k => Forgotten(k)[j] = entries[j]
  BY DEF TypeOK, Forgotten

LEMMA KeyOfType == \A c \in Calls : KeyOf[c] \in Keys \/ KeyOf[c] = NoKey
  BY RetryAssumption

----------------------------------------------------------------------------
(* Type correctness.                                                       *)

LEMMA TypedInit == Init => Typed
  BY RetryAssumption DEF Init, Typed, TypeOK, Keyed, PCs, Results

LEMMA TypedNext == Typed /\ [Next]_vars => Typed'
  <1> SUFFICES ASSUME Typed, [Next]_vars PROVE Typed'
    OBVIOUS
  <1> USE RetryAssumption, KeyOfType DEF Typed, Keyed, PCs, Results
  <1>1. ASSUME NEW c \in Calls, Begin(c) PROVE Typed'
    <2>1. entries' \in [Keys -> Entries \cup {NoEntry}]
      BY <1>1, LookupType DEF Begin
    <2>2. /\ Lookup(KeyOf[c]) \in Sessions \cup {NoSession}
          /\ Lookup(KeyOf[c]) # NoSession => KeyOf[c] \in Keys
      BY LookupType
    <2> QED
      BY <1>1, <2>1, <2>2 DEF Begin, TypeOK, history
  <1>2. ASSUME NEW c \in Calls, Succeed(c) PROVE Typed'
    <2>1. CASE affinity[c] = NoSession
      BY <1>2, <2>1 DEF Succeed, Return, TypeOK
    <2>2. CASE affinity[c] # NoSession
      <3>1. KeyOf[c] \in Keys /\ affinity[c] \in Sessions
        BY <2>2 DEF TypeOK
      <3>2. entries' \in [Keys -> Entries \cup {NoEntry}]
        BY <1>2, <2>2, <3>1, RememberedType DEF Succeed
      <3> QED
        BY <1>2, <2>2, <3>1, <3>2 DEF Succeed, Return, TypeOK
    <2> QED
      BY <2>1, <2>2
  <1>3. ASSUME NEW c \in Calls, Reject(c) PROVE Typed'
    BY <1>3 DEF Reject, Return, TypeOK, history
  <1>4. ASSUME NEW c \in Calls, FailTransport(c) PROVE Typed'
    BY <1>4 DEF FailTransport, Return, TypeOK
  <1>5. ASSUME NEW c \in Calls, FailFinally(c) PROVE Typed'
    BY <1>5 DEF FailFinally, Return, TypeOK, history
  <1>6. ASSUME NEW c \in Calls, FailStatus(c) PROVE Typed'
    BY <1>6 DEF FailStatus, AgainOrGiveUp, Return, TypeOK, history
  <1>7. ASSUME NEW c \in Calls, NEW minted \in BOOLEAN, FailUnavailable(c, minted)
        PROVE Typed'
    <2>1. KeyOf[c] \in Keys /\ entries' \in [Keys -> Entries \cup {NoEntry}]
      BY <1>7, ForgottenType DEF FailUnavailable
    <2>2. CASE MayFailover(c) /\ minted
      <3>1. failovers[c] + 1 \in 1 .. FailoverLimit
        BY <2>2 DEF MayFailover, TypeOK
      <3>2. <<c, failovers[c] + 1>> \in Sessions
        BY <3>1 DEF Sessions
      <3> QED
        BY <1>7, <2>1, <2>2, <3>1, <3>2 DEF FailUnavailable, Failover, TypeOK
    <2>3. CASE ~(MayFailover(c) /\ minted)
      BY <1>7, <2>1, <2>3 DEF FailUnavailable, AgainOrGiveUp, Return, TypeOK
    <2> QED
      BY <2>2, <2>3
  <1>8. ASSUME NEW c \in Calls, Recheck(c) PROVE Typed'
    BY <1>8 DEF Recheck, Return, TypeOK, history
  <1>9. ASSUME NEW c \in Calls, Leave(c) PROVE Typed'
    BY <1>9 DEF Leave, Return, TypeOK, history
  <1>10. ASSUME NEW c \in Calls, Elapse(c) PROVE Typed'
    BY <1>10 DEF Elapse, TypeOK, history
  <1>11. ASSUME NEW c \in Calls, ClientGone(c) PROVE Typed'
    BY <1>11 DEF ClientGone, TypeOK, control, history
  <1>12. ASSUME Tick PROVE Typed'
    BY <1>12 DEF Tick, TypeOK, control, history
  <1>13. ASSUME UNCHANGED vars PROVE Typed'
    BY <1>13 DEF vars, TypeOK, control, history
  <1>14. ASSUME NEW c \in Calls, Sent(c) \/ Receive5xx(c) PROVE Typed'
    BY <1>14 DEF Sent, Receive5xx, TypeOK, history
  <1> QED
    BY <1>1, <1>2, <1>3, <1>4, <1>5, <1>6, <1>7, <1>8, <1>9, <1>10, <1>11,
       <1>12, <1>13, <1>14 DEF Next, Send, Await, Read5xx

\* Every variable keeps its type, and so does the cache.
THEOREM TypeCorrect == Spec => []TypeOK
  <1>1. Typed => TypeOK
    BY DEF Typed
  <1> QED
    BY <1>1, TypedInit, TypedNext, PTL DEF Spec

----------------------------------------------------------------------------
(* The attempt budget.                                                     *)

Budget == Typed /\ Phases /\ RoomToRetry /\ AttemptBudget

LEMMA BudgetInit == Init => Budget
  BY TypedInit, RetryAssumption
     DEF Init, Budget, Phases, Phase, RoomToRetry, AttemptBudget

LEMMA BudgetNext == Budget /\ [Next]_vars => Budget'
  <1> SUFFICES ASSUME Budget, [Next]_vars PROVE Budget'
    OBVIOUS
  <1>0. Typed /\ Typed' /\ TypeOK
    BY TypedNext DEF Budget, Typed
  <1> DEFINE Kept == (Phases /\ RoomToRetry /\ AttemptBudget)'
  <1> USE <1>0, RetryAssumption
      DEF Budget, TypeOK, Phases, Phase, RoomToRetry, AttemptBudget
  <1>1. ASSUME NEW c \in Calls, Begin(c) PROVE Kept
    BY <1>1 DEF Begin, history
  <1>2. ASSUME NEW c \in Calls, Succeed(c) PROVE Kept
    BY <1>2 DEF Succeed, Return
  <1>3. ASSUME NEW c \in Calls, Reject(c) PROVE Kept
    BY <1>3 DEF Reject, Return, history
  <1>4. ASSUME NEW c \in Calls, FailTransport(c) PROVE Kept
    BY <1>4 DEF FailTransport, MayRetryTransport, Return
  <1>5. ASSUME NEW c \in Calls, FailFinally(c) PROVE Kept
    BY <1>5 DEF FailFinally, Return, history
  <1>6. ASSUME NEW c \in Calls, FailStatus(c) PROVE Kept
    BY <1>6 DEF FailStatus, AgainOrGiveUp, MayRetryStatus, Return, history
  <1>7. ASSUME NEW c \in Calls, NEW minted \in BOOLEAN, FailUnavailable(c, minted)
        PROVE Kept
    <2>1. CASE MayFailover(c) /\ minted
      BY <1>7, <2>1 DEF FailUnavailable, Failover
    <2>2. CASE ~(MayFailover(c) /\ minted)
      BY <1>7, <2>2 DEF FailUnavailable, AgainOrGiveUp, MayRetryStatus, Return
    <2> QED
      BY <2>1, <2>2
  <1>8. ASSUME NEW c \in Calls, Recheck(c) PROVE Kept
    BY <1>8 DEF Recheck, Return, history
  <1>9. ASSUME NEW c \in Calls, Leave(c) PROVE Kept
    BY <1>9 DEF Leave, Return, history
  <1>10. ASSUME NEW c \in Calls, Elapse(c) PROVE Kept
    BY <1>10 DEF Elapse, history
  <1>11. ASSUME NEW c \in Calls, ClientGone(c) PROVE Kept
    BY <1>11 DEF ClientGone, control, history
  <1>12. ASSUME Tick PROVE Kept
    BY <1>12 DEF Tick, control, history
  <1>13. ASSUME UNCHANGED vars PROVE Kept
    BY <1>13 DEF vars, control, history
  <1>14. ASSUME NEW c \in Calls, Sent(c) \/ Receive5xx(c) PROVE Kept
    BY <1>14 DEF Sent, Receive5xx, history
  <1>15. Kept
    BY <1>1, <1>2, <1>3, <1>4, <1>5, <1>6, <1>7, <1>8, <1>9, <1>10, <1>11,
       <1>12, <1>13, <1>14 DEF Next, Send, Await, Read5xx
  <1> QED
    BY <1>15

\* The three retry rules of doUpstreamWithRetry share one budget of attempts.
THEOREM AttemptsBounded == Spec => []AttemptBudget
  <1>1. Budget => AttemptBudget
    BY DEF Budget
  <1> QED
    BY <1>1, BudgetInit, BudgetNext, PTL DEF Spec

----------------------------------------------------------------------------
(* Where affinities come from.                                             *)

Provenance == Typed /\ AffinityProvenance

LEMMA ProvenanceInit == Init => Provenance
  BY TypedInit DEF Init, Provenance, AffinityProvenance

\* A step that leaves the cache with old entries only, keeps every affinity
\* and forgets no proof keeps the provenance.
LEMMA ProvenanceKept ==
    ASSUME Provenance,
           \A k \in Keys : entries'[k] # NoEntry => entries'[k] = entries[k],
           affinity' = affinity, proven' = proven
    PROVE  AffinityProvenance'
  BY DEF Provenance, AffinityProvenance

LEMMA ProvenanceNext == Provenance /\ [Next]_vars => Provenance'
  <1> SUFFICES ASSUME Provenance, [Next]_vars PROVE AffinityProvenance'
    BY TypedNext DEF Provenance
  <1>0. TypeOK /\ Keyed
    BY DEF Provenance, Typed
  <1> USE <1>0
  <1>1. ASSUME NEW c \in Calls, Begin(c) PROVE AffinityProvenance'
    <2>1. \A k \in Keys : entries'[k] # NoEntry => entries'[k] = entries[k]
      BY <1>1, LookupType DEF Begin
    <2>2. Lookup(KeyOf[c]) # NoSession => KeyOf[Lookup(KeyOf[c])[1]] = KeyOf[c]
      BY LookupType DEF Provenance, AffinityProvenance
    <2>3. /\ affinity' = [affinity EXCEPT ![c] = Lookup(KeyOf[c])]
          /\ proven' = proven
      BY <1>1 DEF Begin, history
    <2> QED
      BY <2>1, <2>2, <2>3 DEF Provenance, AffinityProvenance, TypeOK
  <1>2. ASSUME NEW c \in Calls, Succeed(c) PROVE AffinityProvenance'
    <2>1. CASE affinity[c] = NoSession
      BY <1>2, <2>1, ProvenanceKept DEF Succeed, Return
    <2>2. CASE affinity[c] # NoSession
      <3>1. KeyOf[c] \in Keys /\ affinity[c] \in Sessions
        BY <2>2 DEF Keyed, TypeOK
      <3>2. entries' \in Remembered(KeyOf[c], affinity[c])
        BY <1>2, <2>2 DEF Succeed
      <3>3. /\ entries'[KeyOf[c]].session = affinity[c]
            /\ \A k \in Keys : k # KeyOf[c] /\ entries'[k] # NoEntry
                                  => entries'[k] = entries[k]
        <4>1. entries'[KeyOf[c]] = [session |-> affinity[c], at |-> now]
          BY <3>1, <3>2, RememberedType
        <4>2. \A k \in Keys : k # KeyOf[c] /\ entries'[k] # NoEntry
                                  => entries'[k] = entries[k]
          BY <3>1, <3>2, RememberedType
        <4> QED
          BY <4>1, <4>2
      <3>4. /\ affinity' = affinity
            /\ proven' = proven \cup {<<KeyOf[c], affinity[c]>>}
        BY <1>2, <2>2 DEF Succeed, Return
      <3> QED
        BY <2>2, <3>1, <3>3, <3>4 DEF Provenance, AffinityProvenance
    <2> QED
      BY <2>1, <2>2
  <1>3. ASSUME NEW c \in Calls, NEW minted \in BOOLEAN, FailUnavailable(c, minted)
        PROVE AffinityProvenance'
    <2>1. \A k \in Keys : entries'[k] # NoEntry => entries'[k] = entries[k]
      BY <1>3, ForgottenType, KeyOfType DEF FailUnavailable
    <2>2. CASE MayFailover(c) /\ minted
      <3>1. /\ affinity' = [affinity EXCEPT ![c] = <<c, failovers[c] + 1>>]
            /\ proven' = proven
        BY <1>3, <2>2 DEF FailUnavailable, Failover
      <3>2. /\ affinity'[c][1] = c
            /\ \A d \in Calls : d # c => affinity'[d] = affinity[d]
        BY <3>1 DEF TypeOK
      <3> QED
        BY <2>1, <3>1, <3>2 DEF Provenance, AffinityProvenance
    <2>3. CASE ~(MayFailover(c) /\ minted)
      <3>1. affinity' = affinity /\ proven' = proven
        BY <1>3, <2>3 DEF FailUnavailable, AgainOrGiveUp, Return
      <3> QED
        BY <2>1, <3>1, ProvenanceKept
    <2> QED
      BY <2>2, <2>3
  <1>4. ASSUME NEW c \in Calls,
               \/ Sent(c) \/ Receive5xx(c)
               \/ Reject(c) \/ FailTransport(c) \/ FailFinally(c) \/ FailStatus(c)
               \/ Recheck(c) \/ Leave(c) \/ Elapse(c) \/ ClientGone(c)
        PROVE AffinityProvenance'
    <2>1. entries' = entries /\ affinity' = affinity /\ proven' = proven
      BY <1>4 DEF Sent, Receive5xx, Reject, FailTransport, FailFinally, FailStatus, AgainOrGiveUp,
                  Recheck, Leave, Elapse, ClientGone, Return, control, history
    <2> QED
      BY <2>1, ProvenanceKept
  <1>5. ASSUME Tick \/ UNCHANGED vars PROVE AffinityProvenance'
    <2>1. entries' = entries /\ affinity' = affinity /\ proven' = proven
      BY <1>5 DEF Tick, vars, control, history
    <2> QED
      BY <2>1, ProvenanceKept
  <1> QED
    BY <1>1, <1>2, <1>3, <1>4, <1>5 DEF Next, Send, Await, Read5xx

\* No affinity is ever shared between two cache keys, that is, across
\* credentials, models, origins or conversations, and what the cache holds
\* under a key did work under that key.
THEOREM AffinityNotShared == Spec => []AffinityProvenance
  <1>1. Provenance => AffinityProvenance
    BY DEF Provenance
  <1> QED
    BY <1>1, ProvenanceInit, ProvenanceNext, PTL DEF Spec

----------------------------------------------------------------------------
(* The size of the cache.                                                  *)

Bounded == Typed /\ IsFiniteSet(Cached(entries)) /\ CacheBounded

LEMMA BoundedInit == Init => Bounded
  <1> SUFFICES ASSUME Init PROVE Bounded
    OBVIOUS
  <1>1. Cached(entries) = {}
    BY DEF Init, Cached
  <1> QED
    BY <1>1, TypedInit, FS_EmptySet, RetryAssumption DEF Bounded, CacheBounded

\* A cache that only lost entries is still within its limit.
LEMMA BoundedKept ==
    ASSUME Bounded, Cached(entries') \subseteq Cached(entries)
    PROVE  IsFiniteSet(Cached(entries')) /\ CacheBounded'
  <1>1. IsFiniteSet(Cached(entries)) /\ Cardinality(Cached(entries)) <= CacheLimit
    BY DEF Bounded, CacheBounded
  <1>2. /\ IsFiniteSet(Cached(entries'))
        /\ Cardinality(Cached(entries')) <= Cardinality(Cached(entries))
    BY <1>1, FS_Subset
  <1>3. /\ Cardinality(Cached(entries)) \in Nat
        /\ Cardinality(Cached(entries')) \in Nat
    BY <1>1, <1>2, FS_CardinalityType
  <1> QED
    BY <1>1, <1>2, <1>3, RetryAssumption DEF CacheBounded

\* Evicting before adding keeps the cache within its limit.
LEMMA RememberedBounded ==
    ASSUME Bounded, NEW k \in Keys, NEW s \in Sessions,
           NEW es \in Remembered(k, s)
    PROVE  IsFiniteSet(Cached(es)) /\ Cardinality(Cached(es)) <= CacheLimit
  <1> DEFINE entry == [session |-> s, at |-> now]
  <1>0. TypeOK /\ IsFiniteSet(Cached(entries)) /\ Cardinality(Cached(entries)) <= CacheLimit
    BY DEF Bounded, Typed, CacheBounded
  <1>1. PICK was \in Evicted(entries) : es = [was EXCEPT ![k] = entry]
    BY DEF Remembered
  <1>2. entry # NoEntry
    BY <1>0, EntryAssumption DEF Entries, TypeOK
  <1>3. was \in [Keys -> Entries \cup {NoEntry}]
    BY <1>0, <1>1 DEF Evicted, Oldest, Cached, TypeOK
  <1>4. Cached(es) = Cached(was) \cup {k}
    BY <1>1, <1>2, <1>3 DEF Cached
  <1>5. Cardinality(Cached(entries)) \in Nat /\ CacheLimit \in Nat
    BY <1>0, FS_CardinalityType, RetryAssumption
  <1>6. IsFiniteSet(Cached(was)) /\ Cardinality(Cached(was)) < CacheLimit
    <2>1. CASE Cardinality(Cached(entries)) >= CacheLimit
      <3>1. PICK v \in Oldest(entries) : was = [entries EXCEPT ![v] = NoEntry]
        BY <1>1, <2>1 DEF Evicted
      <3>2. v \in Cached(entries)
        BY DEF Oldest
      <3>3. Cached(was) = Cached(entries) \ {v}
        BY <1>0, <3>1, <3>2 DEF Cached, TypeOK
      <3>4. /\ IsFiniteSet(Cached(was))
            /\ Cardinality(Cached(was)) = Cardinality(Cached(entries)) - 1
        BY <1>0, <3>2, <3>3, FS_RemoveElement
      <3> QED
        BY <1>0, <1>5, <3>4
    <2>2. CASE ~(Cardinality(Cached(entries)) >= CacheLimit)
      BY <1>0, <1>1, <1>5, <2>2 DEF Evicted
    <2> QED
      BY <2>1, <2>2
  <1>7. Cardinality(Cached(was)) \in Nat
    BY <1>6, FS_CardinalityType
  <1>8. /\ IsFiniteSet(Cached(es))
        /\ \/ Cardinality(Cached(es)) = Cardinality(Cached(was))
           \/ Cardinality(Cached(es)) = Cardinality(Cached(was)) + 1
    BY <1>4, <1>6, FS_AddElement
  <1> QED
    BY <1>5, <1>6, <1>7, <1>8

LEMMA BoundedNext == Bounded /\ [Next]_vars => Bounded'
  <1> SUFFICES ASSUME Bounded, [Next]_vars
               PROVE  IsFiniteSet(Cached(entries')) /\ CacheBounded'
    BY TypedNext DEF Bounded
  <1>0. TypeOK /\ Keyed
    BY DEF Bounded, Typed
  <1>1. ASSUME NEW c \in Calls, Begin(c)
        PROVE  IsFiniteSet(Cached(entries')) /\ CacheBounded'
    <2>1. Cached(entries') \subseteq Cached(entries)
      BY <1>0, <1>1, LookupType DEF Begin, Cached
    <2> QED
      BY <2>1, BoundedKept
  <1>2. ASSUME NEW c \in Calls, Succeed(c)
        PROVE  IsFiniteSet(Cached(entries')) /\ CacheBounded'
    <2>1. CASE affinity[c] = NoSession
      BY <1>2, <2>1, BoundedKept DEF Succeed
    <2>2. CASE affinity[c] # NoSession
      <3>1. KeyOf[c] \in Keys /\ affinity[c] \in Sessions
        BY <1>0, <2>2 DEF Keyed, TypeOK
      <3>2. entries' \in Remembered(KeyOf[c], affinity[c])
        BY <1>2, <2>2 DEF Succeed
      <3> QED
        BY <3>1, <3>2, RememberedBounded DEF CacheBounded
    <2> QED
      BY <2>1, <2>2
  <1>3. ASSUME NEW c \in Calls, NEW minted \in BOOLEAN, FailUnavailable(c, minted)
        PROVE  IsFiniteSet(Cached(entries')) /\ CacheBounded'
    <2>1. Cached(entries') \subseteq Cached(entries)
      BY <1>0, <1>3, ForgottenType, KeyOfType DEF FailUnavailable, Cached
    <2> QED
      BY <2>1, BoundedKept
  <1>4. ASSUME NEW c \in Calls,
               \/ Sent(c) \/ Receive5xx(c)
               \/ Reject(c) \/ FailTransport(c) \/ FailFinally(c) \/ FailStatus(c)
               \/ Recheck(c) \/ Leave(c) \/ Elapse(c) \/ ClientGone(c)
        PROVE  IsFiniteSet(Cached(entries')) /\ CacheBounded'
    BY <1>4, BoundedKept
       DEF Sent, Receive5xx, Reject, FailTransport, FailFinally, FailStatus, Recheck,
           Leave, Elapse, ClientGone
  <1>5. ASSUME Tick \/ UNCHANGED vars
        PROVE  IsFiniteSet(Cached(entries')) /\ CacheBounded'
    BY <1>5, BoundedKept DEF Tick, vars
  <1> QED
    BY <1>1, <1>2, <1>3, <1>4, <1>5 DEF Next, Send, Await, Read5xx

\* The affinity cache, which lives as long as the process, stays within its
\* limit.
THEOREM CacheWithinLimit == Spec => []CacheBounded
  <1>1. Bounded => CacheBounded
    BY DEF Bounded
  <1> QED
    BY <1>1, BoundedInit, BoundedNext, PTL DEF Spec

----------------------------------------------------------------------------
(* Affinities known to be dead.                                            *)

Alive == Budget /\ Provenance /\ AllMinted /\ NoDeadReuse

LEMMA AliveInit == Init => Alive
  BY BudgetInit, ProvenanceInit, RetryAssumption
     DEF Init, Alive, AllMinted, Minted, NoDeadReuse

\* A step that mints nothing and learns of no dead affinity.
LEMMA AliveKept ==
    ASSUME Alive, TypeOK', failovers' = failovers, affinity' = affinity,
           dead' = dead, starved' = starved,
           \A k \in Keys : entries'[k] # NoEntry =>
               \/ entries'[k] = entries[k]
               \/ \E c \in Calls : entries'[k].session = affinity[c],
           \A c \in Calls : pc[c] \in {"idle", "done"} => pc'[c] \in {"idle", "done"}
    PROVE  (AllMinted /\ NoDeadReuse)'
  <1>1. AllMinted'
    BY DEF Alive, AllMinted, Minted
  <1>2. NoDeadReuse'
    BY DEF Alive, NoDeadReuse
  <1> QED
    BY <1>1, <1>2

LEMMA AliveNext == Alive /\ [Next]_vars => Alive'
  <1> SUFFICES ASSUME Alive, [Next]_vars PROVE (AllMinted /\ NoDeadReuse)'
    BY BudgetNext, ProvenanceNext DEF Alive
  <1>0. TypeOK /\ Keyed /\ TypeOK' /\ Phases /\ AllMinted /\ NoDeadReuse
    BY BudgetNext DEF Alive, Budget, Typed
  <1>1. ASSUME NEW c \in Calls, Begin(c) PROVE (AllMinted /\ NoDeadReuse)'
    <2>1. \A k \in Keys : entries'[k] # NoEntry => entries'[k] = entries[k]
      BY <1>0, <1>1, LookupType DEF Begin
    <2>2. /\ affinity' = [affinity EXCEPT ![c] = Lookup(KeyOf[c])]
          /\ pc' = [pc EXCEPT ![c] = "sending"]
          /\ failovers' = failovers /\ dead' = dead /\ starved' = starved
          /\ dead[c] = {}
      BY <1>0, <1>1 DEF Begin, history, Phases, Phase
    <2>3. Minted(Lookup(KeyOf[c]))
      BY <1>0, LookupType, RetryAssumption DEF AllMinted, Minted
    <2>4. AllMinted'
      BY <1>0, <2>1, <2>2, <2>3 DEF AllMinted, Minted, TypeOK
    <2>5. NoDeadReuse'
      BY <1>0, <2>2 DEF NoDeadReuse, TypeOK
    <2> QED
      BY <2>4, <2>5
  <1>2. ASSUME NEW c \in Calls, Succeed(c) PROVE (AllMinted /\ NoDeadReuse)'
    <2>1. /\ failovers' = failovers /\ affinity' = affinity
          /\ dead' = dead /\ starved' = starved
          /\ pc' = [pc EXCEPT ![c] = "done"]
      BY <1>2 DEF Succeed, Return
    <2>2. CASE affinity[c] = NoSession
      BY <1>0, <1>2, <2>1, <2>2, AliveKept DEF Succeed, TypeOK
    <2>3. CASE affinity[c] # NoSession
      <3>1. KeyOf[c] \in Keys /\ affinity[c] \in Sessions
        BY <1>0, <2>3 DEF Keyed, TypeOK
      <3>2. entries' \in Remembered(KeyOf[c], affinity[c])
        BY <1>2, <2>3 DEF Succeed
      <3>3. entries'[KeyOf[c]] = [session |-> affinity[c], at |-> now]
        BY <1>0, <3>1, <3>2, RememberedType
      <3>4. \A k \in Keys : k # KeyOf[c] /\ entries'[k] # NoEntry
                               => entries'[k] = entries[k]
        BY <1>0, <3>1, <3>2, RememberedType
      <3>5. \A k \in Keys : entries'[k] # NoEntry =>
               \/ entries'[k] = entries[k]
               \/ \E d \in Calls : entries'[k].session = affinity[d]
        BY <3>3, <3>4
      <3> QED
        BY <1>0, <2>1, <3>5, AliveKept DEF TypeOK
    <2> QED
      BY <2>2, <2>3
  <1>3. ASSUME NEW c \in Calls, NEW minted \in BOOLEAN, FailUnavailable(c, minted)
        PROVE (AllMinted /\ NoDeadReuse)'
    <2>1. \A k \in Keys : entries'[k] # NoEntry => entries'[k] = entries[k]
      BY <1>0, <1>3, ForgottenType, KeyOfType DEF FailUnavailable
    <2>2. /\ dead' = [dead EXCEPT ![c] = @ \cup {affinity[c]}]
          /\ starved' = IF minted THEN starved ELSE starved \cup {c}
      BY <1>3 DEF FailUnavailable
    <2>3. CASE MayFailover(c) /\ minted
      <3>1. /\ affinity' = [affinity EXCEPT ![c] = <<c, failovers[c] + 1>>]
            /\ failovers' = [failovers EXCEPT ![c] = @ + 1]
            /\ pc' = [pc EXCEPT ![c] = "again"]
        BY <1>3, <2>3 DEF FailUnavailable, Failover
      <3>2. AllMinted'
        <4> DEFINE MintedNow(s) == s \in Sessions => s[2] <= failovers'[s[1]]
        <4>1. \A s : Minted(s) => MintedNow(s)
          BY <1>0, <3>1 DEF Minted, Sessions, TypeOK
        <4>2. MintedNow(<<c, failovers[c] + 1>>)
          <5>1. failovers'[c] = failovers[c] + 1 /\ failovers[c] \in Nat
            BY <1>0, <3>1 DEF TypeOK
          <5> QED
            BY <5>1
        <4> HIDE DEF MintedNow
        <4>3. \A d \in Calls : MintedNow(affinity'[d])
          BY <1>0, <3>1, <4>1, <4>2 DEF AllMinted, TypeOK
        <4>4. \A d \in Calls : \A s \in dead'[d] : MintedNow(s)
          BY <1>0, <2>2, <4>1 DEF AllMinted, TypeOK
        <4>5. \A k \in Keys : entries'[k] # NoEntry => MintedNow(entries'[k].session)
          BY <1>0, <2>1, <4>1 DEF AllMinted
        <4> QED
          BY <4>3, <4>4, <4>5 DEF AllMinted, Minted, MintedNow
      <3>3. <<c, failovers[c] + 1>> \in Sessions
        <4>1. failovers[c] + 1 \in 1 .. FailoverLimit
          BY <1>0, <2>3, RetryAssumption DEF MayFailover, TypeOK
        <4> QED
          BY <4>1 DEF Sessions
      <3>4. ~Minted(<<c, failovers[c] + 1>>)
        BY <1>0, <3>3 DEF Minted, TypeOK
      <3>5. <<c, failovers[c] + 1>> \notin dead[c] \cup {affinity[c]}
        BY <1>0, <3>4 DEF AllMinted
      <3>6. NoDeadReuse'
        BY <1>0, <2>2, <2>3, <3>1, <3>5 DEF NoDeadReuse, TypeOK
      <3> QED
        BY <3>2, <3>6
    <2>4. CASE ~(MayFailover(c) /\ minted)
      <3>1. affinity' = affinity /\ failovers' = failovers
        BY <1>3, <2>4 DEF FailUnavailable, AgainOrGiveUp, Return
      <3>2. AllMinted'
        BY <1>0, <2>1, <2>2, <3>1 DEF AllMinted, Minted, TypeOK
      <3>3. /\ \A d \in Calls : d # c => pc'[d] = pc[d]
            /\ pc'[c] \in {"again", "done"}
            /\ pc'[c] = "again" => attempt[c] = 0
            /\ pc[c] = "reading"
        BY <1>0, <1>3, <2>4
           DEF FailUnavailable, AgainOrGiveUp, MayRetryStatus, Return, TypeOK
      <3>4. pc'[c] = "again" => c \in starved'
        <4>1. attempt[c] = 0 => failovers[c] = 0
          BY <1>0, <3>3 DEF Phases, Phase, TypeOK
        <4>2. attempt[c] = 0 => MayFailover(c)
          BY <4>1, RetryAssumption DEF MayFailover
        <4> QED
          BY <2>2, <2>4, <3>3, <4>2
      <3>5. \A d \in Calls : d # c => dead'[d] = dead[d]
        BY <1>0, <2>2 DEF TypeOK
      <3>6. NoDeadReuse'
        BY <1>0, <2>2, <3>1, <3>3, <3>4, <3>5 DEF NoDeadReuse
      <3> QED
        BY <3>2, <3>6
    <2> QED
      BY <2>3, <2>4
  <1>4. ASSUME NEW c \in Calls,
               \/ Sent(c) \/ Receive5xx(c)
               \/ Reject(c) \/ FailTransport(c) \/ FailFinally(c) \/ FailStatus(c)
               \/ Recheck(c) \/ Leave(c) \/ Elapse(c) \/ ClientGone(c)
        PROVE (AllMinted /\ NoDeadReuse)'
    <2>1. /\ entries' = entries /\ affinity' = affinity /\ failovers' = failovers
          /\ dead' = dead /\ starved' = starved
      BY <1>4 DEF Sent, Receive5xx, Reject, FailTransport, FailFinally, FailStatus, AgainOrGiveUp,
                  Recheck, Leave, Elapse, ClientGone, Return, control, history
    <2>2. \A d \in Calls : pc[d] \in {"idle", "done"} => pc'[d] \in {"idle", "done"}
      BY <1>0, <1>4 DEF Sent, Receive5xx, Reject, FailTransport, FailFinally, FailStatus,
                  AgainOrGiveUp, Recheck, Leave, Elapse, ClientGone, Return, control, TypeOK
    <2> QED
      BY <1>0, <2>1, <2>2, AliveKept
  <1>5. ASSUME Tick \/ UNCHANGED vars PROVE (AllMinted /\ NoDeadReuse)'
    <2>1. /\ entries' = entries /\ affinity' = affinity /\ failovers' = failovers
          /\ dead' = dead /\ starved' = starved /\ pc' = pc
      BY <1>5 DEF Tick, vars, control, history
    <2> QED
      BY <1>0, <2>1, AliveKept
  <1> QED
    BY <1>1, <1>2, <1>3, <1>4, <1>5 DEF Next, Send, Await, Read5xx

\* A call that was told its endpoint is unavailable never sends the affinity
\* that led there again.
THEOREM DeadNeverReused == Spec => []NoDeadReuse
  <1>1. Alive => NoDeadReuse
    BY DEF Alive
  <1> QED
    BY <1>1, AliveInit, AliveNext, PTL DEF Spec

----------------------------------------------------------------------------
(* The recoveries.                                                         *)

\* A scale of a model: some of its levels, at least one.
GoodScale(m, scale) == scale \in Seq(Levels(m)) /\ scale # <<>>
GoodTable(table) == \A m \in DOMAIN table : GoodScale(m, table[m])

\* A list that upstream may be read to name: some of the names, each once.
Distinct(s) == \A i, j \in DOMAIN s : s[i] = s[j] => i = j
Heard(m, list) == list \in Seq(ToSet(Names[m])) /\ Distinct(list)

Writing == {"marshal", "open", "write"}

Serving == {r \in Requests : doing[r] \in Holding}

RecoveryTyped == RecoveryTypeOK /\ SlotsAccounted

\* The map, the file and every copy of the map hold good scales, and so does a
\* request that has a demoted scale in hand.
DemotedInHand(r) ==
    \/ doing[r] \in {"replace", "retry"}
    \/ doing[r] \in Writing /\ after[r] = "retry"

Scales ==
    /\ GoodTable(taught)
    /\ GoodTable(file.table)
    /\ \A r \in Requests : GoodTable(snapshot[r])
    /\ \A r \in Requests : DemotedInHand(r) => GoodScale(model[r], demoted[r])
    /\ \A r \in Requests : Heard(model[r], names[r])

----------------------------------------------------------------------------
(* Scales.                                                                 *)

LEMMA NamesTyped ==
    ASSUME NEW m \in Models
    PROVE  /\ Names[m] \in Seq(Effort) /\ Distinct(Names[m])
           /\ Names[m] \in Seq(ToSet(Names[m])) /\ ToSet(Names[m]) \subseteq Effort
  <1>1. Names[m] \in Seq(Effort) /\ Distinct(Names[m]) BY RecoveryAssumption DEF Distinct
  <1>2. QED BY <1>1 DEF ToSet

LEMMA LevelsTyped ==
    ASSUME NEW m \in Models
    PROVE  Levels(m) \subseteq Effort
  <1>1. ToSet(DefaultReasoningLevels) \subseteq Effort
    BY DEF ToSet, DefaultReasoningLevels, Effort
  <1>2. QED BY <1>1, NamesTyped DEF Levels

LEMMA DefaultIsGood == \A m : GoodScale(m, DefaultReasoningLevels)
  <1> SUFFICES ASSUME NEW m PROVE GoodScale(m, DefaultReasoningLevels)
    OBVIOUS
  <1> DEFINE S == ToSet(DefaultReasoningLevels) \ {NoneEffort, MaxEffort}
  <1>1. DefaultReasoningLevels \in Seq(S)
    BY DEF ToSet, DefaultReasoningLevels, NoneEffort, MaxEffort
  <1>2. S \subseteq Levels(m) BY DEF Levels
  <1>3. DefaultReasoningLevels # <<>> BY DEF DefaultReasoningLevels
  <1> HIDE DEF S
  <1>4. QED BY <1>1, <1>2, <1>3, SeqMonotonic DEF GoodScale

LEMMA GoodIsTyped ==
    ASSUME NEW m \in Models, NEW scale, GoodScale(m, scale)
    PROVE  scale \in Seq(Effort) /\ scale # <<>>
  BY LevelsTyped, SeqMonotonic DEF GoodScale

\* A scale has the effort it clamps another one to.
LEMMA ClampInScale ==
    ASSUME NEW S, NEW scale \in Seq(S), scale # <<>>, NEW want
    PROVE  ClampEffort(want, scale) \in ToSet(scale) /\ ClampEffort(want, scale) \in S
  <1>1. Len(scale) \in Nat \ {0} /\ DOMAIN scale = 1 .. Len(scale) BY EmptySeq
  <1>2. 1 \in DOMAIN scale /\ Len(scale) \in DOMAIN scale BY <1>1
  <1>3. Head(scale) \in ToSet(scale) /\ Last(scale) \in ToSet(scale)
    BY <1>2 DEF ToSet, Last
  <1>4. ToSet(scale) \subseteq S BY <1>1 DEF ToSet
  <1>5. QED BY <1>3, <1>4 DEF ClampEffort

LEMMA WithoutProperties ==
    ASSUME NEW S, NEW s \in Seq(S), Distinct(s), NEW e
    PROVE  Without(s, e) \in Seq(S \ {e}) /\ Distinct(Without(s, e))
  <1>1. CASE e \notin ToSet(s)
    <2>1. \A i \in DOMAIN s : s[i] \in S \ {e} BY <1>1 DEF ToSet
    <2>2. s \in Seq(S \ {e}) BY <2>1
    <2>3. QED BY <1>1, <2>2 DEF Without
  <1>2. CASE e \in ToSet(s)
    <2> DEFINE k == CHOOSE i \in DOMAIN s : s[i] = e
    <2> DEFINE t == RemoveAt(s, k)
    <2>1. k \in DOMAIN s /\ s[k] = e BY <1>2 DEF ToSet
    <2>2. k \in 1 .. Len(s) /\ DOMAIN s = 1 .. Len(s) /\ Len(s) \in Nat BY <2>1
    <2> HIDE DEF k
    <2>3. /\ t \in Seq(S) /\ Len(t) = Len(s) - 1 /\ DOMAIN t = 1 .. Len(s) - 1
          /\ \A i \in DOMAIN t : t[i] = IF i < k THEN s[i] ELSE s[i + 1]
      <3> DEFINE a == SubSeq(s, 1, k - 1)
      <3> DEFINE b == SubSeq(s, k + 1, Len(s))
      <3>1. /\ a \in Seq(S) /\ Len(a) = k - 1 /\ \A i \in 1 .. k - 1 : a[i] = s[i]
            /\ b \in Seq(S) /\ Len(b) = Len(s) - k
            /\ \A i \in 1 .. Len(s) - k : b[i] = s[k + i]
        <4>1. /\ 1 \in Int /\ k - 1 \in Int /\ k + 1 \in Int /\ Len(s) \in Int
              /\ \A i \in 1 .. k - 1 : s[i] \in S
              /\ \A i \in k + 1 .. Len(s) : s[i] \in S
          BY <2>2
        <4>2. /\ a \in Seq(S) /\ Len(a) = IF 1 <= k - 1 THEN (k - 1) - 1 + 1 ELSE 0
              /\ \A i \in 1 .. (k - 1) - 1 + 1 : a[i] = s[1 + i - 1]
          BY <4>1, SubSeqProperties
        <4>3. /\ b \in Seq(S)
              /\ Len(b) = IF k + 1 <= Len(s) THEN Len(s) - (k + 1) + 1 ELSE 0
              /\ \A i \in 1 .. Len(s) - (k + 1) + 1 : b[i] = s[(k + 1) + i - 1]
          BY <4>1, SubSeqProperties
        <4> HIDE DEF a, b
        <4>4. k \in Int /\ 1 <= k /\ k <= Len(s) /\ Len(s) \in Int BY <2>2
        <4>5. Len(a) = k - 1 /\ Len(b) = Len(s) - k BY <4>2, <4>3, <4>4
        <4>6. ASSUME NEW i \in 1 .. k - 1 PROVE a[i] = s[i]
          <5>1. i \in 1 .. (k - 1) - 1 + 1 /\ 1 + i - 1 = i BY <4>4
          <5>2. QED BY <4>2, <5>1
        <4>7. ASSUME NEW i \in 1 .. Len(s) - k PROVE b[i] = s[k + i]
          <5>1. i \in 1 .. Len(s) - (k + 1) + 1 /\ (k + 1) + i - 1 = k + i BY <4>4
          <5>2. QED BY <4>3, <5>1
        <4>8. QED BY <4>2, <4>3, <4>5, <4>6, <4>7
      <3>2. t = a \o b BY DEF RemoveAt
      <3> HIDE DEF a, b, t
      <3>3. /\ a \o b \in Seq(S) /\ Len(a \o b) = Len(a) + Len(b)
            /\ \A i \in 1 .. Len(a) + Len(b) :
                   (a \o b)[i] = IF i <= Len(a) THEN a[i] ELSE b[i - Len(a)]
        BY <3>1, ConcatProperties
      <3>4. t \in Seq(S) /\ Len(t) = Len(s) - 1 /\ DOMAIN t = 1 .. Len(s) - 1
        <4>1. t \in Seq(S) BY <3>2, <3>3
        <4>2. Len(t) = (k - 1) + (Len(s) - k) BY <3>1, <3>2, <3>3
        <4>3. Len(t) = Len(s) - 1 BY <2>2, <4>2
        <4>4. QED BY <4>1, <4>3, LenProperties
      <3>5. ASSUME NEW i \in 1 .. Len(s) - 1
            PROVE  t[i] = IF i < k THEN s[i] ELSE s[i + 1]
        <4>1. i \in 1 .. Len(a) + Len(b) BY <2>2, <3>1
        <4>2. t[i] = IF i <= k - 1 THEN a[i] ELSE b[i - (k - 1)]
          BY <3>1, <3>2, <3>3, <4>1
        <4>3. CASE i < k BY <2>2, <3>1, <4>2, <4>3
        <4>4. CASE ~(i < k)
          <5>1. i - (k - 1) \in 1 .. Len(s) - k BY <2>2, <4>4
          <5>2. b[i - (k - 1)] = s[k + (i - (k - 1))] BY <3>1, <5>1
          <5>3. k + (i - (k - 1)) = i + 1 BY <2>2
          <5>4. QED BY <2>2, <4>2, <4>4, <5>2, <5>3
        <4>5. QED BY <4>3, <4>4
      <3>6. QED BY <3>4, <3>5
    <2> HIDE DEF t
    <2>4. \A i \in DOMAIN t : t[i] # e
      BY <2>1, <2>2, <2>3 DEF Distinct
    <2>5. t \in Seq(S \ {e})
      <3>1. t \in [1 .. Len(t) -> S \ {e}] /\ Len(t) \in Nat BY <2>2, <2>3, <2>4
      <3>2. QED BY <3>1, IsASeq
    <2>6. Distinct(t) BY <2>2, <2>3 DEF Distinct
    <2>7. QED BY <1>2, <2>5, <2>6 DEF Without, k, t
  <1>3. QED BY <1>1, <1>2

\* What is learned is a good scale.
LEMMA TaughtIsGood ==
    ASSUME NEW m, NEW list, Heard(m, list), Sane(Taught(list))
    PROVE  GoodScale(m, Taught(list))
  <1> DEFINE S == ToSet(Names[m])
  <1>1. Without(list, NoneEffort) \in Seq(S \ {NoneEffort}) /\ Distinct(Without(list, NoneEffort))
    BY WithoutProperties DEF Heard
  <1>2. Taught(list) \in Seq((S \ {NoneEffort}) \ {MaxEffort})
    BY <1>1, WithoutProperties DEF Taught
  <1>3. (S \ {NoneEffort}) \ {MaxEffort} \subseteq Levels(m) BY DEF Levels
  <1>4. Taught(list) # <<>> BY DEF Sane
  <1> HIDE DEF S
  <1>5. QED BY <1>2, <1>3, <1>4, SeqMonotonic DEF GoodScale

\* Without its top a scale of two levels or more is a good one still.
LEMMA DemotedIsGood ==
    ASSUME NEW m, NEW scale, GoodScale(m, scale), ~(Len(scale) <= 1)
    PROVE  GoodScale(m, Front(scale))
  <1>1. scale \in Seq(Levels(m)) /\ Len(scale) \in Nat /\ Len(scale) > 1 BY DEF GoodScale
  <1>2. Front(scale) \in Seq(Levels(m)) /\ Len(Front(scale)) = Len(scale) - 1
    BY <1>1 DEF Front
  <1>3. QED BY <1>1, <1>2, EmptySeq DEF GoodScale

LEMMA LevelsAreGood ==
    ASSUME GoodTable(taught), NEW m
    PROVE  GoodScale(m, LevelsForModel(m))
  BY DefaultIsGood DEF GoodTable, LevelsForModel

LEMMA LevelsAreTyped ==
    ASSUME RecoveryTypeOK, NEW m
    PROVE  LevelsForModel(m) \in Seq(Effort) /\ LevelsForModel(m) # <<>>
  <1>1. \A n \in DOMAIN taught : taught[n] \in Seq(Effort)
    BY DEF RecoveryTypeOK, IsTable
  <1>2. DefaultReasoningLevels \in Seq(Effort) /\ DefaultReasoningLevels # <<>>
    BY DEF DefaultReasoningLevels, Effort
  <1>3. QED BY <1>1, <1>2 DEF LevelsForModel

LEMMA TaughtTyped ==
    ASSUME NEW list \in Seq(Effort), Distinct(list)
    PROVE  Taught(list) \in Seq(Effort)
  <1>1. Without(list, NoneEffort) \in Seq(Effort \ {NoneEffort}) /\ Distinct(Without(list, NoneEffort))
    BY WithoutProperties
  <1>2. Taught(list) \in Seq((Effort \ {NoneEffort}) \ {MaxEffort})
    BY <1>1, WithoutProperties DEF Taught
  <1>3. QED BY <1>2, SeqMonotonic

\* A list that was read in part.
LEMMA PartHeard ==
    ASSUME NEW m \in Models, NEW n \in 0 .. Len(Names[m])
    PROVE  /\ Heard(m, SubSeq(Names[m], 1, n))
           /\ SubSeq(Names[m], 1, n) \in Seq(Effort)
           /\ n = Len(Names[m]) => SubSeq(Names[m], 1, n) = Names[m]
  <1> DEFINE all == Names[m]
  <1> DEFINE s == SubSeq(all, 1, n)
  <1>1. all \in Seq(ToSet(all)) /\ all \in Seq(Effort) /\ Distinct(all) BY NamesTyped
  <1>2. Len(all) \in Nat /\ DOMAIN all = 1 .. Len(all) BY <1>1
  <1>3. /\ s \in Seq(ToSet(all)) /\ s \in Seq(Effort)
        /\ DOMAIN s = 1 .. n /\ Len(s) = n /\ \A i \in 1 .. n : s[i] = all[i]
    BY <1>1, <1>2
  <1>4. Distinct(s)
    <2> HIDE DEF all, s
    <2>1. \A i \in 1 .. n : i \in DOMAIN all BY <1>2, <1>3 DEF all
    <2>2. QED BY <1>1, <1>3, <2>1 DEF Distinct
  <1>5. n = Len(all) => s = all BY <1>1, SubSeqFull
  <1>6. QED BY <1>3, <1>4, <1>5 DEF Heard

LEMMA AllHeard ==
    ASSUME NEW m \in Models
    PROVE  Heard(m, Names[m])
  BY NamesTyped DEF Heard

LEMMA NoneHeard ==
    ASSUME NEW m
    PROVE  Heard(m, <<>>)
  BY DEF Heard, Distinct

LEMMA WithType ==
    ASSUME NEW table, IsTable(table), NEW m \in Models, NEW scale \in Seq(Effort)
    PROVE  IsTable(With(table, m, scale))
  BY DEF IsTable, With

LEMMA LoadedType ==
    ASSUME RecoveryTypeOK
    PROVE  IsTable(LoadedLevels)
  BY DEF RecoveryTypeOK, IsTable, LoadedLevels, NoTable

----------------------------------------------------------------------------
(* Type correctness, and the slots.                                        *)

LEMMA ServingFinite == IsFiniteSet(Serving) /\ Cardinality(Serving) \in Nat
  <1>1. Serving \in SUBSET Requests BY DEF Serving
  <1>2. QED BY <1>1, CacheAssumption, FS_Subset, FS_CardinalityType

\* A step that takes or leaves no slot.
LEMMA SlotsKept ==
    ASSUME RecoveryTyped, NEW r \in Requests, NEW to, doing' = [doing EXCEPT ![r] = to],
           doing[r] \in Holding <=> to \in Holding, slots' = slots
    PROVE  SlotsAccounted'
  <1>1. Serving' = Serving BY DEF RecoveryTyped, RecoveryTypeOK, Serving
  <1>2. QED BY <1>1 DEF RecoveryTyped, SlotsAccounted, Serving

LEMMA SlotGivenBack ==
    ASSUME RecoveryTyped, NEW r \in Requests, NEW to, doing' = [doing EXCEPT ![r] = to],
           doing[r] \in Holding, to \notin Holding, slots' = slots - 1
    PROVE  SlotsAccounted' /\ slots' \in 0 .. Slots
  <1>1. Serving' = Serving \ {r} /\ r \in Serving BY DEF RecoveryTyped, RecoveryTypeOK, Serving
  <1>2. Cardinality(Serving') = Cardinality(Serving) - 1
    BY <1>1, ServingFinite, FS_RemoveElement
  <1>3. Cardinality(Serving) # 0 BY <1>1, ServingFinite, FS_EmptySet
  <1>4. slots = Cardinality(Serving) BY DEF RecoveryTyped, SlotsAccounted, Serving
  <1>5. SlotsAccounted' BY <1>2, <1>4 DEF SlotsAccounted, Serving
  <1>6. QED BY <1>3, <1>4, <1>5, RecoveryAssumption, ServingFinite DEF RecoveryTyped, RecoveryTypeOK

LEMMA SlotTaken ==
    ASSUME RecoveryTyped, NEW r \in Requests, NEW to, doing' = [doing EXCEPT ![r] = to],
           doing[r] \notin Holding, to \in Holding, slots' = slots + 1
    PROVE  SlotsAccounted'
  <1>1. Serving' = Serving \cup {r} /\ r \notin Serving BY DEF RecoveryTyped, RecoveryTypeOK, Serving
  <1>2. Cardinality(Serving') = Cardinality(Serving) + 1
    BY <1>1, ServingFinite, FS_AddElement
  <1>3. QED BY <1>2 DEF RecoveryTyped, SlotsAccounted, Serving

\* What a recovery does with an answer: it hears a list, or hands the answer on.
LEMMA HeardStep ==
    ASSUME RecoveryTypeOK, NEW r \in Requests,
           HearRejection(r) \/ HearPart(r) \/ (\E answer \in Answers : PassOn(r, answer))
    PROVE  /\ names' \in [Requests -> Seq(Effort)]
           /\ misread \subseteq misread' /\ misread' \subseteq Models
           /\ UNCHANGED posted
           /\ \E to \in {"relay", "learn", "choose"} : doing' = [doing EXCEPT ![r] = to]
           /\ \A q \in Requests \ {r} : names'[q] = names[q]
           /\ names'[r] = names[r] \/ Heard(model[r], names'[r])
  <1> model[r] \in Models BY DEF RecoveryTypeOK
  <1> names \in [Requests -> Seq(Effort)]
    BY DEF RecoveryTypeOK
  <1>1. CASE HearRejection(r)
    <2>1. Names[model[r]] \in Seq(Effort) /\ Heard(model[r], Names[model[r]])
      BY NamesTyped, AllHeard
    <2>2. /\ names' = [names EXCEPT ![r] = Names[model[r]]]
          /\ \E to \in {"learn", "choose"} : doing' = [doing EXCEPT ![r] = to]
          /\ UNCHANGED <<posted, misread>>
      BY <1>1 DEF HearRejection, TakeUp
    <2>3. QED BY <2>1, <2>2 DEF RecoveryTypeOK
  <1>2. CASE HearPart(r)
    <2>1. PICK n \in 0 .. Len(Names[model[r]]) :
             /\ TakeUp(r, SubSeq(Names[model[r]], 1, n))
             /\ misread' = IF n = Len(Names[model[r]]) THEN misread ELSE misread \cup {model[r]}
      BY <1>2 DEF HearPart
    <2> DEFINE list == SubSeq(Names[model[r]], 1, n)
    <2>2. list \in Seq(Effort) /\ Heard(model[r], list) BY PartHeard
    <2>3. /\ names' = [names EXCEPT ![r] = list]
          /\ \E to \in {"learn", "choose"} : doing' = [doing EXCEPT ![r] = to]
      BY <2>1 DEF TakeUp
    <2>4. UNCHANGED posted BY <1>2 DEF HearPart
    <2> HIDE DEF list
    <2>5. QED BY <2>1, <2>2, <2>3, <2>4 DEF RecoveryTypeOK
  <1>3. CASE \E answer \in Answers : PassOn(r, answer)
    <2>1. PICK answer \in Answers : PassOn(r, answer) BY <1>3
    <2>2. /\ doing' = [doing EXCEPT ![r] = "relay"]
          /\ UNCHANGED <<names, posted, misread>>
      BY <2>1 DEF PassOn
    <2>3. QED BY <2>2 DEF RecoveryTypeOK
  <1>4. QED BY <1>1, <1>2, <1>3

\* A post of a body that carries an effort.
LEMMA PostType ==
    ASSUME RecoveryTypeOK, NEW r \in Requests, NEW to, NEW b \in Bodies, Post(r, to, b)
    PROVE  posted' \in [Requests -> Seq(Bodies)]
  BY DEF RecoveryTypeOK, Post

LEMMA RetryBodyType ==
    ASSUME RecoveryTypeOK, NEW r \in Requests, NEW scale \in Seq(Effort), scale # <<>>, NEW want
    PROVE  [body[r] EXCEPT !.effort = ClampEffort(want, scale)] \in Bodies
  <1>1. ClampEffort(want, scale) \in Effort BY ClampInScale
  <1>2. body[r] \in Bodies BY DEF RecoveryTypeOK
  <1>3. QED BY <1>1, <1>2 DEF Bodies

LEMMA NoTableType == IsTable(NoTable)
  BY DEF IsTable, NoTable

LEMMA ReturnType ==
    ASSUME RecoveryTypeOK, NEW r \in Requests, HandlerReturns(r, "done"), slots' \in 0 .. Slots
    PROVE  RecoveryTypeOK'
  <1>1. NoBody \in Bodies
    BY DEF NoBody, Bodies
  <1>2. <<>> \in Seq(Effort) OBVIOUS
  <1>3. <<>> \in Seq(Bodies) OBVIOUS
  <1>4. IsTable(taught)' /\ IsTable(file.table)' /\ \A q \in Requests : IsTable(snapshot[q])'
    BY DEF RecoveryTypeOK, IsTable, HandlerReturns, cache
  <1>5. QED BY <1>1, <1>2, <1>3, <1>4 DEF RecoveryTypeOK, HandlerReturns, cache

LEMMA TypeInit == RecoveryInit => RecoveryTyped
  <1> SUFFICES ASSUME RecoveryInit PROVE RecoveryTyped
    OBVIOUS
  <1>1. IsTable(NoTable) BY NoTableType
  <1>2. RecoveryTypeOK
    BY <1>1, RecoveryAssumption
       DEF RecoveryInit, CacheInit, RecoveryTypeOK, NoBody, Bodies, Stored
  <1>3. Serving = {} BY DEF RecoveryInit, Serving, Holding
  <1>4. QED BY <1>2, <1>3, FS_EmptySet DEF RecoveryInit, RecoveryTyped, SlotsAccounted, Serving

LEMMA TypeStep == RecoveryTyped /\ Scales /\ [RecoveryNext]_recoveryVars => RecoveryTyped'
  <1> SUFFICES ASSUME RecoveryTyped, Scales, [RecoveryNext]_recoveryVars PROVE RecoveryTyped'
    OBVIOUS
  <1> USE DEF RecoveryTyped
  <1>1. CASE UNCHANGED recoveryVars
    BY <1>1 DEF RecoveryTypeOK, SlotsAccounted, IsTable, recoveryVars, cache, changing, request
  <1>2. ASSUME NEW r \in Requests, Arrive(r) PROVE RecoveryTyped'
    <2>1. PICK want \in Wanted, blobs \in BOOLEAN :
             body' = [body EXCEPT ![r] =
                 [effort |-> IF want = NoEffort THEN want
                             ELSE ClampEffort(want, LevelsForModel(model[r])),
                  blobs |-> blobs]]
      BY <1>2 DEF Arrive
    <2>2. ClampEffort(want, LevelsForModel(model[r])) \in Effort
      BY LevelsAreTyped, ClampInScale
    <2>3. body' \in [Requests -> Bodies]
      BY <2>1, <2>2 DEF RecoveryTypeOK, Bodies
    <2>4. RecoveryTypeOK'
      BY <1>2, <2>3 DEF Arrive, Goto, RecoveryTypeOK, IsTable, cache, changing
    <2>5. SlotsAccounted' BY <1>2, SlotsKept DEF Arrive, Goto, Holding
    <2>6. QED BY <2>4, <2>5
  <1>3. ASSUME NEW r \in Requests, LeaveQueue(r) PROVE RecoveryTyped'
    <2>1. RecoveryTypeOK' BY <1>3, ReturnType DEF LeaveQueue, RecoveryTypeOK
    <2>2. SlotsAccounted' BY <1>3, SlotsKept DEF LeaveQueue, HandlerReturns, Holding
    <2>3. QED BY <2>1, <2>2
  <1>4. ASSUME NEW r \in Requests, Acquire(r) PROVE RecoveryTyped'
    <2>1. posted' \in [Requests -> Seq(Bodies)] BY <1>4, PostType DEF Acquire, RecoveryTypeOK
    <2>2. RecoveryTypeOK'
      BY <1>4, <2>1, RecoveryAssumption
         DEF Acquire, Post, RecoveryTypeOK, IsTable, cache, changing, Holding
    <2>3. SlotsAccounted' BY <1>4, SlotTaken DEF Acquire, Post, Holding
    <2>4. QED BY <2>2, <2>3
  <1>5. ASSUME NEW r \in Requests, FirstFails(r) PROVE RecoveryTyped'
    <2>1. SlotsAccounted' /\ slots' \in 0 .. Slots
      BY <1>5, SlotGivenBack DEF FirstFails, HandlerReturns, Holding
    <2>2. RecoveryTypeOK' BY <1>5, <2>1, ReturnType DEF FirstFails
    <2>3. QED BY <2>1, <2>2
  <1>6. ASSUME NEW r \in Requests, FirstAnswered(r) PROVE RecoveryTyped'
    <2>1. UNCHANGED <<cache, changing, model, body, slots, restarts>> /\ doing[r] = "first"
      BY <1>6 DEF FirstAnswered
    <2>2. /\ posted' \in [Requests -> Seq(Bodies)]
          /\ names' \in [Requests -> Seq(Effort)] /\ misread' \subseteq Models
          /\ \E to \in {"second", "relay", "learn", "choose"} : doing' = [doing EXCEPT ![r] = to]
      <3>1. CASE StripAndRetry(r)
        <4>1. [body[r] EXCEPT !.blobs = FALSE] \in Bodies BY DEF RecoveryTypeOK, Bodies
        <4>2. posted' \in [Requests -> Seq(Bodies)]
          BY <3>1, <4>1, PostType DEF StripAndRetry, RecoveryTypeOK
        <4>3. QED
          BY <3>1, <4>2 DEF StripAndRetry, Post, RecoveryTypeOK
      <3>2. CASE HearRejection(r) \/ HearPart(r) \/ \E answer \in Answers : PassOn(r, answer)
        BY <3>2, HeardStep DEF RecoveryTypeOK
      <3>3. QED BY <1>6, <3>1, <3>2 DEF FirstAnswered
    <2>3. RecoveryTypeOK'
      BY <2>1, <2>2 DEF RecoveryTypeOK, IsTable, cache, changing, Holding
    <2>4. SlotsAccounted' BY <2>1, <2>2, SlotsKept DEF Holding
    <2>5. QED BY <2>3, <2>4
  <1>7. ASSUME NEW r \in Requests, SecondAnswered(r) PROVE RecoveryTyped'
    <2>1. UNCHANGED <<cache, changing, model, slots, restarts>> /\ doing[r] = "second"
      BY <1>7 DEF SecondAnswered
    <2>2. /\ UNCHANGED posted
          /\ names' \in [Requests -> Seq(Effort)] /\ misread' \subseteq Models
          /\ \E to \in {"relay", "learn", "choose"} : doing' = [doing EXCEPT ![r] = to]
      BY <1>7, HeardStep DEF SecondAnswered
    <2>3. body' \in [Requests -> Bodies]
      <3>1. [body[r] EXCEPT !.blobs = FALSE] \in Bodies BY DEF RecoveryTypeOK, Bodies
      <3>2. body' = [body EXCEPT ![r] = [body[r] EXCEPT !.blobs = FALSE]]
        BY <1>7 DEF SecondAnswered
      <3>3. QED BY <3>1, <3>2 DEF RecoveryTypeOK
    <2>4. RecoveryTypeOK'
      BY <2>1, <2>2, <2>3 DEF RecoveryTypeOK, IsTable, cache, changing, Holding
    <2>5. SlotsAccounted' BY <2>1, <2>2, SlotsKept DEF Holding
    <2>6. QED BY <2>4, <2>5
  <1>8. ASSUME NEW r \in Requests, LearnLevels(r) PROVE RecoveryTyped'
    <2>1. Taught(names[r]) \in Seq(Effort)
      BY TaughtTyped DEF RecoveryTypeOK, Scales, Heard
    <2>2. IsTable(taught') /\ names' \in [Requests -> Seq(Effort)]
      <3>1. names' = [names EXCEPT ![r] = <<>>] BY <1>8 DEF LearnLevels
      <3>2. IsTable(taught') BY <1>8, <2>1, WithType DEF LearnLevels, Learn, RecoveryTypeOK
      <3>3. QED BY <3>1, <3>2 DEF RecoveryTypeOK
    <2>3. \E to \in {"choose", "marshal"} : doing' = [doing EXCEPT ![r] = to]
      BY <1>8 DEF LearnLevels, Learn
    <2>4. after' \in [Requests -> {"choose", "retry", "relay"}]
      BY <1>8 DEF LearnLevels, Learn, RecoveryTypeOK
    <2>5. RecoveryTypeOK'
      BY <1>8, <2>2, <2>3, <2>4 DEF LearnLevels, Learn, RecoveryTypeOK, IsTable, request, Holding
    <2>6. SlotsAccounted' BY <1>8, <2>3, SlotsKept DEF LearnLevels, Learn, Holding
    <2>7. QED BY <2>5, <2>6
  <1>9. ASSUME NEW r \in Requests, Choose(r) PROVE RecoveryTyped'
    <2> DEFINE clamped == ClampEffort(body[r].effort, LevelsForModel(model[r]))
    <2>1. [body[r] EXCEPT !.effort = clamped] \in Bodies
      BY LevelsAreTyped, RetryBodyType
    <2>2. posted' \in [Requests -> Seq(Bodies)]
      BY <1>9, <2>1, PostType DEF Choose, RetryWith, RecoveryTypeOK
    <2>3. \E to \in {"demote", "third"} : doing' = [doing EXCEPT ![r] = to]
      BY <1>9 DEF Choose, RetryWith, Post
    <2>4. after' \in [Requests -> {"choose", "retry", "relay"}]
      BY <1>9 DEF Choose, RecoveryTypeOK
    <2>5. RecoveryTypeOK'
      BY <1>9, <2>2, <2>3, <2>4 DEF Choose, RecoveryTypeOK, IsTable, cache, Holding
    <2>6. SlotsAccounted' BY <1>9, <2>3, SlotsKept DEF Choose, Holding
    <2>7. QED BY <2>5, <2>6
  <1>10. ASSUME NEW r \in Requests, DemoteTop(r) PROVE RecoveryTyped'
    <2>1. CASE DemoteRead(r, model[r])
      <3> DEFINE current == LevelsForModel(model[r])
      <3>0. current \in Seq(Effort) /\ Front(current) \in Seq(Effort)
        <4>1. current \in Seq(Effort) /\ current # <<>> BY LevelsAreTyped
        <4> HIDE DEF current
        <4>2. QED BY <4>1, EmptySeq DEF Front
      <3>1. demoted' \in [Requests -> Seq(Effort)]
        <4> HIDE DEF current
        <4>1. demoted \in [Requests -> Seq(Effort)] BY DEF RecoveryTypeOK
        <4>2. \/ demoted' = [demoted EXCEPT ![r] = current]
              \/ demoted' = [demoted EXCEPT ![r] = Front(current)]
          BY <2>1 DEF DemoteRead, current
        <4>3. QED BY <3>0, <4>1, <4>2
      <3>2. \E to \in {"choose", "retry", "relay", "replace"} : doing' = [doing EXCEPT ![r] = to]
        BY <2>1 DEF DemoteRead, RecoveryTypeOK
      <3>3. RecoveryTypeOK'
        BY <1>10, <2>1, <3>1, <3>2
           DEF DemoteTop, DemoteRead, RecoveryTypeOK, IsTable, cache, request, Holding
      <3>4. SlotsAccounted'
        BY <1>10, <2>1, <3>2, SlotsKept DEF DemoteTop, DemoteRead, Holding
      <3>5. QED BY <3>3, <3>4
    <2>2. CASE DemoteWrite(r, model[r])
      <3>1. IsTable(taught') BY <2>2, WithType DEF DemoteWrite, RecoveryTypeOK
      <3>2. RecoveryTypeOK'
        BY <1>10, <2>2, <3>1
           DEF DemoteTop, DemoteWrite, Goto, RecoveryTypeOK, IsTable, changing, request, Holding
      <3>3. SlotsAccounted'
        BY <1>10, <2>2, SlotsKept DEF DemoteTop, DemoteWrite, Goto, Holding
      <3>4. QED BY <3>2, <3>3
    <2>3. QED BY <1>10, <2>1, <2>2 DEF DemoteTop
  <1>11. ASSUME NEW r \in Requests, Retry(r) PROVE RecoveryTyped'
    <2> DEFINE clamped == ClampEffort(body[r].effort, demoted[r])
    <2>1. demoted[r] \in Seq(Effort) /\ (doing[r] = "retry" => demoted[r] # <<>>)
      BY DEF RecoveryTypeOK, Scales, DemotedInHand, GoodScale
    <2>2. [body[r] EXCEPT !.effort = clamped] \in Bodies
      BY <1>11, <2>1, RetryBodyType DEF Retry
    <2>3. posted' \in [Requests -> Seq(Bodies)]
      BY <1>11, <2>2, PostType DEF Retry, RetryWith, RecoveryTypeOK
    <2>4. \E to \in {"relay", "third"} : doing' = [doing EXCEPT ![r] = to]
      BY <1>11 DEF Retry, RetryWith, Post
    <2>5. demoted' \in [Requests -> Seq(Effort)]
      BY <1>11 DEF Retry, RecoveryTypeOK
    <2>6. RecoveryTypeOK'
      BY <1>11, <2>3, <2>4, <2>5 DEF Retry, RecoveryTypeOK, IsTable, cache, Holding
    <2>7. SlotsAccounted' BY <1>11, <2>4, SlotsKept DEF Retry, Holding
    <2>8. QED BY <2>6, <2>7
  <1>12. ASSUME NEW r \in Requests, ThirdAnswered(r) PROVE RecoveryTyped'
    <2>1. PICK answer \in Answers :
             doing' = [doing EXCEPT ![r] = IF answer = Rejection THEN "demote" ELSE "relay"]
      BY <1>12 DEF ThirdAnswered
    <2>3. \E to \in {"demote", "relay"} : doing' = [doing EXCEPT ![r] = to]
      BY <2>1
    <2>4. RecoveryTypeOK'
      BY <1>12, <2>3
         DEF ThirdAnswered, RecoveryTypeOK, IsTable, cache, changing, Holding
    <2>5. SlotsAccounted' BY <1>12, <2>3, SlotsKept DEF ThirdAnswered, Holding
    <2>6. QED BY <2>4, <2>5
  <1>13. ASSUME NEW r \in Requests, RetryFails(r) PROVE RecoveryTyped'
    <2>1. RecoveryTypeOK'
      BY <1>13 DEF RetryFails, Goto, RecoveryTypeOK, IsTable, cache, changing, request, Holding
    <2>2. SlotsAccounted' BY <1>13, SlotsKept DEF RetryFails, Goto, Holding
    <2>3. QED BY <2>1, <2>2
  <1>14. ASSUME NEW r \in Requests, PersistLevels(r) PROVE RecoveryTyped'
    <2>1. \E to \in {"open", "write", "choose", "retry", "relay"} :
             doing[r] \in Holding /\ doing' = [doing EXCEPT ![r] = to]
      BY <1>14
         DEF PersistLevels, Persist, Marshal, Truncate, WriteFile, PersistFails, Goto,
             RecoveryTypeOK, Holding
    <2>2. /\ DOMAIN snapshot' = Requests
          /\ \A q \in Requests : IsTable(snapshot'[q])
      BY <1>14, NoTableType
         DEF PersistLevels, Persist, Marshal, Truncate, WriteFile, PersistFails, RecoveryTypeOK,
             cache, changing
    <2>3. \/ file' = file
          \/ \E table : IsTable(table) /\ file' = Stored(table)
          \/ file' = Torn
      BY <1>14
         DEF PersistLevels, Persist, Marshal, Truncate, WriteFile, PersistFails, RecoveryTypeOK,
             cache
    <2>4. /\ file' = [torn |-> file'.torn, table |-> file'.table]
          /\ file'.torn \in BOOLEAN
          /\ IsTable(file'.table)
      <3>1. CASE file' = file BY <3>1 DEF RecoveryTypeOK
      <3>2. CASE \E table : IsTable(table) /\ file' = Stored(table)
        <4>1. PICK table : IsTable(table) /\ file' = Stored(table) BY <3>2
        <4>2. file' = [torn |-> FALSE, table |-> table] BY <4>1 DEF Stored
        <4>3. file'.table = table /\ file'.torn = FALSE BY <4>2
        <4>4. QED BY <4>1, <4>2, <4>3
      <3>3. CASE file' = Torn
        <4>1. file' = [torn |-> TRUE, table |-> NoTable] BY <3>3 DEF Torn
        <4>2. file'.table = NoTable /\ file'.torn = TRUE BY <4>1
        <4>3. QED BY <4>1, <4>2, NoTableType
      <3>4. QED BY <2>3, <3>1, <3>2, <3>3
    <2>5. /\ UNCHANGED <<taught, after, demoted>>
          /\ UNCHANGED <<request, slots, restarts, misread>>
      BY <1>14
         DEF PersistLevels, Persist, Marshal, Truncate, WriteFile, PersistFails, cache,
             changing
    <2>6. RecoveryTypeOK'
      BY <2>1, <2>2, <2>4, <2>5 DEF RecoveryTypeOK, IsTable, request, Holding
    <2>7. SlotsAccounted' BY <2>1, <2>5, SlotsKept DEF Holding
    <2>8. QED BY <2>6, <2>7
  <1>15. ASSUME NEW r \in Requests, Relay(r) PROVE RecoveryTyped'
    <2>1. SlotsAccounted' /\ slots' \in 0 .. Slots
      BY <1>15, SlotGivenBack DEF Relay, HandlerReturns, Holding
    <2>2. RecoveryTypeOK' BY <1>15, <2>1, ReturnType DEF Relay
    <2>3. QED BY <2>1, <2>2
  <1>16. CASE RecoveryRestart
    <2>1. NoBody \in Bodies
      BY DEF NoBody, Bodies
    <2>2. IsTable(taught') BY <1>16, LoadedType DEF RecoveryRestart
    <2>3. DOMAIN snapshot' = Requests /\ \A q \in Requests : IsTable(snapshot'[q])
      BY <1>16, NoTableType DEF RecoveryRestart
    <2>4. RecoveryTypeOK'
      BY <1>16, <2>1, <2>2, <2>3, RecoveryAssumption DEF RecoveryRestart, RecoveryTypeOK, IsTable, Holding
    <2>5. Serving' = {} BY <1>16 DEF RecoveryRestart, Serving, Holding
    <2>6. SlotsAccounted' BY <1>16, <2>5, FS_EmptySet DEF RecoveryRestart, SlotsAccounted, Serving
    <2>7. QED BY <2>4, <2>6
  <1>17. QED
    BY <1>1, <1>2, <1>3, <1>4, <1>5, <1>6, <1>7, <1>8, <1>9, <1>10, <1>11, <1>12, <1>13,
       <1>14, <1>15, <1>16
       DEF RecoveryNext, Handle

----------------------------------------------------------------------------
(* The scales stay good ones.                                              *)

LEMMA WithGood ==
    ASSUME NEW table, GoodTable(table), NEW m, NEW scale, GoodScale(m, scale)
    PROVE  GoodTable(With(table, m, scale))
  BY DEF GoodTable, With

LEMMA NoTableGood == GoodTable(NoTable)
  BY DEF GoodTable, NoTable

LEMMA LoadedGood ==
    ASSUME GoodTable(file.table)
    PROVE  GoodTable(LoadedLevels)
  BY NoTableGood DEF GoodTable, LoadedLevels

LEMMA ScalesInit == RecoveryInit => Scales
  BY NoTableGood, NoneHeard DEF RecoveryInit, CacheInit, Scales, DemotedInHand, Writing, Stored

\* A step that changes neither the cache nor a demoted scale in hand.
LEMMA ScalesKept ==
    ASSUME RecoveryTyped, Scales, NEW r \in Requests, UNCHANGED <<cache, snapshot, model>>,
           DemotedInHand(r)' => GoodScale(model[r], demoted'[r]),
           names'[r] \in {names[r], <<>>} \/ Heard(model[r], names'[r]),
           \A q \in Requests \ {r} :
               /\ doing'[q] = doing[q] /\ after'[q] = after[q] /\ demoted'[q] = demoted[q]
               /\ names'[q] = names[q]
    PROVE  Scales'
  BY NoneHeard DEF Scales, DemotedInHand, GoodTable, cache

LEMMA ScalesOnTheWay ==
    ASSUME RecoveryTyped, Scales, NEW r \in Requests,
           NEW to \in {"queued", "first", "second", "relay", "learn", "choose", "demote",
                       "third"},
           doing' = [doing EXCEPT ![r] = to], UNCHANGED <<cache, changing, model>>,
           names'[r] \in {names[r], <<>>} \/ Heard(model[r], names'[r]),
           \A q \in Requests \ {r} : names'[q] = names[q]
    PROVE  Scales'
  <1>1. ~DemotedInHand(r)' BY DEF RecoveryTyped, RecoveryTypeOK, DemotedInHand, Writing
  <1>2. \A q \in Requests \ {r} : doing'[q] = doing[q] BY DEF RecoveryTyped, RecoveryTypeOK
  <1>3. QED BY <1>1, <1>2, ScalesKept DEF changing

LEMMA ScalesStep == RecoveryTyped /\ Scales /\ [RecoveryNext]_recoveryVars => Scales'
  <1> SUFFICES ASSUME RecoveryTyped, Scales, [RecoveryNext]_recoveryVars PROVE Scales'
    OBVIOUS
  <1>1. CASE UNCHANGED recoveryVars
    BY <1>1 DEF Scales, GoodTable, DemotedInHand, recoveryVars, cache, changing, request
  <1>2. ASSUME NEW r \in Requests,
               Arrive(r) \/ Acquire(r) \/ RetryFails(r) \/ FirstAnswered(r)
                   \/ SecondAnswered(r) \/ ThirdAnswered(r)
        PROVE  Scales'
    <2>1. CASE Arrive(r) \/ Acquire(r) \/ RetryFails(r) \/ ThirdAnswered(r) \/
               (FirstAnswered(r) /\ StripAndRetry(r))
      <3>1. \E to \in {"queued", "first", "second", "relay", "demote"} :
               doing' = [doing EXCEPT ![r] = to]
        BY <2>1 DEF Arrive, Acquire, RetryFails, ThirdAnswered, StripAndRetry, Post, Goto
      <3>2. UNCHANGED <<cache, changing, model, names>>
        BY <2>1 DEF Arrive, Acquire, RetryFails, ThirdAnswered, FirstAnswered, StripAndRetry, request
      <3>3. QED BY <3>1, <3>2, ScalesOnTheWay
    <2>2. CASE (FirstAnswered(r) /\ ~StripAndRetry(r)) \/ SecondAnswered(r)
      <3>1. HearRejection(r) \/ HearPart(r) \/ \E answer \in Answers : PassOn(r, answer)
        BY <2>2 DEF FirstAnswered, SecondAnswered
      <3>2. UNCHANGED <<cache, changing, model>> BY <2>2 DEF FirstAnswered, SecondAnswered
      <3>3. QED BY <3>1, <3>2, HeardStep, ScalesOnTheWay DEF RecoveryTyped
    <2>3. QED BY <1>2, <2>1, <2>2
  <1>3. ASSUME NEW r \in Requests, LeaveQueue(r) \/ FirstFails(r) \/ Relay(r) PROVE Scales'
    <2>1. HandlerReturns(r, "done") BY <1>3 DEF LeaveQueue, FirstFails, Relay
    <2>2. QED
      BY <2>1, ScalesKept DEF HandlerReturns, RecoveryTyped, RecoveryTypeOK, DemotedInHand, Writing
  <1>4. ASSUME NEW r \in Requests, LearnLevels(r) PROVE Scales'
    <2>1. /\ names' = [names EXCEPT ![r] = <<>>] /\ model' = model
          /\ \A q \in Requests : Heard(model'[q], names'[q])
      BY <1>4, NoneHeard DEF LearnLevels, Scales, RecoveryTyped, RecoveryTypeOK
    <2>2. CASE ~Sane(Taught(names[r]))
      <3>1. doing' = [doing EXCEPT ![r] = "choose"] /\ UNCHANGED <<cache, changing>>
        BY <1>4, <2>2 DEF LearnLevels, Learn, cache, changing
      <3>2. names'[r] = <<>> /\ \A q \in Requests \ {r} : names'[q] = names[q]
        BY <2>1 DEF RecoveryTyped, RecoveryTypeOK
      <3>3. QED BY <2>1, <3>1, <3>2, ScalesOnTheWay
    <2>3. CASE Sane(Taught(names[r]))
      <3>1. GoodScale(model[r], Taught(names[r])) BY <2>3, TaughtIsGood DEF Scales
      <3>2. GoodTable(taught')
        BY <1>4, <2>3, <3>1, WithGood DEF LearnLevels, Learn, Scales
      <3>3. /\ doing'[r] = "marshal" /\ after'[r] = "choose"
            /\ \A q \in Requests \ {r} : doing'[q] = doing[q] /\ after'[q] = after[q]
            /\ UNCHANGED <<file, demoted, snapshot>>
        BY <1>4, <2>3 DEF LearnLevels, Learn, RecoveryTyped, RecoveryTypeOK
      <3>4. \A q \in Requests : DemotedInHand(q)' => DemotedInHand(q)
        BY <3>3 DEF DemotedInHand, Writing
      <3>5. QED BY <2>1, <3>2, <3>3, <3>4 DEF Scales
    <2>4. QED BY <2>2, <2>3
  <1>5. ASSUME NEW r \in Requests, Choose(r) PROVE Scales'
    <2>1. \E to \in {"demote", "third"} : doing' = [doing EXCEPT ![r] = to]
      BY <1>5 DEF Choose, RetryWith, Post
    <2>2. \A q \in Requests \ {r} : after'[q] = after[q]
      BY <1>5 DEF Choose, RecoveryTyped, RecoveryTypeOK
    <2>3. UNCHANGED <<cache, snapshot, demoted, model, names>> BY <1>5 DEF Choose
    <2>4. ~DemotedInHand(r)' BY <2>1 DEF RecoveryTyped, RecoveryTypeOK, DemotedInHand, Writing
    <2>5. \A q \in Requests \ {r} : doing'[q] = doing[q] BY <2>1 DEF RecoveryTyped, RecoveryTypeOK
    <2>6. QED BY <2>2, <2>3, <2>4, <2>5, ScalesKept
  <1>6. ASSUME NEW r \in Requests, DemoteTop(r) PROVE Scales'
    <2> DEFINE current == LevelsForModel(model[r])
    <2>1. CASE DemoteRead(r, model[r])
      <3>1. GoodScale(model[r], current) BY LevelsAreGood DEF Scales
      <3>2. GoodScale(model[r], demoted'[r])
        <4> HIDE DEF current
        <4>1. CASE Len(current) <= 1
          BY <2>1, <3>1, <4>1 DEF DemoteRead, RecoveryTyped, RecoveryTypeOK, current
        <4>2. CASE ~(Len(current) <= 1)
          <5>1. demoted'[r] = Front(current)
            BY <2>1, <4>2 DEF DemoteRead, RecoveryTyped, RecoveryTypeOK, current
          <5>2. QED BY <3>1, <4>2, <5>1, DemotedIsGood
        <4>3. QED BY <4>1, <4>2
      <3>3. \A q \in Requests \ {r} : doing'[q] = doing[q] /\ demoted'[q] = demoted[q]
        BY <2>1 DEF DemoteRead, RecoveryTyped, RecoveryTypeOK
      <3>4. QED BY <1>6, <2>1, <3>2, <3>3, ScalesKept DEF DemoteTop, DemoteRead, request
    <2>2. CASE DemoteWrite(r, model[r])
      <3>1. GoodScale(model[r], demoted[r]) BY <2>2 DEF DemoteWrite, Goto, Scales, DemotedInHand
      <3>2. GoodTable(taught') BY <2>2, <3>1, WithGood DEF DemoteWrite, Scales
      <3>3. UNCHANGED <<model, names>> BY <1>6 DEF DemoteTop, request
      <3>4. QED
        BY <2>2, <3>1, <3>2, <3>3
           DEF DemoteWrite, Goto, RecoveryTyped, RecoveryTypeOK, Scales, DemotedInHand, changing
    <2>3. QED BY <1>6, <2>1, <2>2 DEF DemoteTop
  <1>7. ASSUME NEW r \in Requests, Retry(r) PROVE Scales'
    <2>1. \E to \in {"relay", "third"} : doing' = [doing EXCEPT ![r] = to]
      BY <1>7 DEF Retry, RetryWith, Post
    <2>2. \A q \in Requests \ {r} : after'[q] = after[q] /\ demoted'[q] = demoted[q]
      BY <1>7 DEF Retry, RecoveryTyped, RecoveryTypeOK
    <2>3. UNCHANGED <<cache, snapshot, model, names>> BY <1>7 DEF Retry
    <2>4. ~DemotedInHand(r)' BY <2>1 DEF RecoveryTyped, RecoveryTypeOK, DemotedInHand, Writing
    <2>5. \A q \in Requests \ {r} : doing'[q] = doing[q] BY <2>1 DEF RecoveryTyped, RecoveryTypeOK
    <2>6. QED BY <2>2, <2>3, <2>4, <2>5, ScalesKept
  <1>8. ASSUME NEW r \in Requests, PersistLevels(r) PROVE Scales'
    <2>1. /\ \A q \in Requests : GoodTable(snapshot'[q])
          /\ file' = file \/ file' = Torn \/ file' = Stored(snapshot[r])
          /\ UNCHANGED <<taught, after, demoted, model, names>>
      BY <1>8, NoTableGood
         DEF PersistLevels, Persist, Marshal, Truncate, WriteFile, PersistFails, RecoveryTyped,
             RecoveryTypeOK, Scales, cache, changing, request
    <2>2. GoodTable(file'.table)
      BY <2>1, NoTableGood DEF Scales, Stored, Torn
    <2>3. /\ DemotedInHand(r)' => DemotedInHand(r)
          /\ \A q \in Requests \ {r} : doing'[q] = doing[q]
      BY <1>8
         DEF PersistLevels, Persist, Marshal, Truncate, WriteFile, PersistFails, Goto,
             RecoveryTyped, RecoveryTypeOK, DemotedInHand, Writing, cache, changing
    <2>4. QED BY <2>1, <2>2, <2>3 DEF Scales, DemotedInHand
  <1>9. CASE RecoveryRestart
    <2>1. GoodTable(taught') BY <1>9, LoadedGood DEF RecoveryRestart, Scales
    <2>2. QED
      BY <1>9, <2>1, NoTableGood, NoneHeard DEF RecoveryRestart, Scales, GoodTable, DemotedInHand, Writing
  <1>10. QED
    BY <1>1, <1>2, <1>3, <1>4, <1>5, <1>6, <1>7, <1>8, <1>9 DEF RecoveryNext, Handle

LEMMA ScalesAlways == RecoverySpec => [](RecoveryTyped /\ Scales)
  <1>1. RecoveryInit => RecoveryTyped /\ Scales BY TypeInit, ScalesInit
  <1>2. RecoveryTyped /\ Scales /\ [RecoveryNext]_recoveryVars => (RecoveryTyped /\ Scales)' BY TypeStep, ScalesStep
  <1>3. QED BY <1>1, <1>2, PTL DEF RecoverySpec

\* Type correctness; no more slots are taken than there are.
THEOREM RecoveryTypeCorrect == RecoverySpec => []RecoveryTypeOK
  BY ScalesAlways, PTL DEF RecoveryTyped

\* SlotsAccounted: every path through the handlers and the recoveries gives its
\* slot back exactly once.
THEOREM SlotsAreReturned == RecoverySpec => []SlotsAccounted
  BY ScalesAlways, PTL DEF RecoveryTyped

\* ScaleNeverEmpty: no order of learning, demoting, persisting and restarting
\* leaves a model without a level.
THEOREM ScalesNeverEmptied == RecoverySpec => []ScaleNeverEmpty
  <1>1. Scales => ScaleNeverEmpty
    BY DEF Scales, ScaleNeverEmpty, GoodTable, GoodScale
  <1>2. QED BY <1>1, ScalesAlways, PTL

----------------------------------------------------------------------------
(* The efforts that are sent.                                              *)

LevelOrNone(m, b) == b.effort \in Levels(m) \cup {NoEffort}

Sendable ==
    \A r \in Requests :
        /\ LevelOrNone(model[r], body[r])
        /\ \A i \in DOMAIN posted[r] : LevelOrNone(model[r], posted[r][i])

LEMMA SendableInit == RecoveryInit => Sendable
  BY DEF RecoveryInit, Sendable, LevelOrNone, NoBody

LEMMA ClampSendable ==
    ASSUME NEW m, NEW b \in Bodies, NEW scale, GoodScale(m, scale), NEW want
    PROVE  LevelOrNone(m, [b EXCEPT !.effort = ClampEffort(want, scale)])
  <1>1. ClampEffort(want, scale) \in Levels(m)
    BY ClampInScale DEF GoodScale
  <1>2. QED BY <1>1 DEF LevelOrNone, Bodies

LEMMA SendablePost ==
    ASSUME RecoveryTyped, Sendable, NEW r \in Requests, NEW to, NEW b \in Bodies,
           LevelOrNone(model[r], b), Post(r, to, b), UNCHANGED <<body, model>>
    PROVE  Sendable'
  <1>1. /\ posted'[r] = Append(posted[r], b)
        /\ \A q \in Requests \ {r} : posted'[q] = posted[q]
    BY DEF Post, RecoveryTyped, RecoveryTypeOK
  <1>2. posted[r] \in Seq(Bodies) BY DEF RecoveryTyped, RecoveryTypeOK
  <1>3. \A i \in DOMAIN posted'[r] : LevelOrNone(model[r], posted'[r][i])
    BY <1>1, <1>2 DEF Sendable
  <1>4. QED BY <1>1, <1>3 DEF Sendable, LevelOrNone

LEMMA SendableStep == RecoveryTyped /\ Scales /\ Sendable /\ [RecoveryNext]_recoveryVars => Sendable'
  <1> SUFFICES ASSUME RecoveryTyped, Scales, Sendable, [RecoveryNext]_recoveryVars PROVE Sendable'
    OBVIOUS
  <1>1. CASE UNCHANGED <<body, posted, model>>
    BY <1>1 DEF Sendable, LevelOrNone
  <1>2. ASSUME NEW r \in Requests, Arrive(r) PROVE Sendable'
    <2>1. PICK want \in Wanted, blobs \in BOOLEAN :
             body' = [body EXCEPT ![r] =
                 [effort |-> IF want = NoEffort THEN want
                             ELSE ClampEffort(want, LevelsForModel(model[r])),
                  blobs |-> blobs]]
      BY <1>2 DEF Arrive
    <2>2. ClampEffort(want, LevelsForModel(model[r])) \in Levels(model[r])
      BY LevelsAreGood, ClampInScale DEF Scales, GoodScale
    <2>3. LevelOrNone(model[r], body'[r]) /\ \A q \in Requests \ {r} : body'[q] = body[q]
      BY <2>1, <2>2 DEF LevelOrNone, RecoveryTyped, RecoveryTypeOK
    <2>4. QED BY <1>2, <2>3 DEF Arrive, Sendable, LevelOrNone
  <1>3. ASSUME NEW r \in Requests, Acquire(r) PROVE Sendable'
    <2>1. body[r] \in Bodies /\ LevelOrNone(model[r], body[r]) BY DEF RecoveryTyped, RecoveryTypeOK, Sendable
    <2>2. QED BY <1>3, <2>1, SendablePost DEF Acquire
  <1>4. ASSUME NEW r \in Requests, FirstAnswered(r) PROVE Sendable'
    <2> DEFINE stripped == [body[r] EXCEPT !.blobs = FALSE]
    <2>1. stripped \in Bodies /\ LevelOrNone(model[r], stripped)
      BY DEF RecoveryTyped, RecoveryTypeOK, Bodies, Sendable, LevelOrNone
    <2>2. UNCHANGED posted \/ Post(r, "second", stripped)
      BY <1>4 DEF FirstAnswered, StripAndRetry, HearRejection, HearPart, PassOn
    <2>3. UNCHANGED <<body, model>> BY <1>4 DEF FirstAnswered
    <2>4. QED BY <1>1, <2>1, <2>2, <2>3, SendablePost
  <1>5. ASSUME NEW r \in Requests, SecondAnswered(r) PROVE Sendable'
    <2>1. /\ body' = [body EXCEPT ![r] = [body[r] EXCEPT !.blobs = FALSE]]
          /\ UNCHANGED <<posted, model>>
      BY <1>5 DEF SecondAnswered, HearRejection, PassOn
    <2>2. \A q \in Requests : body'[q].effort = body[q].effort
      BY <2>1 DEF RecoveryTyped, RecoveryTypeOK, Bodies
    <2>3. QED BY <2>1, <2>2 DEF Sendable, LevelOrNone
  <1>6. ASSUME NEW r \in Requests, Choose(r) PROVE Sendable'
    <2> DEFINE clamped == ClampEffort(body[r].effort, LevelsForModel(model[r]))
    <2> DEFINE b == [body[r] EXCEPT !.effort = clamped]
    <2>1. b \in Bodies BY LevelsAreTyped, RetryBodyType DEF RecoveryTyped
    <2>2. LevelOrNone(model[r], b)
      BY LevelsAreGood, ClampSendable DEF Scales, RecoveryTyped, RecoveryTypeOK
    <2>3. UNCHANGED <<body, model>> /\ (UNCHANGED posted \/ Post(r, "third", b))
      BY <1>6 DEF Choose, RetryWith
    <2>4. QED BY <1>1, <2>1, <2>2, <2>3, SendablePost
  <1>7. ASSUME NEW r \in Requests, Retry(r) PROVE Sendable'
    <2> DEFINE b == [body[r] EXCEPT !.effort = ClampEffort(body[r].effort, demoted[r])]
    <2>1. GoodScale(model[r], demoted[r]) /\ model[r] \in Models
      BY <1>7 DEF Retry, Scales, DemotedInHand, RecoveryTyped, RecoveryTypeOK
    <2>2. b \in Bodies BY <2>1, GoodIsTyped, RetryBodyType DEF RecoveryTyped
    <2>3. LevelOrNone(model[r], b) BY <2>1, ClampSendable DEF RecoveryTyped, RecoveryTypeOK
    <2>4. UNCHANGED <<body, model>> /\ (UNCHANGED posted \/ Post(r, "third", b))
      BY <1>7 DEF Retry, RetryWith
    <2>5. QED BY <1>1, <2>2, <2>3, <2>4, SendablePost
  <1>8. ASSUME NEW r \in Requests, LeaveQueue(r) \/ FirstFails(r) \/ Relay(r) PROVE Sendable'
    <2>1. /\ body' = [body EXCEPT ![r] = NoBody]
          /\ posted' = [posted EXCEPT ![r] = <<>>] /\ model' = model
      BY <1>8 DEF LeaveQueue, FirstFails, Relay, HandlerReturns
    <2>2. LevelOrNone(model[r], NoBody) BY DEF LevelOrNone, NoBody
    <2>3. QED BY <2>1, <2>2 DEF RecoveryTyped, RecoveryTypeOK, Sendable, LevelOrNone
  <1>9. ASSUME NEW r \in Requests,
               LearnLevels(r) \/ DemoteTop(r) \/ ThirdAnswered(r) \/ RetryFails(r)
                   \/ PersistLevels(r)
        PROVE  Sendable'
    BY <1>1, <1>9
       DEF LearnLevels, DemoteTop, ThirdAnswered, RetryFails, PersistLevels, request
  <1>10. CASE RecoveryRestart
    BY <1>10 DEF RecoveryRestart, Sendable, LevelOrNone, NoBody
  <1>11. CASE UNCHANGED recoveryVars
    BY <1>1, <1>11 DEF recoveryVars, request
  <1>12. QED
    BY <1>2, <1>3, <1>4, <1>5, <1>6, <1>7, <1>8, <1>9, <1>10, <1>11 DEF RecoveryNext, Handle

\* OnlyNamedSent: whatever a client asks for and upstream names, read whole or in
\* part, a request goes upstream with a level that was built in or named for its
\* very model, never none or max, or with no effort at all.
THEOREM OnlyLevelsAreSent == RecoverySpec => []OnlyNamedSent
  <1>1. Sendable => OnlyNamedSent
    BY DEF Sendable, LevelOrNone, OnlyNamedSent
  <1>2. RecoveryInit => RecoveryTyped /\ Scales /\ Sendable BY TypeInit, ScalesInit, SendableInit
  <1>3. RecoveryTyped /\ Scales /\ Sendable /\ [RecoveryNext]_recoveryVars => (RecoveryTyped /\ Scales /\ Sendable)'
    BY TypeStep, ScalesStep, SendableStep
  <1>4. QED BY <1>1, <1>2, <1>3, PTL DEF RecoverySpec

----------------------------------------------------------------------------
(* The bodies that are posted.                                             *)

Composed(s) ==
    /\ Len(s) <= 3
    /\ \A i, j \in DOMAIN s : i < j => s[i] # s[j] /\ (s[j].blobs => s[i].blobs)

\* The body in hand has been posted last: by the first post, or by the second
\* after a post of the same body with its blobs.
PostedLast(r) ==
    \/ posted[r] = <<body[r]>>
    \/ ~body[r].blobs /\ posted[r] = <<[body[r] EXCEPT !.blobs = TRUE], body[r]>>

\* The recovery from a rejected effort has not posted its retry yet.
Deciding(r) ==
    \/ doing[r] \in {"learn", "choose", "retry"}
    \/ doing[r] \in {"demote", "replace"} /\ after[r] # "relay"
    \/ doing[r] \in Writing /\ after[r] # "relay"

Trail(r) ==
    /\ doing[r] \in {"idle", "queued", "done", "lost"} => posted[r] = <<>>
    /\ doing[r] = "first" => posted[r] = <<body[r]>>
    /\ doing[r] = "second" =>
          body[r].blobs /\ posted[r] = <<body[r], [body[r] EXCEPT !.blobs = FALSE]>>
    /\ Deciding(r) => PostedLast(r)
    /\ doing[r] = "third" => after[r] = "relay"
    /\ Composed(posted[r])

Trails == \A r \in Requests : Trail(r)

LEMMA ComposedEmpty == Composed(<<>>)
  BY DEF Composed

LEMMA ComposedOne ==
    ASSUME NEW b
    PROVE  Composed(<<b>>)
  BY DEF Composed

LEMMA ComposedTwo ==
    ASSUME NEW b \in Bodies, b.blobs
    PROVE  Composed(<<b, [b EXCEPT !.blobs = FALSE]>>)
  BY DEF Composed, Bodies

\* A retry with another effort, after the first or the second post.
LEMMA AppendToOne == ASSUME NEW a, NEW b PROVE Append(<<a>>, b) = <<a, b>>
  <1> DEFINE S == {a, b}
  <1> DEFINE s == <<a>>
  <1> DEFINE t == <<a, b>>
  <1>1. s \in Seq(S) /\ t \in Seq(S) /\ b \in S OBVIOUS
  <1>2. Len(s) = 1 /\ s[1] = a /\ Len(t) = 2 /\ t[1] = a /\ t[2] = b OBVIOUS
  <1> HIDE DEF S, s, t
  <1>3. /\ Append(s, b) \in Seq(S) /\ Len(Append(s, b)) = Len(t)
        /\ \A i \in 1 .. Len(Append(s, b)) : Append(s, b)[i] = t[i]
    BY <1>1, <1>2, AppendProperties
  <1>4. Append(s, b) = t BY <1>1, <1>3, SeqEqual
  <1>5. QED BY <1>4 DEF s, t

LEMMA AppendToTwo == ASSUME NEW a, NEW b, NEW c PROVE Append(<<a, b>>, c) = <<a, b, c>>
  <1> DEFINE S == {a, b, c}
  <1> DEFINE s == <<a, b>>
  <1> DEFINE t == <<a, b, c>>
  <1>1. s \in Seq(S) /\ t \in Seq(S) /\ c \in S OBVIOUS
  <1>2. /\ Len(s) = 2 /\ s[1] = a /\ s[2] = b
        /\ Len(t) = 3 /\ t[1] = a /\ t[2] = b /\ t[3] = c
    OBVIOUS
  <1> HIDE DEF S, s, t
  <1>3. /\ Append(s, c) \in Seq(S) /\ Len(Append(s, c)) = Len(t)
        /\ \A i \in 1 .. Len(Append(s, c)) : Append(s, c)[i] = t[i]
    BY <1>1, <1>2, AppendProperties
  <1>4. Append(s, c) = t BY <1>1, <1>3, SeqEqual
  <1>5. QED BY <1>4 DEF s, t

LEMMA ComposedRetry ==
    ASSUME RecoveryTypeOK, NEW r \in Requests, PostedLast(r), NEW e \in Effort, e # body[r].effort
    PROVE  Composed(Append(posted[r], [body[r] EXCEPT !.effort = e]))
  <1> DEFINE b == body[r]
  <1> DEFINE c == [b EXCEPT !.effort = e]
  <1>1. b \in Bodies BY DEF RecoveryTypeOK
  <1>2. c # b /\ c.blobs = b.blobs /\ c.effort = e BY <1>1 DEF Bodies
  <1>3. CASE posted[r] = <<b>>
    <2> HIDE DEF b, c
    <2>1. Append(posted[r], c) = <<b, c>> BY <1>3, AppendToOne
    <2>2. c.blobs => b.blobs BY <1>2
    <2>3. Composed(<<b, c>>) BY <1>2, <2>2 DEF Composed
    <2>4. QED BY <2>1, <2>3 DEF b, c
  <1>4. CASE ~b.blobs /\ posted[r] = <<[b EXCEPT !.blobs = TRUE], b>>
    <2> DEFINE a == [b EXCEPT !.blobs = TRUE]
    <2>1. a.blobs /\ a # b /\ a # c BY <1>1, <1>2, <1>4 DEF Bodies
    <2>2. ~b.blobs /\ ~c.blobs BY <1>2, <1>4
    <2>3. posted[r] = <<a, b>> BY <1>4
    <2> HIDE DEF a, b, c
    <2>4. Append(posted[r], c) = <<a, b, c>> BY <2>3, AppendToTwo
    <2>5. Composed(<<a, b, c>>) BY <1>2, <2>1, <2>2 DEF Composed
    <2>6. QED BY <2>4, <2>5 DEF a, b, c
  <1>5. QED BY <1>3, <1>4 DEF PostedLast

LEMMA TrailsInit == RecoveryInit => Trails
  BY ComposedEmpty DEF RecoveryInit, Trails, Trail, Deciding, Writing

LEMMA TrailsKept ==
    ASSUME Trails, NEW r \in Requests, Trail(r)',
           \A q \in Requests \ {r} :
               /\ doing'[q] = doing[q] /\ after'[q] = after[q]
               /\ posted'[q] = posted[q] /\ body'[q] = body[q]
    PROVE  Trails'
  BY DEF Trails, Trail, Deciding, PostedLast

\* A step between two posts.
LEMMA TrailGoesOn ==
    ASSUME RecoveryTyped, Trails, NEW r \in Requests, UNCHANGED <<body, posted>>,
           doing'[r] \in Holding \ {"first", "second", "third"},
           Deciding(r)' => Deciding(r),
           \A q \in Requests \ {r} : doing'[q] = doing[q] /\ after'[q] = after[q]
    PROVE  Trails'
  <1>1. Trail(r)' BY DEF Trails, Trail, PostedLast, Holding
  <1>2. QED BY <1>1, TrailsKept

LEMMA TrailRetried ==
    ASSUME RecoveryTyped, Trails, NEW r \in Requests, Deciding(r), NEW scale \in Seq(Effort),
           scale # <<>>, NEW want, ClampEffort(want, scale) # body[r].effort,
           Post(r, "third", [body[r] EXCEPT !.effort = ClampEffort(want, scale)]),
           UNCHANGED body, after' = [after EXCEPT ![r] = "relay"]
    PROVE  Trails'
  <1>1. ClampEffort(want, scale) \in Effort BY ClampInScale
  <1>2. PostedLast(r) BY DEF Trails, Trail
  <1>3. Composed(Append(posted[r], [body[r] EXCEPT !.effort = ClampEffort(want, scale)]))
    BY <1>1, <1>2, ComposedRetry DEF RecoveryTyped
  <1>4. /\ Composed(posted'[r]) /\ doing'[r] = "third" /\ after'[r] = "relay"
        /\ \A q \in Requests \ {r} :
               doing'[q] = doing[q] /\ posted'[q] = posted[q] /\ after'[q] = after[q]
    BY <1>3 DEF Post, RecoveryTyped, RecoveryTypeOK
  <1>5. Trail(r)' BY <1>4 DEF Trail, Deciding, Writing
  <1>6. QED BY <1>4, <1>5, TrailsKept

LEMMA TrailsStep == RecoveryTyped /\ Scales /\ Trails /\ [RecoveryNext]_recoveryVars => Trails'
  <1> SUFFICES ASSUME RecoveryTyped, Scales, Trails, [RecoveryNext]_recoveryVars PROVE Trails'
    OBVIOUS
  <1>1. CASE UNCHANGED recoveryVars
    BY <1>1 DEF Trails, Trail, Deciding, PostedLast, recoveryVars, changing, request
  <1>2. ASSUME NEW r \in Requests, Arrive(r) PROVE Trails'
    <2>1. /\ doing[r] = "idle" /\ doing'[r] = "queued" /\ posted'[r] = posted[r]
          /\ \A q \in Requests \ {r} :
                 /\ doing'[q] = doing[q] /\ after'[q] = after[q]
                 /\ posted'[q] = posted[q] /\ body'[q] = body[q]
      BY <1>2 DEF Arrive, Goto, changing, RecoveryTyped, RecoveryTypeOK
    <2>2. Trail(r)' BY <2>1 DEF Trails, Trail, Deciding, Writing
    <2>3. QED BY <2>1, <2>2, TrailsKept
  <1>3. ASSUME NEW r \in Requests, LeaveQueue(r) \/ FirstFails(r) \/ Relay(r) PROVE Trails'
    <2>1. HandlerReturns(r, "done") BY <1>3 DEF LeaveQueue, FirstFails, Relay
    <2>2. /\ doing'[r] = "done" /\ posted'[r] = <<>>
          /\ \A q \in Requests \ {r} :
                 /\ doing'[q] = doing[q] /\ after'[q] = after[q]
                 /\ posted'[q] = posted[q] /\ body'[q] = body[q]
      BY <2>1 DEF HandlerReturns, RecoveryTyped, RecoveryTypeOK
    <2>3. Trail(r)' BY <2>2, ComposedEmpty DEF Trail, Deciding, Writing
    <2>4. QED BY <2>2, <2>3, TrailsKept
  <1>4. ASSUME NEW r \in Requests, Acquire(r) PROVE Trails'
    <2>1. doing[r] = "queued" /\ UNCHANGED <<body, after>> BY <1>4 DEF Acquire, changing
    <2>2. posted[r] = <<>> BY <2>1 DEF Trails, Trail
    <2>3. /\ doing'[r] = "first" /\ posted'[r] = <<body[r]>>
          /\ \A q \in Requests \ {r} : doing'[q] = doing[q] /\ posted'[q] = posted[q]
      BY <1>4, <2>2 DEF Acquire, Post, RecoveryTyped, RecoveryTypeOK
    <2>4. Trail(r)' BY <2>1, <2>3, ComposedOne DEF Trail, Deciding, Writing
    <2>5. QED BY <2>1, <2>3, <2>4, TrailsKept
  <1>5. ASSUME NEW r \in Requests, FirstAnswered(r) PROVE Trails'
    <2>1. UNCHANGED <<body, after>> /\ doing[r] = "first" BY <1>5 DEF FirstAnswered, changing
    <2>2. posted[r] = <<body[r]>> BY <2>1 DEF Trails, Trail
    <2>3. CASE StripAndRetry(r)
      <3> DEFINE b == [body[r] EXCEPT !.blobs = FALSE]
      <3>1. body[r].blobs /\ body[r] \in Bodies
        BY <2>3 DEF StripAndRetry, Strippable, RecoveryTyped, RecoveryTypeOK
      <3>2. /\ doing'[r] = "second" /\ posted'[r] = <<body[r], b>>
            /\ \A q \in Requests \ {r} : doing'[q] = doing[q] /\ posted'[q] = posted[q]
        <4>1. posted' = [posted EXCEPT ![r] = Append(posted[r], b)]
          BY <2>3 DEF StripAndRetry, Post
        <4>2. posted'[r] = Append(<<body[r]>>, b) BY <2>2, <4>1 DEF RecoveryTyped, RecoveryTypeOK
        <4>3. QED
          BY <2>3, <4>1, <4>2, AppendToOne DEF StripAndRetry, Post, RecoveryTyped, RecoveryTypeOK
      <3>3. Composed(<<body[r], b>>) BY <3>1, ComposedTwo
      <3>4. Trail(r)' BY <2>1, <3>1, <3>2, <3>3 DEF Trail, Deciding, Writing
      <3>5. QED BY <2>1, <3>2, <3>4, TrailsKept
    <2>4. CASE ~StripAndRetry(r)
      <3>1. /\ posted' = posted /\ doing'[r] \in {"relay", "learn", "choose"}
            /\ \A q \in Requests \ {r} : doing'[q] = doing[q]
        BY <1>5, <2>4, HeardStep DEF FirstAnswered, RecoveryTyped, RecoveryTypeOK
      <3>2. PostedLast(r)' BY <2>1, <2>2, <3>1 DEF PostedLast
      <3>3. Trail(r)' BY <3>1, <3>2 DEF Trails, Trail
      <3>4. QED BY <2>1, <3>1, <3>3, TrailsKept
    <2>5. QED BY <2>3, <2>4
  <1>6. ASSUME NEW r \in Requests, SecondAnswered(r) PROVE Trails'
    <2> DEFINE b == [body[r] EXCEPT !.blobs = FALSE]
    <2>1. /\ UNCHANGED <<posted, after>> /\ doing[r] = "second"
          /\ body' = [body EXCEPT ![r] = b]
      BY <1>6, HeardStep DEF SecondAnswered, changing, RecoveryTyped
    <2>2. /\ doing'[r] \in {"relay", "learn", "choose"}
          /\ \A q \in Requests \ {r} : doing'[q] = doing[q]
      BY <1>6, HeardStep DEF SecondAnswered, RecoveryTyped, RecoveryTypeOK
    <2>3. body[r].blobs /\ posted[r] = <<body[r], b>> BY <2>1 DEF Trails, Trail
    <2>4. body'[r] = b /\ \A q \in Requests \ {r} : body'[q] = body[q]
      BY <2>1 DEF RecoveryTyped, RecoveryTypeOK
    <2>5. ~b.blobs /\ body[r] = [b EXCEPT !.blobs = TRUE]
      BY <2>3 DEF RecoveryTyped, RecoveryTypeOK, Bodies
    <2>6. PostedLast(r)' BY <2>1, <2>3, <2>4, <2>5 DEF PostedLast
    <2>7. Trail(r)' BY <2>1, <2>2, <2>6 DEF Trails, Trail
    <2>8. QED BY <2>1, <2>2, <2>4, <2>7, TrailsKept
  <1>7. ASSUME NEW r \in Requests, LearnLevels(r) PROVE Trails'
    <2>1. /\ doing[r] = "learn" /\ doing'[r] \in {"choose", "marshal"}
          /\ \A q \in Requests \ {r} : doing'[q] = doing[q] /\ after'[q] = after[q]
          /\ UNCHANGED <<body, posted>>
      BY <1>7 DEF LearnLevels, Learn, request, RecoveryTyped, RecoveryTypeOK
    <2>2. QED BY <2>1, TrailGoesOn DEF Deciding, Holding
  <1>8. ASSUME NEW r \in Requests, Choose(r) PROVE Trails'
    <2> DEFINE clamped == ClampEffort(body[r].effort, LevelsForModel(model[r]))
    <2>1. doing[r] = "choose" /\ UNCHANGED body BY <1>8 DEF Choose
    <2>2. CASE clamped = body[r].effort
      <3>1. /\ doing'[r] = "demote" /\ UNCHANGED posted
            /\ \A q \in Requests \ {r} : doing'[q] = doing[q] /\ after'[q] = after[q]
        BY <1>8, <2>2 DEF Choose, RecoveryTyped, RecoveryTypeOK
      <3>2. QED BY <2>1, <3>1, TrailGoesOn DEF Deciding, Holding
    <2>3. CASE clamped # body[r].effort
      <3>1. /\ Post(r, "third", [body[r] EXCEPT !.effort = clamped])
            /\ after' = [after EXCEPT ![r] = "relay"]
        BY <1>8, <2>3 DEF Choose, RetryWith
      <3>2. QED
        BY <2>1, <2>3, <3>1, LevelsAreTyped, TrailRetried DEF Deciding, RecoveryTyped
    <2>4. QED BY <2>2, <2>3
  <1>9. ASSUME NEW r \in Requests, DemoteTop(r) PROVE Trails'
    <2>1. UNCHANGED <<body, posted, after>>
      BY <1>9 DEF DemoteTop, DemoteRead, DemoteWrite, request, changing
    <2>2. \/ doing[r] = "demote" /\ (doing'[r] = "replace" \/ doing'[r] = after[r])
          \/ doing[r] = "replace" /\ doing'[r] = "marshal"
      BY <1>9 DEF DemoteTop, DemoteRead, DemoteWrite, Goto, RecoveryTyped, RecoveryTypeOK
    <2>3. \A q \in Requests \ {r} : doing'[q] = doing[q]
      BY <1>9 DEF DemoteTop, DemoteRead, DemoteWrite, Goto, RecoveryTyped, RecoveryTypeOK
    <2>4. after[r] \in {"choose", "retry", "relay"} BY DEF RecoveryTyped, RecoveryTypeOK
    <2>5. QED BY <2>1, <2>2, <2>3, <2>4, TrailGoesOn DEF Deciding, Writing, Holding
  <1>10. ASSUME NEW r \in Requests, Retry(r) PROVE Trails'
    <2> DEFINE clamped == ClampEffort(body[r].effort, demoted[r])
    <2>1. /\ doing[r] = "retry" /\ UNCHANGED body
          /\ after' = [after EXCEPT ![r] = "relay"]
      BY <1>10 DEF Retry
    <2>2. demoted[r] \in Seq(Effort) /\ demoted[r] # <<>>
      BY <2>1, GoodIsTyped DEF Scales, DemotedInHand, RecoveryTyped, RecoveryTypeOK
    <2>3. CASE clamped = body[r].effort
      <3>1. /\ doing'[r] = "relay" /\ UNCHANGED posted
            /\ \A q \in Requests \ {r} : doing'[q] = doing[q] /\ after'[q] = after[q]
        BY <1>10, <2>3 DEF Retry, RecoveryTyped, RecoveryTypeOK
      <3>2. QED BY <2>1, <3>1, TrailGoesOn DEF Deciding, Writing, Holding
    <2>4. CASE clamped # body[r].effort
      <3>1. Post(r, "third", [body[r] EXCEPT !.effort = clamped])
        BY <1>10, <2>4 DEF Retry, RetryWith
      <3>2. QED BY <2>1, <2>2, <2>4, <3>1, TrailRetried DEF Deciding
    <2>5. QED BY <2>3, <2>4
  <1>11. ASSUME NEW r \in Requests, ThirdAnswered(r) \/ RetryFails(r) PROVE Trails'
    <2>1. UNCHANGED <<body, posted, after>>
      BY <1>11 DEF ThirdAnswered, RetryFails, request, changing
    <2>2. /\ \/ doing'[r] = "relay"
             \/ doing[r] = "third" /\ doing'[r] = "demote"
          /\ \A q \in Requests \ {r} : doing'[q] = doing[q]
      BY <1>11 DEF ThirdAnswered, RetryFails, Goto, RecoveryTyped, RecoveryTypeOK
    <2>3. doing[r] = "third" => after[r] = "relay" BY DEF Trails, Trail
    <2>4. ~Deciding(r)' BY <2>1, <2>2, <2>3 DEF Deciding, Writing
    <2>5. QED BY <2>1, <2>2, <2>4, TrailGoesOn DEF Holding
  <1>12. ASSUME NEW r \in Requests, PersistLevels(r) PROVE Trails'
    <2>1. UNCHANGED <<body, posted, after>>
      BY <1>12
         DEF PersistLevels, Persist, Marshal, Truncate, WriteFile, PersistFails, request,
             changing
    <2>2. /\ doing[r] \in Writing
          /\ doing'[r] \in Writing \/ doing'[r] = after[r]
          /\ \A q \in Requests \ {r} : doing'[q] = doing[q]
      BY <1>12
         DEF PersistLevels, Persist, Marshal, Truncate, WriteFile, PersistFails, Goto,
             Writing, RecoveryTyped, RecoveryTypeOK
    <2>3. after[r] \in {"choose", "retry", "relay"} BY DEF RecoveryTyped, RecoveryTypeOK
    <2>4. QED BY <2>1, <2>2, <2>3, TrailGoesOn DEF Deciding, Writing, Holding
  <1>13. CASE RecoveryRestart
    <2>1. \A q \in Requests : doing'[q] \in {"idle", "done", "lost"} /\ posted'[q] = <<>>
      BY <1>13 DEF RecoveryRestart
    <2>2. QED BY <2>1, ComposedEmpty DEF Trails, Trail, Deciding, Writing
  <1>14. QED
    BY <1>1, <1>2, <1>3, <1>4, <1>5, <1>6, <1>7, <1>8, <1>9, <1>10, <1>11, <1>12, <1>13
       DEF RecoveryNext, Handle

\* RecoveriesCompose: each recovery posts at most once, never a body that has been
\* posted before, and none brings stripped blobs back.
THEOREM RecoveriesAreComposed == RecoverySpec => []RecoveriesCompose
  <1>1. Trails => RecoveriesCompose
    BY DEF Trails, Trail, Composed, RecoveriesCompose
  <1>2. RecoveryInit => RecoveryTyped /\ Scales /\ Trails BY TypeInit, ScalesInit, TrailsInit
  <1>3. RecoveryTyped /\ Scales /\ Trails /\ [RecoveryNext]_recoveryVars => (RecoveryTyped /\ Scales /\ Trails)'
    BY TypeStep, ScalesStep, TrailsStep
  <1>4. QED BY <1>1, <1>2, <1>3, PTL DEF RecoverySpec

----------------------------------------------------------------------------
(* What upstream has taught.                                               *)

\* An honest model, of which every list has been read whole.
Trusted(m) == Honest(m) /\ m \notin misread

Mapped(table) == \A m \in DOMAIN table : Trusted(m) => table[m] = Taught(Names[m])

\* A request for such a model never demotes, and retries with what it learned.
Lesson(r) ==
    /\ doing[r] \notin {"demote", "replace", "retry"}
    /\ doing[r] \in Writing => after[r] = "choose"
    /\ doing[r] \in Writing \cup {"learn", "choose"} =>
          body[r].effort \notin Accepts[model[r]]
    /\ doing[r] = "learn" => names[r] = Names[model[r]]
    /\ doing[r] \in Writing \cup {"choose"} => model[r] \in DOMAIN taught
    /\ doing[r] = "third" => Last(posted[r]).effort \in Accepts[model[r]]

Lessons ==
    /\ Mapped(taught) /\ Mapped(file.table)
    /\ \A r \in Requests : Mapped(snapshot[r])
    /\ \A r \in Requests : Trusted(model[r]) => Lesson(r)

LEMMA LessonsInit == RecoveryInit => Lessons
  BY DEF RecoveryInit, CacheInit, Stored, NoTable, Lessons, Lesson, Mapped, Writing

\* A step of one request that leaves every table as it is.
LEMMA LessonsKept ==
    ASSUME Lessons, NEW r \in Requests, Trusted(model[r])' => Lesson(r)',
           misread \subseteq misread', UNCHANGED <<cache, snapshot, model>>,
           \A q \in Requests \ {r} :
               /\ doing'[q] = doing[q] /\ after'[q] = after[q] /\ names'[q] = names[q]
               /\ posted'[q] = posted[q] /\ body'[q] = body[q]
    PROVE  Lessons'
  <1>1. \A m : Trusted(m)' => Trusted(m) BY DEF Trusted, Honest
  <1>2. Mapped(taught)' /\ Mapped(file.table)' /\ \A q \in Requests : Mapped(snapshot[q])'
    BY <1>1 DEF Lessons, Mapped, cache
  <1>3. \A q \in Requests \ {r} : Trusted(model[q])' => Lesson(q)'
    BY <1>1 DEF Lessons, Lesson, cache
  <1>4. QED BY <1>2, <1>3 DEF Lessons

LEMMA MappedWith ==
    ASSUME NEW table, Mapped(table), NEW m, NEW scale,
           Trusted(m) => scale = Taught(Names[m])
    PROVE  Mapped(With(table, m, scale))
  BY DEF Mapped, With

LEMMA HonestNames ==
    ASSUME NEW m \in Models, Honest(m)
    PROVE  Names[m] # <<>> /\ Taught(Names[m]) \in Seq(Effort) /\ Taught(Names[m]) # <<>>
  <1>1. Taught(Names[m]) \in Seq(Effort) BY NamesTyped, TaughtTyped
  <1>2. Taught(Names[m]) # <<>> BY DEF Honest, Sane
  <1>3. ASSUME Names[m] = <<>> PROVE FALSE
    <2>1. Without(<<>>, NoneEffort) = <<>> /\ Without(<<>>, MaxEffort) = <<>>
      BY DEF Without, ToSet
    <2>2. QED BY <1>2, <1>3, <2>1 DEF Taught
  <1>4. QED BY <1>1, <1>2, <1>3

\* The retry asks for a level of the scale that was taught, which is another
\* one than the level that was rejected.
LEMMA HonestClamp ==
    ASSUME RecoveryTyped, Lessons, NEW r \in Requests, Trusted(model[r]), doing[r] = "choose"
    PROVE  /\ ClampEffort(body[r].effort, LevelsForModel(model[r])) \in Accepts[model[r]]
           /\ ClampEffort(body[r].effort, LevelsForModel(model[r])) # body[r].effort
  <1> DEFINE scale == Taught(Names[model[r]])
  <1>1. Lesson(r) /\ model[r] \in Models BY DEF Lessons, RecoveryTyped, RecoveryTypeOK
  <1>2. scale \in Seq(Effort) /\ scale # <<>> BY <1>1, HonestNames DEF Trusted
  <1>3. LevelsForModel(model[r]) = scale
    BY <1>1, <1>2 DEF Lessons, Lesson, Mapped, LevelsForModel
  <1>4. ToSet(scale) \subseteq Accepts[model[r]] BY DEF Honest, Trusted
  <1> HIDE DEF scale
  <1>5. ClampEffort(body[r].effort, scale) \in ToSet(scale)
    BY <1>2, ClampInScale
  <1>6. QED BY <1>1, <1>3, <1>4, <1>5 DEF Lesson

\* An answer that sets the second recovery going, for a model whose lists have
\* been read whole.
LEMMA RejectedAnswer ==
    ASSUME RecoveryTyped, NEW r \in Requests, Trusted(model[r])',  UNCHANGED model,
           HearRejection(r) \/ HearPart(r) \/ (\E answer \in Answers : PassOn(r, answer)),
           doing'[r] # "relay"
    PROVE  /\ doing'[r] = "learn" /\ names'[r] = Names[model[r]]
           /\ Last(posted[r]).effort \notin Accepts[model[r]]
  <1> model[r] \in Models /\ model'[r] = model[r] BY DEF RecoveryTyped, RecoveryTypeOK
  <1> Honest(model[r]) /\ model[r] \notin misread' BY DEF Trusted, Honest
  <1> Names[model[r]] # <<>> BY HonestNames
  <1>1. CASE HearRejection(r)
    <2>1. doing'[r] = "learn" /\ names'[r] = Names[model[r]]
      BY <1>1 DEF HearRejection, TakeUp, RecoveryTyped, RecoveryTypeOK
    <2>2. QED BY <1>1, <2>1 DEF HearRejection, MayAnswer, Rejection
  <1>2. CASE HearPart(r)
    <2>1. PICK n \in 0 .. Len(Names[model[r]]) :
             /\ TakeUp(r, SubSeq(Names[model[r]], 1, n))
             /\ misread' = IF n = Len(Names[model[r]]) THEN misread ELSE misread \cup {model[r]}
      BY <1>2 DEF HearPart
    <2>2. n = Len(Names[model[r]]) BY <2>1
    <2>3. TakeUp(r, Names[model[r]]) BY <2>1, <2>2, PartHeard
    <2>4. doing'[r] = "learn" /\ names'[r] = Names[model[r]]
      BY <2>3 DEF TakeUp, RecoveryTyped, RecoveryTypeOK
    <2>5. QED BY <1>2, <2>4 DEF HearPart, MayAnswer, BrokenRejection
  <1>3. CASE \E answer \in Answers : PassOn(r, answer)
    BY <1>3 DEF PassOn, RecoveryTyped, RecoveryTypeOK
  <1>4. QED BY <1>1, <1>2, <1>3

LEMMA LessonsStep ==
    RecoveryTyped /\ Scales /\ Trails /\ Lessons /\ [RecoveryNext]_recoveryVars => Lessons'
  <1> SUFFICES ASSUME RecoveryTyped, Scales, Trails, Lessons, [RecoveryNext]_recoveryVars PROVE Lessons'
    OBVIOUS
  <1>1. CASE UNCHANGED recoveryVars
    BY <1>1 DEF Lessons, Lesson, Mapped, Trusted, Honest, recoveryVars, cache, changing, request
  <1>2. ASSUME NEW r \in Requests, Arrive(r) PROVE Lessons'
    <2>1. /\ doing'[r] = "queued" /\ UNCHANGED <<cache, snapshot, model, names, misread>>
          /\ \A q \in Requests \ {r} :
                 /\ doing'[q] = doing[q] /\ after'[q] = after[q]
                 /\ posted'[q] = posted[q] /\ body'[q] = body[q]
      BY <1>2 DEF Arrive, Goto, changing, RecoveryTyped, RecoveryTypeOK
    <2>2. Lesson(r)' BY <2>1 DEF Lesson, Writing
    <2>3. QED BY <2>1, <2>2, LessonsKept
  <1>3. ASSUME NEW r \in Requests, LeaveQueue(r) \/ FirstFails(r) \/ Relay(r) PROVE Lessons'
    <2>1. HandlerReturns(r, "done") BY <1>3 DEF LeaveQueue, FirstFails, Relay
    <2>2. /\ doing'[r] = "done" /\ UNCHANGED <<cache, snapshot, model, misread>>
          /\ \A q \in Requests \ {r} :
                 /\ doing'[q] = doing[q] /\ after'[q] = after[q] /\ names'[q] = names[q]
                 /\ posted'[q] = posted[q] /\ body'[q] = body[q]
      BY <2>1 DEF HandlerReturns, RecoveryTyped, RecoveryTypeOK
    <2>3. Lesson(r)' BY <2>2 DEF Lesson, Writing
    <2>4. QED BY <2>2, <2>3, LessonsKept
  <1>4. ASSUME NEW r \in Requests, Acquire(r) PROVE Lessons'
    <2>1. /\ doing'[r] = "first"
          /\ UNCHANGED <<cache, snapshot, model, body, after, names, misread>>
          /\ \A q \in Requests \ {r} : doing'[q] = doing[q] /\ posted'[q] = posted[q]
      BY <1>4 DEF Acquire, Post, changing, RecoveryTyped, RecoveryTypeOK
    <2>2. Lesson(r)' BY <2>1 DEF Lesson, Writing
    <2>3. QED BY <2>1, <2>2, LessonsKept
  <1>5. ASSUME NEW r \in Requests, FirstAnswered(r) PROVE Lessons'
    <2>1. doing[r] = "first" /\ UNCHANGED <<cache, snapshot, model, body, after>>
      BY <1>5 DEF FirstAnswered, changing
    <2>2. Last(posted[r]).effort = body[r].effort
      <3> DEFINE c == body[r]
      <3>1. posted[r] = <<c>> BY <2>1 DEF Trails, Trail
      <3> HIDE DEF c
      <3>2. Last(posted[r]) = c BY <3>1 DEF Last
      <3>3. QED BY <3>2 DEF c
    <2>3. CASE StripAndRetry(r)
      <3>1. /\ doing'[r] = "second" /\ UNCHANGED <<names, misread>>
            /\ \A q \in Requests \ {r} : doing'[q] = doing[q] /\ posted'[q] = posted[q]
        BY <2>3 DEF StripAndRetry, Post, RecoveryTyped, RecoveryTypeOK
      <3>2. Lesson(r)' BY <3>1 DEF Lesson, Writing
      <3>3. QED BY <2>1, <3>1, <3>2, LessonsKept
    <2>4. CASE ~StripAndRetry(r)
      <3>1. HearRejection(r) \/ HearPart(r) \/ \E answer \in Answers : PassOn(r, answer)
        BY <1>5, <2>4 DEF FirstAnswered
      <3>2. /\ doing'[r] \in {"relay", "learn", "choose"} /\ misread \subseteq misread'
            /\ UNCHANGED posted
            /\ \A q \in Requests \ {r} : doing'[q] = doing[q] /\ names'[q] = names[q]
        BY <3>1, HeardStep DEF RecoveryTyped, RecoveryTypeOK
      <3>3. ASSUME Trusted(model[r])' PROVE Lesson(r)'
        <4>1. CASE doing'[r] = "relay" BY <4>1 DEF Lesson, Writing
        <4>2. CASE doing'[r] # "relay"
          <5>1. /\ doing'[r] = "learn" /\ names'[r] = Names[model[r]]
                /\ body[r].effort \notin Accepts[model[r]]
            BY <2>1, <2>2, <3>1, <3>3, <4>2, RejectedAnswer
          <5>2. QED BY <2>1, <5>1 DEF Lesson, Writing
        <4>3. QED BY <4>1, <4>2
      <3>4. QED BY <2>1, <3>2, <3>3, LessonsKept
    <2>5. QED BY <2>3, <2>4
  <1>6. ASSUME NEW r \in Requests, SecondAnswered(r) PROVE Lessons'
    <2> DEFINE b == [body[r] EXCEPT !.blobs = FALSE]
    <2>1. HearRejection(r) \/ HearPart(r) \/ \E answer \in Answers : PassOn(r, answer)
      BY <1>6 DEF SecondAnswered
    <2>2. /\ doing[r] = "second" /\ UNCHANGED <<cache, snapshot, model, after>>
          /\ body' = [body EXCEPT ![r] = b]
      BY <1>6 DEF SecondAnswered, changing
    <2>3. /\ doing'[r] \in {"relay", "learn", "choose"} /\ misread \subseteq misread'
          /\ UNCHANGED posted
          /\ \A q \in Requests \ {r} :
                 doing'[q] = doing[q] /\ names'[q] = names[q] /\ body'[q] = body[q]
          /\ body'[r] = b
      BY <2>1, <2>2, HeardStep DEF RecoveryTyped, RecoveryTypeOK
    <2>4. Last(posted[r]).effort = b.effort
      <3> DEFINE c == body[r]
      <3>1. posted[r] = <<c, b>> BY <2>2 DEF Trails, Trail
      <3> HIDE DEF b, c
      <3>2. QED BY <3>1 DEF Last
    <2>5. ASSUME Trusted(model[r])' PROVE Lesson(r)'
      <3>1. CASE doing'[r] = "relay" BY <3>1 DEF Lesson, Writing
      <3>2. CASE doing'[r] # "relay"
        <4>1. /\ doing'[r] = "learn" /\ names'[r] = Names[model[r]]
              /\ b.effort \notin Accepts[model[r]]
          BY <2>1, <2>2, <2>4, <2>5, <3>2, RejectedAnswer
        <4>2. QED BY <2>2, <2>3, <4>1 DEF Lesson, Writing
      <3>3. QED BY <3>1, <3>2
    <2>6. QED BY <2>2, <2>3, <2>5, LessonsKept
  <1>7. ASSUME NEW r \in Requests, LearnLevels(r) PROVE Lessons'
    <2>1. /\ doing[r] = "learn" /\ UNCHANGED <<file, snapshot, model, body, posted, misread>>
          /\ \A q \in Requests \ {r} :
                 doing'[q] = doing[q] /\ after'[q] = after[q] /\ names'[q] = names[q]
      BY <1>7 DEF LearnLevels, Learn, RecoveryTyped, RecoveryTypeOK
    <2>2. Trusted(model[r]) => names[r] = Names[model[r]] BY <2>1 DEF Lessons, Lesson
    <2>3. CASE ~Sane(Taught(names[r]))
      <3>1. ~Trusted(model[r]) BY <2>2, <2>3 DEF Trusted, Honest
      <3>2. UNCHANGED taught BY <1>7, <2>3 DEF LearnLevels, Learn
      <3>3. ~Trusted(model[r])' BY <2>1, <3>1 DEF Trusted, Honest
      <3>4. QED BY <2>1, <3>2, <3>3, LessonsKept DEF cache
    <2>4. CASE Sane(Taught(names[r]))
      <3>1. /\ doing'[r] = "marshal" /\ after'[r] = "choose"
            /\ taught' = With(taught, model[r], Taught(names[r]))
        BY <1>7, <2>4 DEF LearnLevels, Learn, RecoveryTyped, RecoveryTypeOK
      <3>2. Mapped(taught') BY <2>2, <3>1, MappedWith DEF Lessons
      <3>3. DOMAIN taught' = DOMAIN taught \cup {model[r]} BY <3>1 DEF With
      <3>4. Trusted(model[r]) => Lesson(r)'
        BY <2>1, <3>1, <3>3 DEF Lessons, Lesson, Writing
      <3>5. QED BY <2>1, <3>2, <3>3, <3>4 DEF Lessons, Lesson, Mapped, Trusted, Honest
    <2>5. QED BY <2>3, <2>4
  <1>8. ASSUME NEW r \in Requests, Choose(r) PROVE Lessons'
    <2> DEFINE clamped == ClampEffort(body[r].effort, LevelsForModel(model[r]))
    <2> DEFINE b == [body[r] EXCEPT !.effort = clamped]
    <2>1. /\ doing[r] = "choose" /\ UNCHANGED <<cache, snapshot, model, body, names, misread>>
          /\ \A q \in Requests \ {r} :
                 doing'[q] = doing[q] /\ after'[q] = after[q] /\ posted'[q] = posted[q]
      BY <1>8 DEF Choose, RetryWith, Post, RecoveryTyped, RecoveryTypeOK
    <2>2. ASSUME Trusted(model[r]) PROVE Lesson(r)'
      <3>1. clamped \in Accepts[model[r]] /\ clamped # body[r].effort
        BY <2>1, <2>2, HonestClamp
      <3>2. Post(r, "third", b) BY <1>8, <3>1 DEF Choose, RetryWith
      <3>3. /\ b.effort = clamped /\ b \in Bodies
        BY LevelsAreTyped, RetryBodyType DEF RecoveryTyped, RecoveryTypeOK, Bodies
      <3> HIDE DEF b, clamped
      <3>4. doing'[r] = "third" /\ posted'[r] = Append(posted[r], b)
        BY <3>2 DEF Post, RecoveryTyped, RecoveryTypeOK
      <3>5. posted[r] \in Seq(Bodies) BY DEF RecoveryTyped, RecoveryTypeOK
      <3>6. Last(posted'[r]) = b BY <3>3, <3>4, <3>5 DEF Last
      <3>7. QED BY <2>1, <3>1, <3>3, <3>4, <3>6 DEF Lesson, Writing
    <2>3. Trusted(model[r])' => Trusted(model[r]) BY <2>1 DEF Trusted, Honest
    <2>4. QED BY <2>1, <2>2, <2>3, LessonsKept
  <1>9. ASSUME NEW r \in Requests, DemoteTop(r) \/ Retry(r) PROVE Lessons'
    <2>1. doing[r] \in {"demote", "replace", "retry"}
      BY <1>9 DEF DemoteTop, DemoteRead, DemoteWrite, Retry, Goto
    <2>2. ~Trusted(model[r]) BY <2>1 DEF Lessons, Lesson
    <2>3. /\ UNCHANGED <<file, snapshot, model, body, names, misread>>
          /\ \A q \in Requests \ {r} :
                 doing'[q] = doing[q] /\ after'[q] = after[q] /\ posted'[q] = posted[q]
      BY <1>9 DEF DemoteTop, DemoteRead, DemoteWrite, Retry, RetryWith, Post, Goto,
                  cache, changing, request, RecoveryTyped, RecoveryTypeOK
    <2>4. UNCHANGED taught \/ taught' = With(taught, model[r], demoted[r])
      BY <1>9 DEF DemoteTop, DemoteRead, DemoteWrite, Retry, cache
    <2>5. Mapped(taught') /\ DOMAIN taught \subseteq DOMAIN taught'
      BY <2>2, <2>4, MappedWith DEF Lessons, With
    <2>6. QED BY <2>2, <2>3, <2>5 DEF Lessons, Lesson, Mapped, Trusted, Honest
  <1>10. ASSUME NEW r \in Requests, ThirdAnswered(r) PROVE Lessons'
    <2>1. PICK answer \in Answers :
             /\ MayAnswer(r, answer)
             /\ doing' = [doing EXCEPT ![r] = IF answer = Rejection THEN "demote" ELSE "relay"]
      BY <1>10 DEF ThirdAnswered
    <2>2. /\ doing[r] = "third"
          /\ UNCHANGED <<cache, snapshot, model, body, posted, after, names, misread>>
      BY <1>10 DEF ThirdAnswered, changing
    <2>3. ASSUME Trusted(model[r]) PROVE Lesson(r)'
      <3>1. Last(posted[r]).effort \in Accepts[model[r]]
        BY <2>2, <2>3 DEF Lessons, Lesson
      <3>2. answer # Rejection BY <2>1, <3>1 DEF MayAnswer, Rejection
      <3>3. doing'[r] = "relay" BY <2>1, <3>2 DEF RecoveryTyped, RecoveryTypeOK
      <3>4. QED BY <3>3 DEF Lesson, Writing
    <2>4. \A q \in Requests \ {r} : doing'[q] = doing[q] BY <2>1 DEF RecoveryTyped, RecoveryTypeOK
    <2>5. Trusted(model[r])' => Trusted(model[r]) BY <2>2 DEF Trusted, Honest
    <2>6. QED BY <2>2, <2>3, <2>4, <2>5, LessonsKept
  <1>11. ASSUME NEW r \in Requests, RetryFails(r) PROVE Lessons'
    <2>1. /\ doing'[r] = "relay"
          /\ UNCHANGED <<cache, snapshot, model, body, posted, after, names, misread>>
          /\ \A q \in Requests \ {r} : doing'[q] = doing[q]
      BY <1>11 DEF RetryFails, Goto, changing, request, RecoveryTyped, RecoveryTypeOK
    <2>2. Lesson(r)' BY <2>1 DEF Lesson, Writing
    <2>3. QED BY <2>1, <2>2, LessonsKept
  <1>12. ASSUME NEW r \in Requests, PersistLevels(r) PROVE Lessons'
    <2>1. UNCHANGED <<taught, model, body, posted, after, names, misread>>
      BY <1>12 DEF PersistLevels, Persist, Marshal, Truncate, WriteFile, PersistFails,
                   cache, changing, request
    <2>2. /\ doing[r] \in Writing
          /\ doing'[r] \in Writing \/ doing'[r] = after[r]
          /\ \A q \in Requests \ {r} : doing'[q] = doing[q]
      BY <1>12 DEF PersistLevels, Persist, Marshal, Truncate, WriteFile, PersistFails, Goto,
                   Writing, RecoveryTyped, RecoveryTypeOK
    <2>3. /\ file' \in {file, Torn, Stored(snapshot[r])}
          /\ \A q \in Requests : snapshot'[q] \in {snapshot[q], taught, NoTable}
      BY <1>12 DEF PersistLevels, Persist, Marshal, Truncate, WriteFile, PersistFails,
                   cache, changing, RecoveryTyped, RecoveryTypeOK
    <2>4. Mapped(NoTable) BY DEF Mapped, NoTable
    <2>5. Mapped(file'.table) /\ \A q \in Requests : Mapped(snapshot'[q])
      BY <2>3, <2>4 DEF Lessons, Torn, Stored
    <2>6. Trusted(model[r]) => Lesson(r)' BY <2>1, <2>2 DEF Lessons, Lesson, Writing
    <2>7. QED BY <2>1, <2>2, <2>5, <2>6 DEF Lessons, Lesson, Mapped, Trusted, Honest
  <1>13. CASE RecoveryRestart
    <2>1. Mapped(LoadedLevels) BY DEF LoadedLevels, Lessons, Mapped, NoTable
    <2>2. /\ taught' = LoadedLevels /\ UNCHANGED <<file, model, misread>>
          /\ \A q \in Requests :
                 snapshot'[q] = NoTable /\ doing'[q] \in {"idle", "done", "lost"}
      BY <1>13 DEF RecoveryRestart
    <2>3. Mapped(NoTable) BY DEF Mapped, NoTable
    <2>4. \A q \in Requests : Lesson(q)' BY <2>2 DEF Lesson, Writing
    <2>5. QED BY <2>1, <2>2, <2>3, <2>4 DEF Lessons, Mapped, Trusted, Honest
  <1>14. QED
    BY <1>1, <1>2, <1>3, <1>4, <1>5, <1>6, <1>7, <1>8, <1>9, <1>10, <1>11, <1>12, <1>13
       DEF RecoveryNext, Handle

\* HonestRetryAccepted: when upstream names what it accepts, and every list of the
\* model has been read whole, one rejection is enough, whatever other requests,
\* the file and restarts do to the scales.
THEOREM OneRejectionIsEnough == RecoverySpec => []HonestRetryAccepted
  <1>1. Lessons => HonestRetryAccepted
    BY DEF Lessons, Lesson, Trusted, HonestRetryAccepted
  <1>2. RecoveryInit => RecoveryTyped /\ Scales /\ Trails /\ Lessons
    BY TypeInit, ScalesInit, TrailsInit, LessonsInit
  <1>3. RecoveryTyped /\ Scales /\ Trails /\ Lessons /\ [RecoveryNext]_recoveryVars
            => (RecoveryTyped /\ Scales /\ Trails /\ Lessons)'
    BY TypeStep, ScalesStep, TrailsStep, LessonsStep
  <1>4. QED BY <1>1, <1>2, <1>3, PTL DEF RecoverySpec
=============================================================================
