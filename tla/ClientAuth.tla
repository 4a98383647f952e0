----------------------------- MODULE ClientAuth -----------------------------
(***************************************************************************)
(* One client API key: the clientAuth middleware that gates every /v1      *)
(* request on it (internal/server/auth.go), the row the key has in SQLite  *)
(* (internal/store/keys.go), and the panel's handlers that change the row  *)
(* (internal/api/keys.go).                                                 *)
(*                                                                         *)
(* A request looks the key up through a five-second cache, re-reads the    *)
(* row for its quota, is served, and records its usage from a goroutine    *)
(* after the response.  None of this is one transaction: lookups race with *)
(* the panel's write-then-invalidate, and quota checks race with usage     *)
(* that is served but not yet recorded.                                    *)
(*                                                                         *)
(* "enabled" stands for the three gates an administrator sets (enabled,    *)
(* expiry, IP allowlist); tokens stand for both token and request counts.  *)
(***************************************************************************)
EXTENDS Integers, FiniteSets

CONSTANTS
    Slots,       \* requests in progress, from arrival to recorded usage
    Admins,      \* panel requests in progress
    Quota,       \* lifetime token quota, 0 = unlimited
    DailyLimit,  \* daily token limit, 0 = unlimited
    Costs,       \* tokens a request may report; negative when upstream's usage is odd
    MaxCost,     \* the largest of them
    TTL,         \* keyCacheTTL, in clock ticks
    MaxFill,     \* most ticks between a lookup's read and its store
    Absent,      \* the nil *APIKey of a lookup that found no row
    NoCache,     \* no entry in keyCache
    MaxDay, MaxBlind   \* bounds of a checked instance

ASSUME AuthAssumption ==
    /\ IsFiniteSet(Slots)
    /\ Quota \in Nat
    /\ DailyLimit \in Nat
    /\ MaxCost \in Nat
    /\ Costs \subseteq Int
    /\ \A n \in Costs : n <= MaxCost
    /\ TTL \in Nat \ {0}
    /\ MaxFill \in Nat \ {0}
    /\ MaxDay \in Nat
    /\ MaxBlind \in Nat

\* What a request keeps of a row: scanKey's result.
Keys == [enabled : BOOLEAN, used : Nat, daily : Nat]

ASSUME AbsentAssumption ==
    /\ Absent \notin Keys
    /\ NoCache \notin [key : Keys \cup {Absent}, left : 1 .. TTL]

VARIABLES
    row,        \* the api_keys row
    cache,      \* keyCache's entry for the key's hash
    day,        \* the UTC day
    pc, snap, age,            \* per request: where it is, the key it looked up, how long ago
    adminPc, pending,         \* per panel request: where it is, the enabled to write
    closedFor,  \* history: ticks for which the key has been unusable, up to Window
    today,      \* history: tokens recorded since midnight or the last reset
    blind       \* history: requests admitted on cached numbers, their re-read failed

requests == <<pc, snap, age>>
admins == <<adminPc, pending>>
history == <<closedFor, today, blind>>
vars == <<row, cache, day, requests, admins, history>>

Window == TTL + MaxFill

Usable(r) == r.exists /\ r.enabled

\* scanKey: a row last reset before today reads as if nothing was used today.
EffectiveDaily == IF row.resetDay < day THEN 0 ELSE row.daily

Scanned ==
    IF row.exists
    THEN [enabled |-> row.enabled, used |-> row.used, daily |-> EffectiveDaily]
    ELSE Absent

\* quotaBlocked.
Exhausted(limit, n) == limit > 0 /\ n >= limit

Blocked(k) == Exhausted(Quota, k.used) \/ Exhausted(DailyLimit, k.daily)

Init ==
    /\ row = [exists |-> TRUE, enabled |-> TRUE, used |-> 0, daily |-> 0, resetDay |-> -1]
    /\ cache = NoCache
    /\ day = 0
    /\ pc = [s \in Slots |-> "idle"]
    /\ snap = [s \in Slots |-> Absent]
    /\ age = [s \in Slots |-> 0]
    /\ adminPc = [a \in Admins |-> "idle"]
    /\ pending = [a \in Admins |-> FALSE]
    /\ closedFor = 0
    /\ today = 0
    /\ blind = 0

----------------------------------------------------------------------------
(* A request.                                                              *)

Goto(s, from, to) == pc[s] = from /\ pc' = [pc EXCEPT ![s] = to]

\* A request that leaves the middleware forgets its locals; the handlers use
\* nothing of the key but its id.
Leave(s, from, to) ==
    /\ Goto(s, from, to)
    /\ snap' = [snap EXCEPT ![s] = Absent]
    /\ age' = [age EXCEPT ![s] = 0]

\* The entry in the cache has not expired: an expired one is as good as none.
Live == cache # NoCache

\* Fault: a hit renews the entry.
LookupHitRenewing(s) ==
    /\ Live
    /\ Goto(s, "idle", "gate")
    /\ snap' = [snap EXCEPT ![s] = cache.key]
    /\ cache' = [cache EXCEPT !.left = TTL]
    /\ UNCHANGED <<row, day, age, admins, history>>

\* lookupKeyCached finds an entry that has not expired.
LookupHit(s) ==
    /\ Live
    /\ Goto(s, "idle", "gate")
    /\ snap' = [snap EXCEPT ![s] = cache.key]
    /\ UNCHANGED <<row, cache, day, age, admins, history>>

\* ... or it reads the row, and stores what it read in a later step: an update
\* and its invalidation can fall between the two.
LookupMiss(s) ==
    /\ ~Live
    /\ Goto(s, "idle", "fill")
    /\ snap' = [snap EXCEPT ![s] = Scanned]
    /\ age' = [age EXCEPT ![s] = 0]
    /\ UNCHANGED <<row, cache, day, admins, history>>

Fill(s) ==
    /\ Goto(s, "fill", "gate")
    /\ cache' = [key |-> snap[s], left |-> TTL]
    /\ age' = [age EXCEPT ![s] = 0]
    /\ UNCHANGED <<row, day, snap, admins, history>>

Admissible(k) == k # Absent /\ k.enabled

\* An unknown or disabled key is turned away (401, 403).
TurnAway(s) ==
    /\ ~Admissible(snap[s])
    /\ Leave(s, "gate", "idle")
    /\ UNCHANGED <<row, cache, day, admins, history>>

\* The quota check on key k: 429, or on to the handler.
Decide(s, k) == Leave(s, "gate", IF Blocked(k) THEN "idle" ELSE "serving")

\* Fault: the quota is checked on the cached numbers.
CheckCached(s) ==
    /\ Admissible(snap[s])
    /\ Decide(s, snap[s])
    /\ UNCHANGED <<row, cache, day, admins, history>>

\* The row is read again, and only its quota numbers are looked at; when it
\* has gone, the cached key stands in for it.
Check(s) ==
    /\ Admissible(snap[s])
    /\ Decide(s, IF row.exists THEN Scanned ELSE snap[s])
    /\ UNCHANGED <<row, cache, day, admins, history>>

\* The error of the second read is dropped: the cached key stands in.
CheckFailed(s) ==
    /\ Admissible(snap[s])
    /\ blind < MaxBlind
    /\ Decide(s, snap[s])
    /\ blind' = IF Blocked(snap[s]) THEN blind ELSE blind + 1
    /\ UNCHANGED <<row, cache, day, admins, closedFor, today>>

\* The response has been sent; its usage is recorded by a goroutine.
Respond(s) ==
    /\ Goto(s, "serving", "recording")
    /\ UNCHANGED <<row, cache, day, snap, age, admins, history>>

\* A request that fails before the upstream has answered has no usage, and an
\* error of the goroutine that records it is dropped.
Fail(s) ==
    /\ \E from \in {"serving", "recording"} : Goto(s, from, "idle")
    /\ UNCHANGED <<row, cache, day, snap, age, admins, history>>

\* Fault: negative counts are not clamped.
TokensUnclamped(n) == n

Tokens(n) == IF n < 0 THEN 0 ELSE n

\* Fault: the daily counters are never rolled over.
UsedNeverRolled(r, n) == [r EXCEPT !.used = @ + n, !.daily = @ + n]

\* RecordUsage's UPDATE: one statement, which rolls the daily counters over
\* when midnight has passed since they were last reset.
Used(r, n) ==
    [r EXCEPT !.used = @ + n,
              !.daily = IF r.resetDay < day THEN n ELSE @ + n,
              !.resetDay = IF @ < day THEN day ELSE @]

Record(s, n) ==
    /\ Goto(s, "recording", "idle")
    /\ row' = IF row.exists THEN Used(row, Tokens(n)) ELSE row
    /\ today' = IF row.exists THEN today + Tokens(n) ELSE today
    /\ UNCHANGED <<cache, day, snap, age, admins, closedFor, blind>>

----------------------------------------------------------------------------
(* The panel.                                                              *)

AdminGoto(a, from, to) == adminPc[a] = from /\ adminPc' = [adminPc EXCEPT ![a] = to]

\* An UPDATE or DELETE leaves r of the row, if there is one; noted is when the
\* key stops being usable.
Write(r) ==
    /\ row' = IF row.exists THEN r ELSE row
    /\ closedFor' = IF row.exists /\ Usable(r) THEN 0
                   ELSE IF Usable(row) THEN 0
                   ELSE closedFor

\* PUT that omits "enabled": the handler reads the row to keep its value ...
UpdateRead(a) ==
    /\ AdminGoto(a, "idle", "update")
    /\ pending' = [pending EXCEPT ![a] = row.enabled]
    /\ UNCHANGED <<row, cache, day, requests, history>>

\* ... and writes all mutable fields.
UpdateWrite(a) ==
    /\ AdminGoto(a, "update", "written")
    /\ Write([row EXCEPT !.enabled = pending[a]])
    /\ pending' = [pending EXCEPT ![a] = FALSE]
    /\ UNCHANGED <<cache, day, requests, today, blind>>

\* PUT with "enabled": no read.
SetEnabled(a, e) ==
    /\ AdminGoto(a, "idle", "written")
    /\ Write([row EXCEPT !.enabled = e])
    /\ UNCHANGED <<cache, day, requests, pending, today, blind>>

Delete(a) ==
    /\ AdminGoto(a, "idle", "written")
    /\ Write([row EXCEPT !.exists = FALSE])
    /\ UNCHANGED <<cache, day, requests, pending, today, blind>>

\* ResetUsage zeroes the counters and stamps the row with the current time.
Reset(a) ==
    /\ AdminGoto(a, "idle", "written")
    /\ Write([row EXCEPT !.used = 0, !.daily = 0, !.resetDay = day])
    /\ today' = IF row.exists THEN 0 ELSE today
    /\ UNCHANGED <<cache, day, requests, pending, blind>>

\* Each handler ends by dropping the cache, in a step of its own.
Invalidate(a) ==
    /\ AdminGoto(a, "written", "idle")
    /\ cache' = NoCache
    /\ UNCHANGED <<row, day, requests, pending, history>>

----------------------------------------------------------------------------
(* Time and failures.                                                      *)

Aged(n, most) == IF n < most THEN n + 1 ELSE n

\* A tick of the clock.  MaxFill says how long a lookup may stay between its
\* read and its store.
Tick ==
    /\ \A s \in Slots : pc[s] = "fill" => age[s] < MaxFill
    /\ age' = [s \in Slots |-> IF pc[s] = "fill" THEN age[s] + 1 ELSE age[s]]
    /\ cache' = IF ~Live \/ cache.left = 1 THEN NoCache ELSE [cache EXCEPT !.left = @ - 1]
    /\ closedFor' = IF Usable(row) THEN 0 ELSE Aged(closedFor, Window)
    /\ UNCHANGED <<row, day, pc, snap, admins, today, blind>>

Midnight ==
    /\ day < MaxDay
    /\ day' = day + 1
    /\ today' = 0
    /\ UNCHANGED <<row, cache, requests, admins, closedFor, blind>>

\* The process stops and starts again: the row survives, everything in memory
\* is lost, with the usage that was still to be recorded.
Restart ==
    /\ cache' = NoCache
    /\ pc' = [s \in Slots |-> "idle"]
    /\ snap' = [s \in Slots |-> Absent]
    /\ age' = [s \in Slots |-> 0]
    /\ adminPc' = [a \in Admins |-> "idle"]
    /\ pending' = [a \in Admins |-> FALSE]
    /\ UNCHANGED <<row, day, history>>

----------------------------------------------------------------------------

Request(s) ==
    \/ LookupHit(s)
    \/ LookupMiss(s)
    \/ Fill(s)
    \/ TurnAway(s)
    \/ Check(s)
    \/ CheckFailed(s)
    \/ Respond(s)
    \/ Fail(s)
    \/ \E n \in Costs : Record(s, n)

Panel(a) ==
    \/ UpdateRead(a)
    \/ UpdateWrite(a)
    \/ \E e \in BOOLEAN : SetEnabled(a, e)
    \/ Delete(a)
    \/ Reset(a)
    \/ Invalidate(a)

Next ==
    \/ \E s \in Slots : Request(s)
    \/ \E a \in Admins : Panel(a)
    \/ Tick
    \/ Midnight
    \/ Restart

Spec == Init /\ [][Next]_vars

----------------------------------------------------------------------------
(* Properties.                                                             *)

Rows == [exists : BOOLEAN, enabled : BOOLEAN, used : Nat, daily : Nat,
         resetDay : -1 .. MaxDay]

\* Types; no counter of a row is ever negative, whatever the upstream reports.
TypeOK ==
    /\ row \in Rows
    /\ cache \in [key : Keys \cup {Absent}, left : 1 .. TTL] \cup {NoCache}
    /\ day \in 0 .. MaxDay
    /\ pc \in [Slots -> {"idle", "fill", "gate", "serving", "recording"}]
    /\ snap \in [Slots -> Keys \cup {Absent}]
    /\ age \in [Slots -> 0 .. MaxFill]
    /\ adminPc \in [Admins -> {"idle", "update", "written"}]
    /\ pending \in [Admins -> BOOLEAN]
    /\ closedFor \in 0 .. Window
    /\ today \in Nat
    /\ blind \in 0 .. MaxBlind

\* Requests admitted whose usage is not in the row yet.
Outstanding == {s \in Slots : pc[s] \in {"serving", "recording"}}

\* Checking a quota and recording usage are far apart, but the overshoot is
\* bounded: every request in progress can add one request's tokens beyond the
\* last token of the quota, and so can each request admitted on the cached
\* numbers because its re-read failed.  Resets, midnight and restarts included.
OvershootBounded ==
    row.exists =>
        LET slack == MaxCost * (Cardinality(Slots) + blind)
            due == MaxCost * Cardinality(Outstanding)
        IN /\ Quota > 0 => row.used + due <= (Quota - 1) + slack
           /\ DailyLimit > 0 => EffectiveDaily + due <= (DailyLimit - 1) + slack

\* The daily counter is rolled over lazily, by whoever reads or records first,
\* and yet always reads as exactly what was recorded since the later of
\* midnight and the last reset.
DailyExact == row.exists => EffectiveDaily = today

\* However lookups race with the panel, a key that was disabled or deleted is
\* let in from the cache for less than the cache's lifetime plus the time one
\* lookup takes.
RevocationBounded ==
    Live /\ cache.key # Absent /\ ~Usable(row) =>
        (cache.key.enabled => closedFor < Window)
============================================================================
