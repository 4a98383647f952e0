-------------------------- MODULE ClientAuthProofs --------------------------
(***************************************************************************)
(* The safety properties of ClientAuth, for any number of requests and     *)
(* panel requests, any quotas and any lifetime of the cache.               *)
(***************************************************************************)
EXTENDS ClientAuth, FiniteSetTheorems, TLAPS

\* The row was never reset in the future.
Typed == TypeOK /\ row.resetDay <= day

LEMMA ScannedType == TypeOK => Scanned \in Keys \cup {Absent}
  BY DEF TypeOK, Rows, Scanned, Keys, EffectiveDaily

LEMMA TokensType ==
    ASSUME NEW n \in Costs
    PROVE  Tokens(n) \in Nat /\ Tokens(n) <= MaxCost
  BY AuthAssumption DEF Tokens

\* What recording n tokens does to the row.
LEMMA UsedType ==
    ASSUME Typed, NEW n \in Nat
    PROVE  /\ Used(row, n) \in Rows
           /\ Used(row, n).resetDay = day
           /\ Used(row, n).used = row.used + n
           /\ Used(row, n).daily = EffectiveDaily + n
           /\ Used(row, n).exists = row.exists
           /\ Used(row, n).enabled = row.enabled
  <1>1. /\ row \in Rows /\ row.resetDay <= day
        /\ row.resetDay \in Int /\ day \in 0 .. MaxDay
        /\ row.used \in Nat /\ row.daily \in Nat
        /\ row.exists \in BOOLEAN /\ row.enabled \in BOOLEAN
    BY DEF Typed, TypeOK, Rows
  <1>2. (IF row.resetDay < day THEN day ELSE row.resetDay) = day
    BY <1>1
  <1>3. (IF row.resetDay < day THEN n ELSE row.daily + n) = EffectiveDaily + n
    BY <1>1 DEF EffectiveDaily
  <1>4. Used(row, n) = [row EXCEPT !.used = row.used + n,
                                   !.daily = EffectiveDaily + n, !.resetDay = day]
    BY <1>2, <1>3 DEF Used
  <1>5. EffectiveDaily + n \in Nat /\ row.used + n \in Nat /\ day \in -1 .. MaxDay
    BY <1>1, AuthAssumption DEF EffectiveDaily
  <1> QED
    BY <1>1, <1>4, <1>5 DEF Rows

----------------------------------------------------------------------------
(* Type correctness.                                                       *)

LEMMA TypedInit == Init => Typed
  BY AuthAssumption DEF Init, Typed, TypeOK, Rows, Window

\* A panel write that leaves a well-typed row.
LEMMA WriteTyped ==
    ASSUME Typed, NEW r, Write(r),
           r \in Rows,
           r.resetDay <= day
    PROVE  /\ row' \in Rows
           /\ row'.resetDay <= day
           /\ closedFor' \in 0 .. Window
  BY AuthAssumption DEF Typed, TypeOK, Write, Window

\* The rows the panel's statements leave.
LEMMA RowEdits ==
    ASSUME Typed
    PROVE  /\ \A e \in BOOLEAN : /\ [row EXCEPT !.enabled = e] \in Rows
                                /\ [row EXCEPT !.enabled = e].resetDay <= day
           /\ [row EXCEPT !.exists = FALSE] \in Rows
           /\ [row EXCEPT !.exists = FALSE].resetDay <= day
           /\ [row EXCEPT !.used = 0, !.daily = 0, !.resetDay = day] \in Rows
           /\ [row EXCEPT !.used = 0, !.daily = 0, !.resetDay = day].resetDay <= day
  <1>1. /\ row \in Rows /\ row.resetDay <= day
        /\ row.resetDay \in -1 .. MaxDay /\ day \in Nat /\ day \in -1 .. MaxDay
    BY AuthAssumption DEF Typed, TypeOK, Rows
  <1>2. \A e \in BOOLEAN : /\ [row EXCEPT !.enabled = e] \in Rows
                           /\ [row EXCEPT !.enabled = e].resetDay <= day
    BY <1>1 DEF Rows
  <1>3. /\ [row EXCEPT !.exists = FALSE] \in Rows
        /\ [row EXCEPT !.exists = FALSE].resetDay <= day
    BY <1>1 DEF Rows
  <1>4. /\ [row EXCEPT !.used = 0, !.daily = 0, !.resetDay = day] \in Rows
        /\ [row EXCEPT !.used = 0, !.daily = 0, !.resetDay = day].resetDay <= day
    <2>1. \A u, d \in Nat, t \in -1 .. MaxDay :
            /\ [row EXCEPT !.used = u, !.daily = d, !.resetDay = t] \in Rows
            /\ [row EXCEPT !.used = u, !.daily = d, !.resetDay = t].resetDay = t
      BY <1>1 DEF Rows
    <2>2. 0 \in Nat /\ day \in -1 .. MaxDay /\ day <= day
      BY <1>1
    <2>3. /\ [row EXCEPT !.used = 0, !.daily = 0, !.resetDay = day] \in Rows
          /\ [row EXCEPT !.used = 0, !.daily = 0, !.resetDay = day].resetDay = day
      BY <2>1, <2>2, Zenon
    <2> QED
      BY <2>2, <2>3, Zenon
  <1> QED
    BY <1>2, <1>3, <1>4

LEMMA TypedNext == Typed /\ [Next]_vars => Typed'
  <1> SUFFICES ASSUME Typed, [Next]_vars PROVE Typed'
    OBVIOUS
  <1>0. TypeOK /\ row.resetDay <= day
    BY DEF Typed
  <1> USE <1>0, AuthAssumption
  <1>1. ASSUME NEW s \in Slots, LookupHit(s) PROVE Typed'
    BY <1>1, AbsentAssumption
       DEF LookupHit, Live, Goto, Typed, TypeOK, admins, history
  <1>2. ASSUME NEW s \in Slots, LookupMiss(s) PROVE Typed'
    BY <1>2, ScannedType DEF LookupMiss, Goto, Typed, TypeOK, admins, history
  <1>3. ASSUME NEW s \in Slots, Fill(s) PROVE Typed'
    BY <1>3 DEF Fill, Goto, Typed, TypeOK, admins, history
  <1>4. ASSUME NEW s \in Slots, TurnAway(s) \/ Check(s) PROVE Typed'
    BY <1>4 DEF TurnAway, Check, Decide, Leave, Goto, Typed, TypeOK, admins, history
  <1>5. ASSUME NEW s \in Slots, CheckFailed(s) PROVE Typed'
    BY <1>5 DEF CheckFailed, Decide, Leave, Goto, Typed, TypeOK, admins
  <1>6. ASSUME NEW s \in Slots, Respond(s) \/ Fail(s) PROVE Typed'
    BY <1>6 DEF Respond, Fail, Goto, Typed, TypeOK, admins, history
  <1>7. ASSUME NEW s \in Slots, NEW n \in Costs, Record(s, n) PROVE Typed'
    <2>1. row' \in Rows
          /\ row'.resetDay <= day
      BY <1>7, TokensType, UsedType DEF Record, TypeOK
    <2>2. today' \in Nat
      BY <1>7, TokensType DEF Record, TypeOK
    <2> QED
      BY <1>7, <2>1, <2>2 DEF Record, Goto, Typed, TypeOK, admins
  <1>8. ASSUME NEW a \in Admins, UpdateRead(a) PROVE Typed'
    BY <1>8 DEF UpdateRead, AdminGoto, Typed, TypeOK, Rows, requests, history
  <1>9. ASSUME NEW a \in Admins, UpdateWrite(a) PROVE Typed'
    <2>1. Write([row EXCEPT !.enabled = pending[a]]) /\ pending[a] \in BOOLEAN
      BY <1>9 DEF UpdateWrite, TypeOK
    <2>2. /\ row' \in Rows
          /\ row'.resetDay <= day /\ closedFor' \in 0 .. Window
      BY <2>1, RowEdits, WriteTyped
    <2> QED
      BY <1>9, <2>2 DEF UpdateWrite, AdminGoto, Typed, TypeOK, requests
  <1>10. ASSUME NEW a \in Admins, NEW e \in BOOLEAN, SetEnabled(a, e) PROVE Typed'
    <2>1. /\ row' \in Rows
          /\ row'.resetDay <= day /\ closedFor' \in 0 .. Window
      BY <1>10, RowEdits, WriteTyped DEF SetEnabled
    <2> QED
      BY <1>10, <2>1 DEF SetEnabled, AdminGoto, Typed, TypeOK, requests
  <1>11. ASSUME NEW a \in Admins, Delete(a) PROVE Typed'
    <2>1. /\ row' \in Rows
          /\ row'.resetDay <= day /\ closedFor' \in 0 .. Window
      BY <1>11, RowEdits, WriteTyped DEF Delete
    <2> QED
      BY <1>11, <2>1 DEF Delete, AdminGoto, Typed, TypeOK, requests
  <1>12. ASSUME NEW a \in Admins, Reset(a) PROVE Typed'
    <2>1. /\ row' \in Rows
          /\ row'.resetDay <= day /\ closedFor' \in 0 .. Window
      BY <1>12, RowEdits, WriteTyped DEF Reset
    <2> QED
      BY <1>12, <2>1 DEF Reset, AdminGoto, Typed, TypeOK, requests
  <1>13. ASSUME NEW a \in Admins, Invalidate(a) PROVE Typed'
    BY <1>13 DEF Invalidate, AdminGoto, Typed, TypeOK, requests, history
  <1>14. ASSUME Tick PROVE Typed'
    <2>1. age' \in [Slots -> 0 .. MaxFill]
      BY <1>14 DEF Tick, TypeOK
    <2>2. cache' \in [key : Keys \cup {Absent}, left : 1 .. TTL] \cup {NoCache}
      BY <1>14 DEF Tick, Live, TypeOK
    <2>3. closedFor' \in 0 .. Window
      BY <1>14 DEF Tick, Aged, Window, TypeOK
    <2> QED
      BY <1>14, <2>1, <2>2, <2>3 DEF Tick, Typed, TypeOK, admins
  <1>15. ASSUME Midnight PROVE Typed'
    <2>1. day' = day + 1 /\ day' \in 0 .. MaxDay /\ row'.resetDay <= day'
      BY <1>15 DEF Midnight, TypeOK, Rows
    <2> QED
      BY <1>15, <2>1 DEF Midnight, Typed, TypeOK, requests, admins
  <1>16. ASSUME Restart PROVE Typed'
    BY <1>16 DEF Restart, Typed, TypeOK, history
  <1>17. ASSUME UNCHANGED vars PROVE Typed'
    BY <1>17 DEF vars, Typed, TypeOK, requests, admins, history
  <1> QED
    BY <1>1, <1>2, <1>3, <1>4, <1>5, <1>6, <1>7, <1>8, <1>9, <1>10, <1>11,
       <1>12, <1>13, <1>14, <1>15, <1>16, <1>17 DEF Next, Request, Panel

\* Every variable keeps its type; counters never go below zero.
THEOREM TypeCorrect == Spec => []TypeOK
  <1>1. Typed => TypeOK
    BY DEF Typed
  <1> QED
    BY <1>1, TypedInit, TypedNext, PTL DEF Spec

----------------------------------------------------------------------------
(* The daily counter.                                                      *)

Daily == Typed /\ DailyExact

LEMMA DailyInit == Init => Daily
  BY TypedInit DEF Init, Daily, DailyExact, EffectiveDaily

\* A step that changes neither what was used today nor what reads as used.
LEMMA DailyKept ==
    ASSUME Daily, today' = today, day' = day,
           row'.exists => /\ row.exists
                          /\ row'.daily = row.daily
                          /\ row'.resetDay = row.resetDay
    PROVE  DailyExact'
  BY DEF Daily, DailyExact, EffectiveDaily

LEMMA DailyNext == Daily /\ [Next]_vars => Daily'
  <1> SUFFICES ASSUME Daily, [Next]_vars PROVE DailyExact'
    BY TypedNext DEF Daily
  <1>0. Typed /\ Typed' /\ row \in Rows /\ DailyExact
    BY TypedNext DEF Daily, Typed, TypeOK
  <1>1. ASSUME NEW s \in Slots, NEW n \in Costs, Record(s, n) PROVE DailyExact'
    <2>1. CASE row.exists
      <3>1. row' = Used(row, Tokens(n)) /\ today' = today + Tokens(n) /\ day' = day
        BY <1>1, <2>1 DEF Record
      <3>2. row'.resetDay = day /\ row'.daily = EffectiveDaily + Tokens(n)
        BY <1>0, <3>1, TokensType, UsedType
      <3>3. EffectiveDaily' = EffectiveDaily + Tokens(n)
        <4>1. ~(day < day)
          BY <1>0 DEF Typed, TypeOK
        <4> QED
          BY <3>1, <3>2, <4>1 DEF EffectiveDaily
      <3> QED
        BY <1>0, <2>1, <3>1, <3>3 DEF DailyExact
    <2>2. CASE ~row.exists
      BY <1>1, <2>2 DEF Record, DailyExact
    <2> QED
      BY <2>1, <2>2
  <1>2. ASSUME NEW a \in Admins, UpdateWrite(a) PROVE DailyExact'
    <2>1. \/ row' = row
          \/ row' = [row EXCEPT !.enabled = pending[a]]
      BY <1>2 DEF UpdateWrite, Write
    <2>2. /\ row'.exists = row.exists /\ row'.daily = row.daily
          /\ row'.resetDay = row.resetDay
      BY <1>0, <2>1 DEF Rows
    <2> QED
      BY <1>2, <2>2, DailyKept DEF UpdateWrite
  <1>3. ASSUME NEW a \in Admins, NEW e \in BOOLEAN, SetEnabled(a, e) PROVE DailyExact'
    <2>1. \/ row' = row
          \/ row' = [row EXCEPT !.enabled = e]
      BY <1>3 DEF SetEnabled, Write
    <2>2. /\ row'.exists = row.exists /\ row'.daily = row.daily
          /\ row'.resetDay = row.resetDay
      BY <1>0, <2>1 DEF Rows
    <2> QED
      BY <1>3, <2>2, DailyKept DEF SetEnabled
  <1>4. ASSUME NEW a \in Admins, Delete(a) PROVE DailyExact'
    <2>1. ~row'.exists
      BY <1>0, <1>4 DEF Delete, Write, Rows
    <2> QED
      BY <2>1 DEF DailyExact
  <1>5. ASSUME NEW a \in Admins, Reset(a) PROVE DailyExact'
    <2>1. CASE row.exists
      <3>1. row'.daily = 0
        BY <1>0, <1>5, <2>1 DEF Reset, Write, Rows
      <3>2. today' = 0
        BY <1>5, <2>1 DEF Reset
      <3> QED
        BY <3>1, <3>2 DEF DailyExact, EffectiveDaily
    <2>2. CASE ~row.exists
      BY <1>5, <2>2 DEF Reset, Write, DailyExact
    <2> QED
      BY <2>1, <2>2
  <1>6. ASSUME Midnight PROVE DailyExact'
    <2>1. row' = row /\ day' = day + 1 /\ today' = 0
      BY <1>6 DEF Midnight
    <2>2. row'.resetDay < day'
      BY <1>0, <2>1 DEF Typed, TypeOK, Rows
    <2> QED
      BY <2>1, <2>2 DEF DailyExact, EffectiveDaily
  <1>7. ASSUME \/ \E s \in Slots : \/ LookupHit(s) \/ LookupMiss(s) \/ Fill(s)
                                   \/ TurnAway(s) \/ Check(s) \/ CheckFailed(s)
                                   \/ Respond(s) \/ Fail(s)
               \/ \E a \in Admins : UpdateRead(a) \/ Invalidate(a)
               \/ Tick \/ Restart \/ UNCHANGED vars
        PROVE DailyExact'
    <2>1. row' = row /\ today' = today /\ day' = day
      BY <1>7 DEF LookupHit, LookupMiss, Fill, TurnAway, Check, CheckFailed, Respond,
                  Fail, UpdateRead, Invalidate, Tick, Restart, vars, history
    <2> QED
      BY <2>1, DailyKept
  <1> QED
    BY <1>1, <1>2, <1>3, <1>4, <1>5, <1>6, <1>7 DEF Next, Request, Panel

\* The lazily rolled-over daily counter reads as what was recorded today.
THEOREM DailyCounterExact == Spec => []DailyExact
  <1>1. Daily => DailyExact
    BY DEF Daily
  <1> QED
    BY <1>1, DailyInit, DailyNext, PTL DEF Spec

----------------------------------------------------------------------------
(* Revocation.                                                             *)

\* A cached key that is out of date was read before the key was closed, and so
\* was one that a lookup is about to store.
Stale ==
    /\ Live /\ cache.key # Absent /\ cache.key.enabled /\ ~Usable(row)
          => closedFor + cache.left <= Window
    /\ \A s \in Slots :
          pc[s] = "fill" /\ snap[s] # Absent /\ snap[s].enabled /\ ~Usable(row)
             => closedFor <= age[s]

Revocation == Typed /\ Stale

LEMMA RevocationInit == Init => Revocation
  BY TypedInit DEF Init, Revocation, Stale, Live

\* A step that at most closes the key, at time zero.
LEMMA StaleKept ==
    ASSUME Revocation, Typed', cache' = cache \/ cache' = NoCache,
           \A s \in Slots : pc'[s] = "fill" => /\ pc[s] = "fill"
                                               /\ snap'[s] = snap[s]
                                               /\ age'[s] = age[s],
           ~Usable(row)' => closedFor' = 0 \/ (~Usable(row) /\ closedFor' = closedFor)
    PROVE  Stale'
  <1>0. TypeOK /\ TypeOK' /\ Stale
    BY DEF Revocation, Typed
  <1>1. ASSUME Live', cache'.key # Absent, cache'.key.enabled, ~Usable(row)'
        PROVE  closedFor' + cache'.left <= Window
    BY <1>0, <1>1, AuthAssumption DEF Stale, Live, TypeOK, Window
  <1>2. ASSUME NEW s \in Slots, pc'[s] = "fill", snap'[s] # Absent,
               snap'[s].enabled, ~Usable(row)'
        PROVE  closedFor' <= age'[s]
    BY <1>0, <1>2, AuthAssumption DEF Stale, TypeOK
  <1> QED
    BY <1>1, <1>2 DEF Stale

LEMMA RevocationNext == Revocation /\ [Next]_vars => Revocation'
  <1> SUFFICES ASSUME Revocation, [Next]_vars PROVE Stale'
    BY TypedNext DEF Revocation
  <1>0. Typed /\ Typed' /\ TypeOK /\ Stale /\ row \in Rows
    BY TypedNext DEF Revocation, Typed, TypeOK
  <1>1. ASSUME NEW s \in Slots, LookupMiss(s) PROVE Stale'
    <2>1. Scanned # Absent /\ Scanned.enabled => Usable(row)
      BY DEF Scanned, Usable
    <2>2. /\ cache' = cache /\ row' = row /\ closedFor' = closedFor
          /\ snap' = [snap EXCEPT ![s] = Scanned]
          /\ \A t \in Slots : t # s => pc'[t] = pc[t] /\ age'[t] = age[t]
      BY <1>0, <1>1 DEF LookupMiss, Goto, history, TypeOK
    <2> QED
      BY <1>0, <2>1, <2>2 DEF Stale, Live, Usable, TypeOK
  <1>2. ASSUME NEW s \in Slots, Fill(s) PROVE Stale'
    <2>1. /\ cache' = [key |-> snap[s], left |-> TTL] /\ pc[s] = "fill"
          /\ row' = row /\ closedFor' = closedFor /\ snap' = snap
          /\ \A t \in Slots : pc'[t] = "fill" => pc[t] = "fill" /\ age'[t] = age[t]
      BY <1>0, <1>2 DEF Fill, Goto, history, TypeOK
    <2>2. snap[s] # Absent /\ snap[s].enabled /\ ~Usable(row) => closedFor + TTL <= Window
      BY <1>0, <2>1, AuthAssumption DEF Stale, Window, TypeOK
    <2> QED
      BY <1>0, <2>1, <2>2 DEF Stale, Usable
  <1>3. ASSUME NEW s \in Slots, NEW n \in Costs, Record(s, n) PROVE Stale'
    <2>1. Usable(row)' = Usable(row)
      BY <1>0, <1>3, TokensType, UsedType DEF Record, Usable
    <2>2. /\ cache' = cache /\ closedFor' = closedFor
          /\ snap' = snap /\ age' = age
          /\ \A t \in Slots : pc'[t] = "fill" => pc[t] = "fill"
      BY <1>0, <1>3 DEF Record, Goto, TypeOK
    <2> QED
      BY <1>0, <2>1, <2>2, StaleKept
  <1>4. ASSUME NEW s \in Slots,
               \/ LookupHit(s) \/ TurnAway(s) \/ Check(s) \/ CheckFailed(s)
               \/ Respond(s) \/ Fail(s)
        PROVE Stale'
    <2>1. /\ cache' = cache /\ row' = row /\ closedFor' = closedFor
          /\ \A t \in Slots : pc'[t] = "fill" =>
                pc[t] = "fill" /\ snap'[t] = snap[t] /\ age'[t] = age[t]
      BY <1>0, <1>4 DEF LookupHit, TurnAway, Check, CheckFailed, Respond, Fail, Decide,
                        Leave, Goto, history, TypeOK
    <2> QED
      BY <1>0, <2>1, StaleKept DEF Usable
  <1>5. ASSUME NEW a \in Admins,
               \/ UpdateWrite(a) \/ Delete(a) \/ Reset(a)
               \/ \E e \in BOOLEAN : SetEnabled(a, e)
        PROVE Stale'
    <2>1. PICK r : Write(r)
      BY <1>5 DEF UpdateWrite, Delete, Reset, SetEnabled
    <2>2. ~Usable(row)' => closedFor' = 0 \/ (~Usable(row) /\ closedFor' = closedFor)
      BY <2>1 DEF Write, Usable
    <2>3. cache' = cache /\ pc' = pc /\ snap' = snap /\ age' = age
      BY <1>5 DEF UpdateWrite, Delete, Reset, SetEnabled, requests
    <2> QED
      BY <1>0, <2>2, <2>3, StaleKept
  <1>6. ASSUME NEW a \in Admins, UpdateRead(a) \/ Invalidate(a) PROVE Stale'
    <2>1. /\ cache' = cache \/ cache' = NoCache
          /\ row' = row /\ closedFor' = closedFor
          /\ pc' = pc /\ snap' = snap /\ age' = age
      BY <1>6 DEF UpdateRead, Invalidate, requests, history
    <2> QED
      BY <1>0, <2>1, StaleKept DEF Usable
  <1>7. ASSUME Tick PROVE Stale'
    <2>1. /\ row' = row /\ pc' = pc /\ snap' = snap
          /\ \A s \in Slots : pc[s] = "fill" => age'[s] = age[s] + 1
          /\ ~Usable(row) => closedFor' <= closedFor + 1
      BY <1>0, <1>7 DEF Tick, Aged, TypeOK, Window
    <2>2. Live' => /\ Live /\ cache'.key = cache.key
                   /\ cache'.left = cache.left - 1
      BY <1>0, <1>7 DEF Tick, Live, TypeOK
    <2>3. ASSUME Live', cache'.key # Absent, cache'.key.enabled, ~Usable(row)'
          PROVE  closedFor' + cache'.left <= Window
      <3>1. closedFor + cache.left <= Window /\ closedFor' <= closedFor + 1
        BY <1>0, <2>1, <2>2, <2>3 DEF Stale, Usable
      <3>2. /\ closedFor \in Int /\ closedFor' \in Int /\ cache.left \in Int
            /\ Window \in Int
        BY <1>0, <2>2, <2>3, AuthAssumption DEF Typed, TypeOK, Live, Window
      <3> QED
        BY <2>2, <2>3, <3>1, <3>2
    <2>4. ASSUME NEW s \in Slots, pc'[s] = "fill", snap'[s] # Absent,
                 snap'[s].enabled, ~Usable(row)'
          PROVE  closedFor' <= age'[s]
      <3>1. closedFor <= age[s] /\ age'[s] = age[s] + 1 /\ closedFor' <= closedFor + 1
        BY <1>0, <2>1, <2>4 DEF Stale, Usable
      <3>2. closedFor \in Int /\ closedFor' \in Int /\ age[s] \in Int
        BY <1>0, AuthAssumption DEF Typed, TypeOK, Window
      <3> QED
        BY <3>1, <3>2
    <2> QED
      BY <2>3, <2>4 DEF Stale
  <1>8. ASSUME Midnight \/ Restart \/ UNCHANGED vars PROVE Stale'
    <2>1. /\ cache' = cache \/ cache' = NoCache
          /\ row' = row /\ closedFor' = closedFor
          /\ \A s \in Slots : pc'[s] = "fill" =>
                pc[s] = "fill" /\ snap'[s] = snap[s] /\ age'[s] = age[s]
      BY <1>8 DEF Midnight, Restart, vars, requests, history
    <2> QED
      BY <1>0, <2>1, StaleKept DEF Usable
  <1> QED
    BY <1>1, <1>2, <1>3, <1>4, <1>5, <1>6, <1>7, <1>8 DEF Next, Request, Panel

\* A closed key is let in from the cache for a bounded time, however lookups
\* and the panel interleave.
THEOREM RevocationTakesEffect == Spec => []RevocationBounded
  <1>1. Revocation => RevocationBounded
    BY AuthAssumption DEF Revocation, Typed, TypeOK, Stale, RevocationBounded, Live, Window
  <1> QED
    BY <1>1, RevocationInit, RevocationNext, PTL DEF Spec

----------------------------------------------------------------------------
(* Quotas.                                                                 *)

\* Tokens that requests in progress may still add, and the most by which a
\* counter may pass its limit.
Due == MaxCost * Cardinality(Outstanding)
Slack == MaxCost * (Cardinality(Slots) + blind)

Within(limit, n) == limit > 0 => n + Due <= (limit - 1) + Slack

Quotas == Typed /\ OvershootBounded

LEMMA OvershootWithin ==
    OvershootBounded <=> (row.exists => Within(Quota, row.used)
                                        /\ Within(DailyLimit, EffectiveDaily))
  BY DEF OvershootBounded, Within, Due, Slack

LEMMA Product ==
    ASSUME NEW m \in Nat, NEW a \in Nat, NEW b \in Nat
    PROVE  /\ m * a \in Nat
           /\ m * (a + 1) = m * a + m
           /\ a <= b => m * a <= m * b
  OBVIOUS

\* There is never more outstanding than slack.
LEMMA DueType ==
    ASSUME TypeOK
    PROVE  /\ IsFiniteSet(Outstanding) /\ Cardinality(Outstanding) \in Nat
           /\ Cardinality(Slots) \in Nat
           /\ Due \in Nat /\ Slack \in Nat /\ Due <= Slack
  <1>1. /\ IsFiniteSet(Outstanding)
        /\ Cardinality(Outstanding) <= Cardinality(Slots)
    BY FS_Subset, AuthAssumption DEF Outstanding
  <1>2. Cardinality(Outstanding) \in Nat /\ Cardinality(Slots) \in Nat
    BY <1>1, FS_CardinalityType, AuthAssumption
  <1>3. blind \in Nat /\ MaxCost \in Nat
    BY AuthAssumption DEF TypeOK
  <1>4. Cardinality(Outstanding) <= Cardinality(Slots) + blind
        /\ Cardinality(Slots) + blind \in Nat
    BY <1>1, <1>2, <1>3
  <1> QED
    BY <1>1, <1>2, <1>3, <1>4, Product DEF Due, Slack

\* Fewer requests in progress, the same counters.
LEMMA WithinKept ==
    ASSUME Quotas, TypeOK', Outstanding' \subseteq Outstanding, blind' = blind,
           row' = row, day' = day
    PROVE  OvershootBounded'
  <1>1. TypeOK /\ row \in Rows
    BY DEF Quotas, Typed, TypeOK
  <1>2. Cardinality(Outstanding') <= Cardinality(Outstanding)
    BY <1>1, DueType, FS_Subset
  <1>3. Cardinality(Outstanding') \in Nat /\ Cardinality(Outstanding) \in Nat
    BY <1>1, <1>2, DueType, FS_Subset, FS_CardinalityType
  <1>4. Due' <= Due /\ Due' \in Nat /\ Due \in Nat /\ Slack \in Nat
    BY <1>1, <1>2, <1>3, DueType, Product, AuthAssumption DEF Due
  <1>5. Slack' = Slack
    BY DEF Slack
  <1>6. row'.used = row.used /\ EffectiveDaily' = EffectiveDaily /\ row'.exists = row.exists
    BY DEF EffectiveDaily
  <1>7. row.used \in Nat /\ EffectiveDaily \in Nat
    BY <1>1 DEF Rows, EffectiveDaily
  <1> QED
    BY <1>4, <1>5, <1>6, <1>7, AuthAssumption
       DEF Quotas, OvershootBounded, Due, Slack

\* A counter that is below its limit, or zero, is within it whatever is
\* outstanding.
LEMMA WithinBelow ==
    ASSUME TypeOK, NEW limit \in Nat, NEW n \in Nat, n = 0 \/ n < limit
    PROVE  Within(limit, n)
  BY DueType DEF Within

LEMMA QuotasInit == Init => Quotas
  <1> SUFFICES ASSUME Init PROVE Quotas
    OBVIOUS
  <1>1. Typed /\ TypeOK
    BY TypedInit DEF Typed
  <1>2. row.used = 0 /\ EffectiveDaily = 0
    BY DEF Init, EffectiveDaily
  <1> QED
    BY <1>1, <1>2, WithinBelow, OvershootWithin, AuthAssumption DEF Quotas

LEMMA QuotasNext == Quotas /\ [Next]_vars => Quotas'
  <1> SUFFICES ASSUME Quotas, [Next]_vars PROVE OvershootBounded'
    BY TypedNext DEF Quotas
  <1>0. Typed /\ Typed' /\ TypeOK /\ TypeOK' /\ row \in Rows /\ row' \in Rows
    BY TypedNext DEF Quotas, Typed, TypeOK
  <1>a. /\ row.used \in Nat /\ EffectiveDaily \in Nat
        /\ row'.used \in Nat /\ EffectiveDaily' \in Nat
        /\ MaxCost \in Nat /\ Quota \in Nat /\ DailyLimit \in Nat
    BY <1>0, AuthAssumption DEF Rows, EffectiveDaily
  <1>b. /\ Due \in Nat /\ Slack \in Nat /\ Due <= Slack
        /\ Due' \in Nat /\ Slack' \in Nat /\ Due' <= Slack'
    <2>1. Due \in Nat /\ Slack \in Nat /\ Due <= Slack
      BY <1>0, DueType
    <2>2. (Due \in Nat /\ Slack \in Nat /\ Due <= Slack)'
      BY <1>0, DueType, PTL
    <2> QED
      BY <2>1, <2>2
  <1>1. ASSUME NEW s \in Slots, NEW k \in Keys, Admissible(snap[s]), Decide(s, k),
               row' = row, day' = day,
               \/ blind' = blind /\ (row.exists => k = Scanned)
               \/ k = snap[s] /\ blind' = IF Blocked(k) THEN blind ELSE blind + 1
        PROVE OvershootBounded'
    <2>1. CASE Blocked(k)
      <3>1. Outstanding' \subseteq Outstanding
        BY <1>0, <1>1, <2>1 DEF Decide, Leave, Goto, Outstanding, TypeOK
      <3>2. blind' = blind
        BY <1>1, <2>1
      <3> QED
        BY <1>0, <1>1, <3>1, <3>2, WithinKept
    <2>2. CASE ~Blocked(k) /\ row.exists /\ blind' = blind /\ k = Scanned
      <3>1. /\ Quota > 0 => row.used < Quota
            /\ DailyLimit > 0 => EffectiveDaily < DailyLimit
        BY <1>a, <2>2 DEF Blocked, Exhausted, Scanned
      <3>2. row'.used = row.used /\ EffectiveDaily' = EffectiveDaily
        BY <1>1 DEF EffectiveDaily
      <3> QED
        BY <1>a, <1>b, <3>1, <3>2 DEF OvershootBounded, Due, Slack
    <2>3. CASE ~row.exists
      BY <1>1, <2>3 DEF OvershootBounded
    <2>4. CASE ~Blocked(k) /\ blind' = blind + 1
      <3>1. Outstanding' = Outstanding \cup {s} /\ s \notin Outstanding
        BY <1>0, <1>1, <2>4 DEF Decide, Leave, Goto, Outstanding, TypeOK
      <3>2. /\ Cardinality(Outstanding') = Cardinality(Outstanding) + 1
            /\ Cardinality(Outstanding) \in Nat /\ Cardinality(Slots) \in Nat
        BY <1>0, <3>1, DueType, FS_AddElement
      <3>3. Due' = Due + MaxCost
        BY <1>a, <3>2, Product DEF Due
      <3>4. Slack' = Slack + MaxCost
        <4>1. blind \in Nat /\ blind' = blind + 1
          BY <1>0, <2>4, AuthAssumption DEF TypeOK
        <4>2. Cardinality(Slots) + blind' = (Cardinality(Slots) + blind) + 1
              /\ Cardinality(Slots) + blind \in Nat
          BY <3>2, <4>1
        <4> QED
          BY <1>a, <4>2, Product DEF Slack
      <3>5. /\ row'.used = row.used /\ EffectiveDaily' = EffectiveDaily
            /\ row'.exists = row.exists
        BY <1>1 DEF EffectiveDaily
      <3> QED
        BY <1>a, <1>b, <3>3, <3>4, <3>5 DEF Quotas, OvershootBounded, Due, Slack
    <2> QED
      BY <1>1, <2>1, <2>2, <2>3, <2>4
  <1>2. ASSUME NEW s \in Slots, Check(s) \/ CheckFailed(s) PROVE OvershootBounded'
    <2>1. snap[s] \in Keys /\ Admissible(snap[s]) /\ row' = row /\ day' = day
      BY <1>0, <1>2 DEF Check, CheckFailed, Admissible, TypeOK
    <2>2. CASE Check(s)
      <3>1. (IF row.exists THEN Scanned ELSE snap[s]) \in Keys
        BY <1>0, <2>1, <1>a DEF Scanned, Keys, Rows
      <3> QED
        BY <1>1, <2>1, <2>2, <3>1 DEF Check, history
    <2>3. CASE CheckFailed(s)
      BY <1>1, <2>1, <2>3 DEF CheckFailed
    <2> QED
      BY <1>2, <2>2, <2>3
  <1>3. ASSUME NEW s \in Slots, NEW n \in Costs, Record(s, n) PROVE OvershootBounded'
    <2>1. CASE row.exists
      <3>1. Outstanding' = Outstanding \ {s} /\ s \in Outstanding
        BY <1>0, <1>3 DEF Record, Goto, Outstanding, TypeOK
      <3>2. /\ Cardinality(Outstanding) = Cardinality(Outstanding') + 1
            /\ Cardinality(Outstanding') \in Nat
        <4>1. IsFiniteSet(Outstanding) /\ Cardinality(Outstanding) \in Nat
          BY <1>0, DueType
        <4>2. /\ IsFiniteSet(Outstanding')
              /\ Cardinality(Outstanding') = Cardinality(Outstanding) - 1
          BY <3>1, <4>1, FS_RemoveElement
        <4>3. Cardinality(Outstanding') \in Nat
          BY <4>2, FS_CardinalityType
        <4> QED
          BY <4>1, <4>2, <4>3
      <3>3. Due = Due' + MaxCost
        BY <1>a, <3>2, Product DEF Due
      <3>4. Slack' = Slack
        BY <1>3 DEF Record, Slack
      <3>5. /\ row' = Used(row, Tokens(n)) /\ day' = day
            /\ Tokens(n) \in Nat /\ Tokens(n) <= MaxCost
        BY <1>3, <2>1, TokensType DEF Record
      <3>6. /\ row'.used = row.used + Tokens(n) /\ row'.resetDay = day
            /\ row'.daily = EffectiveDaily + Tokens(n)
        BY <1>0, <3>5, UsedType
      <3>7. EffectiveDaily' = EffectiveDaily + Tokens(n)
        BY <1>0, <3>5, <3>6 DEF EffectiveDaily, TypeOK
      <3>8. /\ Quota > 0 => row.used + Due <= (Quota - 1) + Slack
            /\ DailyLimit > 0 => EffectiveDaily + Due <= (DailyLimit - 1) + Slack
        BY <2>1 DEF Quotas, OvershootBounded, Due, Slack
      <3>9. /\ Quota > 0 => row'.used + Due' <= (Quota - 1) + Slack'
            /\ DailyLimit > 0 => EffectiveDaily' + Due' <= (DailyLimit - 1) + Slack'
        <4>1. \A used, more, limit, due, slack \in Nat :
                 /\ more <= MaxCost
                 /\ used + (due + MaxCost) <= (limit - 1) + slack
                 => (used + more) + due <= (limit - 1) + slack
          BY <1>a
        <4>2. Quota > 0 => row'.used + Due' <= (Quota - 1) + Slack'
          BY <1>a, <1>b, <3>3, <3>4, <3>5, <3>6, <3>8, <4>1
        <4>3. DailyLimit > 0 => EffectiveDaily' + Due' <= (DailyLimit - 1) + Slack'
          BY <1>a, <1>b, <3>3, <3>4, <3>5, <3>7, <3>8, <4>1
        <4> QED
          BY <4>2, <4>3
      <3> QED
        BY <3>9 DEF OvershootBounded, Due, Slack
    <2>2. CASE ~row.exists
      BY <1>3, <2>2 DEF Record, OvershootBounded
    <2> QED
      BY <2>1, <2>2
  <1>4. ASSUME NEW s \in Slots,
               \/ LookupHit(s) \/ LookupMiss(s) \/ Fill(s) \/ TurnAway(s)
               \/ Respond(s) \/ Fail(s)
        PROVE OvershootBounded'
    <2>1. Outstanding' \subseteq Outstanding
      BY <1>0, <1>4 DEF LookupHit, LookupMiss, Fill, TurnAway, Respond, Fail,
                        Leave, Goto, Outstanding, TypeOK
    <2>2. blind' = blind /\ row' = row /\ day' = day
      BY <1>4 DEF LookupHit, LookupMiss, Fill, TurnAway, Respond, Fail, history
    <2> QED
      BY <1>0, <2>1, <2>2, WithinKept
  <1>5. ASSUME NEW a \in Admins,
               UpdateWrite(a) \/ \E e \in BOOLEAN : SetEnabled(a, e)
        PROVE OvershootBounded'
    <2>1. \/ row' = row
          \/ \E e \in BOOLEAN : row' = [row EXCEPT !.enabled = e]
      BY <1>0, <1>5 DEF UpdateWrite, SetEnabled, Write, TypeOK
    <2>2. /\ row'.exists = row.exists /\ row'.used = row.used
          /\ row'.daily = row.daily /\ row'.resetDay = row.resetDay
      BY <1>0, <2>1 DEF Rows
    <2>3. day' = day /\ blind' = blind /\ pc' = pc
      BY <1>5 DEF UpdateWrite, SetEnabled, requests
    <2>4. EffectiveDaily' = EffectiveDaily /\ Outstanding' = Outstanding
      BY <2>2, <2>3 DEF EffectiveDaily, Outstanding
    <2> QED
      BY <2>2, <2>3, <2>4 DEF Quotas, OvershootBounded
  <1>6. ASSUME NEW a \in Admins, Delete(a) PROVE OvershootBounded'
    <2>1. ~row'.exists
      BY <1>0, <1>6 DEF Delete, Write, Rows
    <2> QED
      BY <2>1 DEF OvershootBounded
  <1>7. ASSUME NEW a \in Admins, Reset(a) PROVE OvershootBounded'
    <2>1. CASE row.exists
      <3>1. row'.used = 0 /\ row'.daily = 0
        BY <1>0, <1>7, <2>1 DEF Reset, Write, Rows
      <3>2. EffectiveDaily' = 0
        BY <3>1 DEF EffectiveDaily
      <3> QED
        BY <1>a, <1>b, <3>1, <3>2 DEF OvershootBounded, Due, Slack
    <2>2. CASE ~row.exists
      BY <1>7, <2>2 DEF Reset, Write, OvershootBounded
    <2> QED
      BY <2>1, <2>2
  <1>8. ASSUME Midnight PROVE OvershootBounded'
    <2>1. row' = row /\ day' = day + 1 /\ blind' = blind /\ pc' = pc
      BY <1>8 DEF Midnight, requests
    <2>2. EffectiveDaily' = 0
      BY <1>0, <2>1 DEF EffectiveDaily, Typed, TypeOK, Rows
    <2>3. Due' = Due /\ Slack' = Slack
      BY <2>1 DEF Due, Slack, Outstanding
    <2> QED
      BY <1>a, <1>b, <2>1, <2>2, <2>3 DEF Quotas, OvershootBounded, Due, Slack
  <1>9. ASSUME \/ \E a \in Admins : UpdateRead(a) \/ Invalidate(a)
               \/ Tick \/ Restart \/ UNCHANGED vars
        PROVE OvershootBounded'
    <2>1. Outstanding' \subseteq Outstanding
      BY <1>0, <1>9 DEF UpdateRead, Invalidate, Tick, Restart, vars, requests,
                        Outstanding, TypeOK
    <2>2. blind' = blind /\ row' = row /\ day' = day
      BY <1>9 DEF UpdateRead, Invalidate, Tick, Restart, vars, history
    <2> QED
      BY <1>0, <2>1, <2>2, WithinKept
  <1> QED
    BY <1>2, <1>3, <1>4, <1>5, <1>6, <1>7, <1>8, <1>9 DEF Next, Request, Panel

\* A quota is passed by no more than the requests in progress can use.
THEOREM QuotaOvershoot == Spec => []OvershootBounded
  <1>1. Quotas => OvershootBounded
    BY DEF Quotas
  <1> QED
    BY <1>1, QuotasInit, QuotasNext, PTL DEF Spec
=============================================================================
