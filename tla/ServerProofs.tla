---------------------------- MODULE ServerProofs ----------------------------
(***************************************************************************)
(* Theorems about two small parts of the server: the cooldown tracker      *)
(* (Cooldown) and the panel (Panel).  They share no state; their modules   *)
(* share no names, so that one module can speak of both.                   *)
(***************************************************************************)
EXTENDS Cooldown, Panel, SequenceTheorems, TLAPS

----------------------------------------------------------------------------
(* Cooldown.  The arithmetic of durations comes first: within the bounds   *)
(* nothing wraps around and no rounding is lost.                           *)

\* A sum that is in range is not changed by wrapping it around.
LEMMA NoWrap ==
    ASSUME NEW x \in Int, NEW h \in Nat, -h <= x, x < h
    PROVE  ((x + h) % (2 * h)) - h = x
<1>1. x + h \in Int /\ 0 <= x + h /\ x + h < 2 * h
  OBVIOUS
<1>2. (x + h) % (2 * h) = x + h
  BY <1>1
<1> QED
  BY <1>2

\* Seconds keep their order as durations.
LEMMA Monotone ==
    ASSUME NEW a \in Int, NEW b \in Int, NEW s \in Nat \ {0}, a <= b
    PROVE  a * s <= b * s
  OBVIOUS

\* A whole number of seconds is not changed by rounding.
LEMMA RoundExact ==
    ASSUME NEW k \in Nat, NEW s \in Nat \ {0}
    PROVE  (k * s + s \div 2) \div s = k
<1>1. s \div 2 \in Nat /\ s \div 2 < s
  OBVIOUS
<1> QED
  BY <1>1

\* A rounded duration lies between the seconds the duration lies between.
LEMMA RoundBetween ==
    ASSUME NEW a \in Nat, NEW b \in Nat, NEW s \in Nat \ {0}, NEW d \in Int,
           a * s <= d, d <= b * s
    PROVE  (d + s \div 2) \div s \in a .. b
<1>1. s \div 2 \in Nat /\ s \div 2 < s
  OBVIOUS
<1> DEFINE q == (d + s \div 2) \div s
<1>2. q \in Int /\ q * s <= d + s \div 2 /\ d + s \div 2 < (q + 1) * s
  BY <1>1
<1>3. a <= q
  <2>1. a * s < (q + 1) * s
    BY <1>1, <1>2
  <2> QED
    BY <2>1, <1>2
<1>4. q <= b
  <2>1. q * s < (b + 1) * s
    BY <1>1, <1>2
  <2> QED
    BY <2>1, <1>2
<1> QED
  BY <1>2, <1>3, <1>4

----------------------------------------------------------------------------
(* What a client is told.                                                  *)

Stamped(secs) == RetryAfter(clampCooldown(Duration(secs)))

LEMMA DurationIsInt ==
    ASSUME NEW secs \in Int
    PROVE  Duration(secs) \in Int
<1>1. 2 * Half \in Nat /\ 2 * Half > 0
  <2>1. Ceiling * Second >= 0
    BY CooldownAssumption
  <2> QED
    BY <2>1, CooldownAssumption
<1>2. secs * Second + Half \in Int
  BY CooldownAssumption
<1>3. (secs * Second + Half) % (2 * Half) \in Int
  BY <1>1, <1>2
<1> QED
  BY <1>3, CooldownAssumption DEF Duration

\* A clamped duration is between the floor and the ceiling.
LEMMA ClampBetween ==
    ASSUME NEW d \in Int
    PROVE  /\ clampCooldown(d) \in Int
           /\ Floor * Second <= clampCooldown(d)
           /\ clampCooldown(d) <= Ceiling * Second
<1>1. Floor * Second \in Int /\ Ceiling * Second \in Int
  BY CooldownAssumption
<1>2. Floor * Second <= Ceiling * Second
  BY Monotone, CooldownAssumption
<1> QED
  BY <1>1, <1>2 DEF clampCooldown

\* Whatever the upstream asked for, the client is told a wait in bounds.
LEMMA StampedInBounds ==
    ASSUME NEW secs \in Int
    PROVE  Stamped(secs) \in Floor .. Ceiling
<1> DEFINE d == clampCooldown(Duration(secs))
           q == (d + Second \div 2) \div Second
<1>1. d \in Int /\ Floor * Second <= d /\ d <= Ceiling * Second
  BY DurationIsInt, ClampBetween
<1> HIDE DEF d
<1>2. q \in Floor .. Ceiling
  BY <1>1, RoundBetween, CooldownAssumption
<1>3. q >= 1
  BY <1>2, CooldownAssumption
<1> HIDE DEF q
<1>4. RetryAfter(d) = IF q < 1 THEN 1 ELSE q
  BY DEF RetryAfter, q
<1>5. RetryAfter(d) = q
  BY <1>2, <1>3, <1>4, CooldownAssumption
<1> QED
  BY <1>2, <1>5 DEF Stamped, d

\* A wait in bounds is passed on to the second.
LEMMA StampedExactly ==
    ASSUME NEW secs \in Floor .. Ceiling
    PROVE  Stamped(secs) = secs
<1>1. secs \in Nat /\ Floor <= secs /\ secs <= Ceiling /\ secs >= 1
  BY CooldownAssumption
<1> DEFINE x == secs * Second
<1>2. Floor * Second <= x /\ x <= Ceiling * Second
  BY <1>1, Monotone, CooldownAssumption
<1>3. x \in Int /\ 0 <= x /\ x < Half
  <2>1. x \in Int /\ 0 <= x
    BY <1>1, CooldownAssumption
  <2>2. Ceiling * Second \in Int
    BY CooldownAssumption
  <2> QED
    BY <2>1, <2>2, <1>2, CooldownAssumption
<1>4. Duration(secs) = x
  <2> HIDE DEF x
  <2>1. ((x + Half) % (2 * Half)) - Half = x
    BY <1>3, NoWrap, CooldownAssumption
  <2> QED
    BY <2>1 DEF Duration, x
<1>5. clampCooldown(x) = x
  <2>1. Floor * Second \in Int /\ Ceiling * Second \in Int
    BY CooldownAssumption
  <2> HIDE DEF x
  <2> QED
    BY <1>2, <1>3, <2>1 DEF clampCooldown
<1>6. (x + Second \div 2) \div Second = secs
  BY <1>1, RoundExact, CooldownAssumption
<1>7. RetryAfter(x) = secs
  <2> HIDE DEF x
  <2> QED
    BY <1>1, <1>6 DEF RetryAfter
<1> QED
  BY <1>4, <1>5, <1>7 DEF Stamped

LEMMA RungInBounds ==
    ASSUME NEW i \in 1 .. Len(Ladder)
    PROVE  /\ Ladder[i] \in Floor .. Ceiling
           /\ Ladder[i] \in Nat
           /\ Ladder[i] <= Longest
<1>1. Len(Ladder) \in 1 .. Len(Ladder) /\ i <= Len(Ladder)
  BY CooldownAssumption
<1> QED
  BY <1>1, CooldownAssumption DEF Longest

LEMMA LadderNotEmpty == 1 \in 1 .. Len(Ladder) /\ Len(Ladder) \in Nat /\ Longest \in Nat
<1>1. Len(Ladder) \in Nat \ {0}
  BY CooldownAssumption
<1> QED
  BY <1>1, RungInBounds DEF Longest

LEMMA AsksInt == Asks \subseteq Int
<1> SUFFICES ASSUME NEW after \in Headers, NEW reset \in Headers
             PROVE  Asked(after, reset) \subseteq Int
  BY DEF Asks
<1>1. Seconds(after) \in Int /\ Seconds(reset) \in Int
  BY CooldownAssumption DEF Seconds
<1> QED
  BY <1>1, CooldownAssumption DEF Asked

----------------------------------------------------------------------------
(* The tracker.                                                            *)

\* A rung the tracker is on: the wait it stands for began with it.
Rungs ==
    \A m \in Models :
        seen[m] # NoStep =>
            left[m] = 0 \/ left[m] + seen[m].age <= Ladder[seen[m].step]

TrackerInv == TrackerTypeOK /\ Rungs

\* The rung after s is on the ladder, and no lower unless the gap was quiet.
LEMMA NextRung ==
    ASSUME NEW s, s \in [step : 1 .. Len(Ladder), age : 0 .. Longest] \cup {NoStep}
    PROVE  /\ NextStep(s) \in 1 .. Len(Ladder)
           /\ s # NoStep /\ s.age < Ladder[s.step] =>
                  Ladder[s.step] <= Ladder[NextStep(s)]
<1>1. CASE s = NoStep
  BY <1>1, LadderNotEmpty DEF NextStep
<1>2. CASE s # NoStep
  <2>1. s.step \in 1 .. Len(Ladder) /\ s.age \in 0 .. Longest
    BY <1>2
  <2>2. Ladder[s.step] \in Nat
    BY <2>1, RungInBounds
  <2>3. CASE s.age >= Ladder[s.step]
    BY <2>1, <2>2, <2>3, LadderNotEmpty DEF NextStep
  <2>4. CASE s.age < Ladder[s.step]
    <3>1. NextStep(s) = IF s.step < Len(Ladder) THEN s.step + 1 ELSE s.step
      BY <1>2, <2>1, <2>2, <2>4, LadderNotEmpty DEF NextStep
    <3>2. NextStep(s) \in 1 .. Len(Ladder) /\ s.step <= NextStep(s)
      BY <2>1, <3>1, LadderNotEmpty
    <3> QED
      BY <2>1, <3>2, CooldownAssumption
  <2> QED
    BY <2>1, <2>2, <2>3, <2>4, LadderNotEmpty
<1> QED
  BY <1>1, <1>2

LEMMA FallBackKeeps ==
    ASSUME TrackerInv, NEW m \in Models, FallBack(m)
    PROVE  TrackerInv' /\ left'[m] \in Floor .. Ceiling
                 /\ (seen[m] # NoStep => left'[m] >= left[m])
<1> DEFINE n == NextStep(seen[m])
<1>1. seen[m] \in [step : 1 .. Len(Ladder), age : 0 .. Longest] \cup {NoStep}
      /\ left[m] \in 0 .. Ceiling
  BY DEF TrackerInv, TrackerTypeOK
<1>2. n \in 1 .. Len(Ladder)
  BY <1>1, NextRung
<1>3. Ladder[n] \in Floor .. Ceiling /\ Ladder[n] \in Nat
  BY <1>2, RungInBounds
<1>4. Stamped(Ladder[n]) = Ladder[n]
  BY <1>3, StampedExactly
<1>5. seen' = [seen EXCEPT ![m] = [step |-> n, age |-> 0]]
      /\ left' = [left EXCEPT ![m] = Ladder[n]]
  BY <1>4 DEF FallBack, Stamped
<1> HIDE DEF n
<1>6. left'[m] = Ladder[n] /\ seen'[m] = [step |-> n, age |-> 0]
  BY <1>5 DEF TrackerInv, TrackerTypeOK
<1>7. TrackerTypeOK'
  <2>1. [step |-> n, age |-> 0] \in [step : 1 .. Len(Ladder), age : 0 .. Longest]
    BY <1>2, LadderNotEmpty
  <2>2. Ladder[n] \in 0 .. Ceiling
    BY <1>3, CooldownAssumption
  <2> QED
    BY <1>5, <2>1, <2>2 DEF TrackerInv, TrackerTypeOK
<1>8. Rungs'
  <2> SUFFICES ASSUME NEW k \in Models, seen'[k] # NoStep
               PROVE  left'[k] = 0
                      \/ left'[k] + seen'[k].age <= Ladder[seen'[k].step]
    BY DEF Rungs
  <2>1. CASE k = m
    BY <2>1, <1>3, <1>6
  <2>2. CASE k # m
    BY <2>2, <1>5 DEF TrackerInv, TrackerTypeOK, Rungs
  <2> QED
    BY <2>1, <2>2
<1>9. seen[m] # NoStep => left'[m] >= left[m]
  <2> SUFFICES ASSUME seen[m] # NoStep, left[m] # 0
               PROVE  left[m] <= Ladder[n]
    BY <1>1, <1>3, <1>6, CooldownAssumption
  <2>1. left[m] + seen[m].age <= Ladder[seen[m].step]
    BY DEF TrackerInv, Rungs
  <2>2. seen[m].step \in 1 .. Len(Ladder) /\ seen[m].age \in 0 .. Longest
    BY <1>1
  <2>3. Ladder[seen[m].step] \in Nat
    BY <2>2, RungInBounds
  <2>4. seen[m].age < Ladder[seen[m].step] /\ left[m] <= Ladder[seen[m].step]
    BY <1>1, <2>1, <2>2, <2>3, LadderNotEmpty, CooldownAssumption
  <2>5. Ladder[seen[m].step] <= Ladder[n]
    BY <1>1, <2>4, NextRung DEF n
  <2> QED
    BY <1>1, <1>3, <2>3, <2>4, <2>5, CooldownAssumption
<1> QED
  BY <1>3, <1>6, <1>7, <1>8, <1>9 DEF TrackerInv

LEMMA RelayKeeps ==
    ASSUME TrackerInv, NEW m \in Models, NEW secs \in Int, Relay(m, secs)
    PROVE  TrackerInv' /\ left'[m] = Stamped(secs)
<1>1. Stamped(secs) \in Floor .. Ceiling
  BY StampedInBounds
<1>2. seen' = [seen EXCEPT ![m] = NoStep] /\ left' = [left EXCEPT ![m] = Stamped(secs)]
  BY DEF Relay, Stamped
<1>3. TrackerTypeOK'
  <2>1. Stamped(secs) \in 0 .. Ceiling
    BY <1>1, CooldownAssumption
  <2> QED
    BY <1>2, <2>1 DEF TrackerInv, TrackerTypeOK
<1>4. Rungs'
  <2> SUFFICES ASSUME NEW k \in Models, seen'[k] # NoStep
               PROVE  left'[k] = 0
                      \/ left'[k] + seen'[k].age <= Ladder[seen'[k].step]
    BY DEF Rungs
  <2>1. k # m
    BY <1>2 DEF TrackerInv, TrackerTypeOK
  <2> QED
    BY <2>1, <1>2 DEF TrackerInv, TrackerTypeOK, Rungs
<1> QED
  BY <1>2, <1>3, <1>4 DEF TrackerInv, TrackerTypeOK

LEMMA AnswerKeeps ==
    ASSUME TrackerInv, NEW m \in Models, Answer(m)
    PROVE  TrackerInv'
<1>1. TrackerTypeOK'
  BY DEF TrackerInv, TrackerTypeOK, Answer
<1>2. Rungs'
  <2> SUFFICES ASSUME NEW k \in Models, seen'[k] # NoStep
               PROVE  left'[k] = 0
                      \/ left'[k] + seen'[k].age <= Ladder[seen'[k].step]
    BY DEF Rungs
  <2>1. k # m
    BY DEF TrackerInv, TrackerTypeOK, Answer
  <2> QED
    BY <2>1 DEF TrackerInv, TrackerTypeOK, Rungs, Answer
<1> QED
  BY <1>1, <1>2 DEF TrackerInv

LEMMA TickKeeps ==
    ASSUME TrackerInv, TrackerTick
    PROVE  TrackerInv'
<1> SUFFICES ASSUME NEW m \in Models
             PROVE  /\ seen'[m] \in [step : 1 .. Len(Ladder), age : 0 .. Longest]
                                        \cup {NoStep}
                    /\ left'[m] \in 0 .. Ceiling
                    /\ seen'[m] # NoStep =>
                          left'[m] = 0
                          \/ left'[m] + seen'[m].age <= Ladder[seen'[m].step]
  BY DEF TrackerTick, TrackerInv, TrackerTypeOK, Rungs
<1>1. /\ seen[m] \in [step : 1 .. Len(Ladder), age : 0 .. Longest] \cup {NoStep}
      /\ left[m] \in 0 .. Ceiling
      /\ seen[m] # NoStep =>
            left[m] = 0 \/ left[m] + seen[m].age <= Ladder[seen[m].step]
  BY DEF TrackerInv, TrackerTypeOK, Rungs
<1>2. seen'[m] = Older(seen[m])
      /\ left'[m] = IF left[m] > 0 THEN left[m] - 1 ELSE 0
  BY DEF TrackerTick
<1>3. left'[m] \in 0 .. Ceiling
  BY <1>1, <1>2, CooldownAssumption
<1>4. CASE seen[m] = NoStep
  BY <1>2, <1>3, <1>4 DEF Older
<1>5. CASE seen[m] # NoStep
  <2>1. seen[m].step \in 1 .. Len(Ladder) /\ seen[m].age \in 0 .. Longest
    BY <1>1, <1>5
  <2> DEFINE age == IF seen[m].age < Longest THEN seen[m].age + 1 ELSE seen[m].age
  <2>2. seen'[m] = [step |-> seen[m].step, age |-> age]
    BY <1>1, <1>2, <1>5 DEF Older
  <2>3. age \in 0 .. Longest /\ (seen[m].age < Longest => age = seen[m].age + 1)
    BY <2>1, LadderNotEmpty
  <2>4. Ladder[seen[m].step] \in Nat /\ Ladder[seen[m].step] <= Longest
    BY <2>1, RungInBounds
  <2> HIDE DEF age
  <2>5. left'[m] = 0 \/ left'[m] + age <= Ladder[seen[m].step]
    <3>1. left[m] \in Nat /\ seen[m].age \in Nat /\ Longest \in Nat
      BY <1>1, <2>1, LadderNotEmpty, CooldownAssumption
    <3>2. CASE left[m] = 0
      BY <1>2, <3>2
    <3>3. CASE left[m] > 0
      <4>1. left[m] + seen[m].age <= Ladder[seen[m].step]
        BY <1>1, <1>5, <3>1, <3>3
      <4>2. left'[m] = left[m] - 1 /\ seen[m].age < Longest
        BY <1>2, <3>1, <3>3, <4>1, <2>4
      <4> QED
        BY <2>3, <2>4, <3>1, <4>1, <4>2
    <3> QED
      BY <3>1, <3>2, <3>3
  <2> QED
    BY <1>3, <2>1, <2>2, <2>3, <2>5
<1> QED
  BY <1>4, <1>5

LEMMA InitIInv == TrackerInit => TrackerInv
<1> SUFFICES ASSUME TrackerInit PROVE TrackerInv
  OBVIOUS
<1>1. TrackerTypeOK
  BY CooldownAssumption DEF TrackerInit, TrackerTypeOK
<1>2. Rungs
  BY DEF TrackerInit, Rungs
<1> QED
  BY <1>1, <1>2 DEF TrackerInv

LEMMA NextIInv == TrackerInv /\ [TrackerNext]_trackerVars => TrackerInv'
<1> SUFFICES ASSUME TrackerInv, [TrackerNext]_trackerVars PROVE TrackerInv'
  OBVIOUS
<1>1. CASE TrackerTick
  BY <1>1, TickKeeps
<1>2. CASE \E m \in Models : Answer(m)
  BY <1>2, AnswerKeeps
<1>3. CASE \E m \in Models : Stamp(m)
  BY <1>3, FallBackKeeps, RelayKeeps, AsksInt DEF Stamp
<1>4. CASE UNCHANGED trackerVars
  BY <1>4 DEF trackerVars, TrackerInv, TrackerTypeOK, Rungs
<1> QED
  BY <1>1, <1>2, <1>3, <1>4 DEF TrackerNext

\* The step of every model stays on the ladder and every wait stays at or
\* below the ceiling (nextFallback, clampCooldown), for every ladder, bound
\* and width.
THEOREM TrackerTypeCorrect == TrackerSpec => []TrackerTypeOK
<1>1. TrackerInv => TrackerTypeOK
  BY DEF TrackerInv
<1> QED
  BY <1>1, InitIInv, NextIInv, PTL DEF TrackerSpec

\* What stampCooldown tells a client is in bounds, exact where the upstream's
\* value is, and never rewards a client that comes back too early.
THEOREM WaitsAreHonest == TrackerSpec => WaitHonest
<1> DEFINE HonestStep ==
        \A m \in Models :
          /\ Stamp(m) => left'[m] >= Floor
          /\ \A secs \in Floor .. Ceiling : Relay(m, secs) => left'[m] = secs
          /\ FallBack(m) /\ seen[m] # NoStep => left'[m] >= left[m]
<1>1. TrackerInv => HonestStep
  <2> SUFFICES ASSUME TrackerInv, NEW m \in Models
               PROVE  /\ Stamp(m) => left'[m] >= Floor
                      /\ \A secs \in Floor .. Ceiling :
                            Relay(m, secs) => left'[m] = secs
                      /\ FallBack(m) /\ seen[m] # NoStep => left'[m] >= left[m]
    OBVIOUS
  <2>1. ASSUME Stamp(m) PROVE left'[m] >= Floor
    <3>1. CASE FallBack(m)
      BY <3>1, FallBackKeeps, CooldownAssumption
    <3>2. CASE \E secs \in Asks : Relay(m, secs)
      <4>1. PICK secs \in Asks : Relay(m, secs)
        BY <3>2
      <4>2. secs \in Int
        BY AsksInt
      <4>3. left'[m] = Stamped(secs) /\ Stamped(secs) \in Floor .. Ceiling
        BY <4>1, <4>2, RelayKeeps, StampedInBounds
      <4> QED
        BY <4>3, CooldownAssumption
    <3> QED
      BY <2>1, <3>1, <3>2 DEF Stamp
  <2>2. ASSUME NEW secs \in Floor .. Ceiling, Relay(m, secs) PROVE left'[m] = secs
    BY <2>2, RelayKeeps, StampedExactly, CooldownAssumption
  <2>3. ASSUME FallBack(m), seen[m] # NoStep PROVE left'[m] >= left[m]
    BY <2>3, FallBackKeeps
  <2> QED
    BY <2>1, <2>2, <2>3
<1>2. TrackerInv => [HonestStep]_trackerVars
  BY <1>1
<1>3. TrackerSpec => [][HonestStep]_trackerVars
  BY <1>2, InitIInv, NextIInv, PTL DEF TrackerSpec
<1> QED
  BY <1>3 DEF WaitHonest

----------------------------------------------------------------------------
(* Panel.  The pool comes first: what Load, a patch and the Settings page  *)
(* make of one is a pool again, and Load leaves what requests are sent to  *)
(* as it was.                                                              *)

USE PanelAssumption

LEMMA PoolIsSeq ==
    ASSUME NEW pool \in Pools
    PROVE  pool \in Seq(Entries) /\ Len(pool) \in 0 .. MaxPool
BY DEF Pools

LEMMA SeqIsPool ==
    ASSUME NEW pool \in Seq(Entries), Len(pool) <= MaxPool
    PROVE  pool \in Pools
<1>1. pool \in [1 .. Len(pool) -> Entries] /\ Len(pool) \in 0 .. MaxPool
  OBVIOUS
<1> QED
  BY <1>1 DEF Pools

LEMMA EmptyPool == <<>> \in Pools
<1>1. <<>> \in Seq(Entries) /\ Len(<<>>) <= MaxPool
  OBVIOUS
<1> QED
  BY <1>1, SeqIsPool

LEMMA LegacyEntry == Legacy \in Entries /\ Legacy.key # NoKey
BY DEF Legacy, Entries

\* The legacy upstream takes one place of the pool.
LEMMA MigratedPool ==
    ASSUME NEW pool \in Pools
    PROVE  Migrated(pool) \in Pools
<1>1. <<Legacy>> \in Seq(Entries) /\ Len(<<Legacy>>) = 1
  BY LegacyEntry
<1>2. Len(<<Legacy>>) <= MaxPool
  BY <1>1
<1>3. <<Legacy>> \in Pools
  BY <1>1, <1>2, SeqIsPool
<1> QED
  BY <1>3 DEF Migrated

\* Load changes nothing about what requests are sent to.
LEMMA MigratedUsable ==
    ASSUME NEW pool \in Pools
    PROVE  Usable(Migrated(pool)) = Usable(pool)
<1>1. CASE pool = <<>> /\ legacy
  <2>1. Migrated(pool) = <<Legacy>> /\ DOMAIN <<Legacy>> = {1} /\ <<Legacy>>[1] = Legacy
    BY <1>1 DEF Migrated
  <2>2. Usable(<<Legacy>>) = {<<1, Legacy>>}
    BY <2>1, LegacyEntry DEF Usable
  <2>3. DOMAIN pool = {}
    BY <1>1
  <2>4. Usable(pool) = {<<1, Legacy>>}
    BY <1>1, <2>3 DEF Usable
  <2> QED
    BY <2>1, <2>2, <2>4
<1>2. CASE ~(pool = <<>> /\ legacy)
  BY <1>2 DEF Migrated
<1> QED
  BY <1>1, <1>2

LEMMA KeptPool ==
    ASSUME NEW rows \in Pools, NEW prev \in Pools
    PROVE  Kept(rows, prev) \in Pools
<1>1. PICK n \in 0 .. MaxPool : rows \in [1 .. n -> Entries]
  BY DEF Pools
<1>2. PICK k \in 0 .. MaxPool : prev \in [1 .. k -> Entries]
  BY DEF Pools
<1>3. ASSUME NEW i \in 1 .. n
      PROVE  (IF rows[i].key = NoKey /\ i \in DOMAIN prev
              THEN [rows[i] EXCEPT !.key = prev[i].key] ELSE rows[i]) \in Entries
  BY <1>1, <1>2 DEF Entries
<1>4. Kept(rows, prev) \in [1 .. n -> Entries]
  BY <1>1, <1>3 DEF Kept
<1> QED
  BY <1>4 DEF Pools

LEMMA ShownPool ==
    ASSUME NEW pool \in Pools
    PROVE  Shown(pool) \in Pools
<1>1. PICK n \in 0 .. MaxPool : pool \in [1 .. n -> Entries]
  BY DEF Pools
<1>2. ASSUME NEW i \in 1 .. n
      PROVE  [pool[i] EXCEPT !.key = NoKey] \in Entries
  BY <1>1 DEF Entries
<1>3. Shown(pool) \in [1 .. n -> Entries]
  BY <1>1, <1>2 DEF Shown
<1> QED
  BY <1>3 DEF Pools

LEMMA RemovedPool ==
    ASSUME NEW rows \in Pools, NEW i \in DOMAIN rows
    PROVE  RemoveAt(rows, i) \in Pools
<1>1. rows \in Seq(Entries) /\ Len(rows) \in 0 .. MaxPool /\ i \in 1 .. Len(rows)
  BY PoolIsSeq
<1>2. SubSeq(rows, 1, i - 1) \in Seq(Entries) /\ Len(SubSeq(rows, 1, i - 1)) = i - 1
  BY <1>1, SubSeqProperties
<1>3. /\ SubSeq(rows, i + 1, Len(rows)) \in Seq(Entries)
      /\ Len(SubSeq(rows, i + 1, Len(rows))) = Len(rows) - i
  BY <1>1, SubSeqProperties
<1> DEFINE s1 == SubSeq(rows, 1, i - 1)
           s2 == SubSeq(rows, i + 1, Len(rows))
<1>4. s1 \o s2 \in Seq(Entries) /\ Len(s1 \o s2) = Len(s1) + Len(s2)
  <2> HIDE DEF s1, s2
  <2>1. s1 \in Seq(Entries) /\ s2 \in Seq(Entries)
    BY <1>2, <1>3 DEF s1, s2
  <2> QED
    BY <2>1, ConcatProperties
<1>5. RemoveAt(rows, i) = s1 \o s2
  BY DEF RemoveAt
<1>6. RemoveAt(rows, i) \in Seq(Entries) /\ Len(RemoveAt(rows, i)) <= MaxPool
  <2> HIDE DEF s1, s2
  <2>1. Len(s1) + Len(s2) <= MaxPool
    BY <1>1, <1>2, <1>3 DEF s1, s2
  <2> QED
    BY <1>4, <1>5, <2>1
<1> QED
  BY <1>6, SeqIsPool

LEMMA EditedPools ==
    ASSUME NEW rows \in Pools, NEW r \in Edited(rows)
    PROVE  r \in Pools
<1>1. rows \in Seq(Entries) /\ Len(rows) \in 0 .. MaxPool
  BY PoolIsSeq
<1>2. CASE r = rows
  BY <1>2
<1>3. CASE \E i \in DOMAIN rows : r = RemoveAt(rows, i)
  BY <1>3, RemovedPool
<1>4. CASE \E i \in DOMAIN rows : r = [rows EXCEPT ![i].key = rows[i].base]
  <2>1. PICK i \in DOMAIN rows : r = [rows EXCEPT ![i].key = rows[i].base]
    BY <1>4
  <2>2. [rows[i] EXCEPT !.key = rows[i].base] \in Entries
    <3>1. rows[i] \in Entries
      BY <1>1, <2>1
    <3> QED
      BY <3>1 DEF Entries
  <2>3. r \in Seq(Entries) /\ Len(r) = Len(rows)
    BY <1>1, <2>1, <2>2
  <2> QED
    BY <1>1, <2>3, SeqIsPool
<1>5. CASE Len(rows) < MaxPool /\ \E u \in Entries : r = Append(rows, u)
  <2>1. r \in Seq(Entries) /\ Len(r) = Len(rows) + 1
    BY <1>1, <1>5
  <2>2. Len(r) <= MaxPool
    BY <1>1, <1>5, <2>1
  <2> QED
    BY <2>1, <2>2, SeqIsPool
<1> QED
  BY <1>1, <1>2, <1>3, <1>4, <1>5 DEF Edited
----------------------------------------------------------------------------
(* Types.                                                                  *)

LEMMA PatchesAreJobs ==
    ASSUME NEW p \in Tokens, NEW q \in Tokens, NEW r \in Pools
    PROVE  /\ [patch |-> PasswordPatch(p), password |-> q] \in Jobs
           /\ [patch |-> Patch(r), password |-> q] \in Jobs
BY DEF Jobs

LEMMA IdleIsJob == Idle \in Jobs
BY EmptyPool, PatchesAreJobs DEF Idle, Tokens

LEMMA LoadedConfig ==
    ASSUME TypeOK
    PROVE  Loaded(disk) \in Configs
BY MigratedPool DEF TypeOK, Loaded, Configs

\* A patch of a job keeps the configuration a configuration.
LEMMA PatchedConfig ==
    ASSUME NEW c \in Configs, NEW j \in Jobs
    PROVE  ApplyPatch(c, j.patch) \in Configs
<1>1. c.pool \in Pools /\ c.password \in Tokens
  BY DEF Configs
<1>2. CASE \E p \in Tokens : j.patch = PasswordPatch(p)
  <2>1. PICK p \in Tokens : j.patch = PasswordPatch(p)
    BY <1>2
  <2>2. ApplyPatch(c, j.patch) = [c EXCEPT !.password = p]
    BY <2>1 DEF ApplyPatch, PasswordPatch
  <2> QED
    BY <2>2 DEF Configs
<1>3. CASE \E r \in Pools : j.patch = Patch(r)
  <2>1. PICK r \in Pools : j.patch = Patch(r)
    BY <1>3
  <2>2. ApplyPatch(c, j.patch) = [c EXCEPT !.pool = Kept(r, c.pool)]
    BY <2>1 DEF ApplyPatch, Patch, Configs
  <2>3. Kept(r, c.pool) \in Pools
    BY <1>1, KeptPool
  <2> QED
    BY <2>2, <2>3 DEF Configs
<1> QED
  BY <1>2, <1>3 DEF Jobs

LEMMA InitTypeOK == Init => TypeOK
<1> SUFFICES ASSUME Init PROVE TypeOK
  OBVIOUS
<1>1. disk \in Configs /\ env \in Tokens /\ legacy \in BOOLEAN
  BY DEF Init
<1>2. Loaded(disk) \in Configs
  BY <1>1, MigratedPool DEF Loaded, Configs
<1>3. memory \in Configs /\ memory.pool \in Pools
  BY <1>2 DEF Init, Configs
<1>4. page \in [Admins -> Pools]
  BY <1>3, ShownPool DEF Init
<1>5. job \in [Admins -> Jobs]
  BY IdleIsJob DEF Init
<1> QED
  BY <1>1, <1>3, <1>4, <1>5 DEF Init, TypeOK

LEMMA NextTypeOK == TypeOK /\ [Next]_vars => TypeOK'
<1> SUFFICES ASSUME TypeOK, [Next]_vars PROVE TypeOK'
  OBVIOUS
<1>0. memory.pool \in Pools /\ memory.password \in Tokens
  BY DEF TypeOK, Configs
<1>1. ASSUME NEW a \in Admins, View(a) PROVE TypeOK'
  <2>1. page' \in [Admins -> Pools]
    BY <1>0, <1>1, ShownPool DEF TypeOK, View
  <2> QED
    BY <1>1, <2>1 DEF TypeOK, View
<1>2. ASSUME NEW a \in Admins, BeginPut(a) PROVE TypeOK'
  <2>1. PICK patch \in {PasswordPatch(p) : p \in Tokens}
                       \cup {Patch(r) : r \in Edited(page[a])} :
           job' = [job EXCEPT ![a] = [patch |-> patch, password |-> memory.password]]
    BY <1>2 DEF BeginPut
  <2>2. page[a] \in Pools
    BY DEF TypeOK
  <2>3. [patch |-> patch, password |-> memory.password] \in Jobs
    <3>1. CASE \E p \in Tokens : patch = PasswordPatch(p)
      BY <1>0, <3>1, EmptyPool, PatchesAreJobs
    <3>2. CASE \E r \in Edited(page[a]) : patch = Patch(r)
      BY <1>0, <2>2, <3>2, EditedPools, PatchesAreJobs DEF Tokens
    <3> QED
      BY <3>1, <3>2
  <2>4. job' \in [Admins -> Jobs]
    BY <2>1, <2>3 DEF TypeOK
  <2>5. pc' \in [Admins -> {"idle", "verified", "read", "applied", "saved"}]
    BY <1>2 DEF TypeOK, BeginPut, Step
  <2>9. \A b \in Admins : (pc[b] = "verified")' => job'[b].password \in Passwords
    BY <1>2 DEF TypeOK, BeginPut, Step
  <2> QED
    BY <1>2, <2>4, <2>5, <2>9 DEF TypeOK, BeginPut
<1>3. ASSUME NEW a \in Admins, Apply(a) PROVE TypeOK'
  <2>1. memory' \in Configs
    BY <1>3, PatchedConfig DEF TypeOK, Apply
  <2>2. pc' \in [Admins -> {"idle", "verified", "read", "applied", "saved"}]
    BY <1>3 DEF TypeOK, Apply, Step
  <2>3. slipped' \in BOOLEAN
    BY <1>3 DEF TypeOK, Apply
  <2>9. \A b \in Admins : (pc[b] = "verified")' => job'[b].password \in Passwords
    BY <1>3 DEF TypeOK, Apply, Step
  <2> QED
    BY <1>3, <2>1, <2>2, <2>3, <2>9 DEF TypeOK, Apply
<1>4. ASSUME NEW a \in Admins, Save(a) PROVE TypeOK'
  <2>1. pc' \in [Admins -> {"idle", "verified", "read", "applied", "saved"}]
    BY <1>4 DEF TypeOK, Save, Step
  <2>9. \A b \in Admins : (pc[b] = "verified")' => job'[b].password \in Passwords
    BY <1>4 DEF TypeOK, Save, Step
  <2> QED
    BY <1>4, <2>1, <2>9 DEF TypeOK, Save, Saved
<1>5. ASSUME NEW a \in Admins, SaveFails(a) PROVE TypeOK'
  <2>1. job' \in [Admins -> Jobs]
    BY <1>5, IdleIsJob DEF TypeOK, SaveFails
  <2>2. pc' \in [Admins -> {"idle", "verified", "read", "applied", "saved"}]
    BY <1>5 DEF TypeOK, SaveFails, Step
  <2>3. slipped' \in BOOLEAN
    BY <1>5 DEF TypeOK, SaveFails, ChangesPassword
  <2>9. \A b \in Admins : (pc[b] = "verified")' => job'[b].password \in Passwords
    BY <1>5 DEF TypeOK, SaveFails, Step
  <2> QED
    BY <1>5, <2>1, <2>2, <2>3, <2>9 DEF TypeOK, SaveFails
<1>6. ASSUME NEW a \in Admins, Finish(a) PROVE TypeOK'
  <2>1. job' \in [Admins -> Jobs]
    BY <1>6, IdleIsJob DEF TypeOK, Finish
  <2>2. page' \in [Admins -> Pools]
    BY <1>0, <1>6, ShownPool DEF TypeOK, Finish
  <2>3. pc' \in [Admins -> {"idle", "verified", "read", "applied", "saved"}]
    BY <1>6 DEF TypeOK, Finish, Step
  <2>4. sessions' \subseteq [id : 1 .. MaxLogins, password : Passwords]
    BY <1>6 DEF TypeOK, Finish
  <2>9. \A b \in Admins : (pc[b] = "verified")' => job'[b].password \in Passwords
    BY <1>6 DEF TypeOK, Finish, Step
  <2> QED
    BY <1>6, <2>1, <2>2, <2>3, <2>4, <2>9 DEF TypeOK, Finish
<1>7. ASSUME NEW a \in Admins, Verify(a) PROVE TypeOK'
  <2>1. job' \in [Admins -> Jobs]
    <3>1. [job[a] EXCEPT !.password = memory.password] \in Jobs
      BY <1>0 DEF TypeOK, Jobs
    <3> QED
      BY <1>7, <3>1 DEF TypeOK, Verify
  <2>2. pc' \in [Admins -> {"idle", "verified", "read", "applied", "saved"}]
    BY <1>7 DEF TypeOK, Verify, Step
  <2>3. memory.password \in Passwords
    BY <1>0, <1>7 DEF Verify, Verifies, Tokens
  <2>4. job'[a].password = memory.password
    BY <1>7 DEF TypeOK, Verify, Jobs
  <2>9. \A b \in Admins : (pc[b] = "verified")' => job'[b].password \in Passwords
    <3> SUFFICES ASSUME NEW b \in Admins, (pc[b] = "verified")'
                 PROVE  job'[b].password \in Passwords
      OBVIOUS
    <3>1. CASE b = a
      BY <2>3, <2>4, <3>1
    <3>2. CASE b # a
      BY <1>7, <3>2 DEF TypeOK, Verify, Step
    <3> QED
      BY <3>1, <3>2
  <2> QED
    BY <1>7, <2>1, <2>2, <2>9 DEF TypeOK, Verify
<1>8. ASSUME NEW a \in Admins, Store(a) PROVE TypeOK'
  <2>1. job' \in [Admins -> Jobs]
    BY <1>8, IdleIsJob DEF TypeOK, Store
  <2>2. pc' \in [Admins -> {"idle", "verified", "read", "applied", "saved"}]
    BY <1>8 DEF TypeOK, Store, Step
  <2>3. slipped' \in BOOLEAN
    BY <1>8 DEF TypeOK, Store
  <2>4. sessions' \subseteq [id : 1 .. MaxLogins, password : Passwords]
    <3>1. job[a].password \in Passwords
      BY <1>8 DEF TypeOK, Store, Step
    <3>2. PICK id \in 1 .. MaxLogins :
             sessions' = sessions \cup {[id |-> id, password |-> job[a].password]}
      BY <1>8 DEF Store
    <3> QED
      BY <3>1, <3>2 DEF TypeOK
  <2>9. \A b \in Admins : (pc[b] = "verified")' => job'[b].password \in Passwords
    BY <1>8 DEF TypeOK, Store, Step
  <2> QED
    BY <1>8, <2>1, <2>2, <2>3, <2>4, <2>9 DEF TypeOK, Store
<1>9. ASSUME End PROVE TypeOK'
  BY <1>9 DEF TypeOK, End, requests
<1>10. ASSUME Restart PROVE TypeOK'
  BY <1>10, LoadedConfig, IdleIsJob DEF TypeOK, Restart
<1>11. CASE UNCHANGED vars
  BY <1>11 DEF TypeOK, vars, requests
<1> QED
  BY <1>1, <1>2, <1>3, <1>4, <1>5, <1>6, <1>7, <1>8, <1>9, <1>10, <1>11 DEF Next
\* Panel's values keep their types, and a session is got with a password that
\* was really set: handleLogin refuses when panel_token is empty.
THEOREM TypeCorrect == Spec => []TypeOK
BY InitTypeOK, NextTypeOK, PTL DEF Spec

----------------------------------------------------------------------------
(* The safety invariants.                                                  *)

LEMMA NextExplained ==
    TypeOK /\ StaleSessionsExplained /\ [Next]_vars => StaleSessionsExplained'
<1> SUFFICES ASSUME TypeOK, StaleSessionsExplained, [Next]_vars,
                    NEW s \in sessions', s.password # memory'.password, ~ slipped'
             PROVE  \E a \in Admins :
                       (pc[a] \in {"applied", "saved"} /\ ChangesPassword(job[a]))'
  BY DEF StaleSessionsExplained
<1> DEFINE Changing(a) == pc[a] \in {"applied", "saved"} /\ ChangesPassword(job[a])
           Goal == \E a \in Admins : Changing(a)'
\* The change that explains the session before the step, if it was stale then.
<1>0. ASSUME s \in sessions, s.password # memory.password, ~ slipped
      PROVE  \E a \in Admins : Changing(a)
  BY <1>0 DEF StaleSessionsExplained
<1>1. ASSUME NEW a \in Admins, View(a) PROVE Goal
  BY <1>0, <1>1 DEF View, ChangesPassword
<1>2. ASSUME NEW a \in Admins, BeginPut(a) PROVE Goal
  <2>1. PICK b \in Admins : Changing(b)
    BY <1>0, <1>2 DEF BeginPut
  <2>2. Changing(b)'
    BY <1>2, <2>1 DEF TypeOK, BeginPut, Step, ChangesPassword
  <2> QED
    BY <2>2
<1>3. ASSUME NEW a \in Admins, Apply(a) PROVE Goal
  <2>1. s \in sessions /\ ~ slipped /\ job' = job /\ pc' = [pc EXCEPT ![a] = "applied"]
    BY <1>3 DEF Apply, Step
  <2>2. CASE s.password # memory.password
    <3>1. PICK b \in Admins : Changing(b)
      BY <1>0, <2>1, <2>2
    <3>2. Changing(b)'
      BY <2>1, <3>1 DEF TypeOK, ChangesPassword
    <3> QED
      BY <3>2
  <2>3. CASE s.password = memory.password
    <3>1. memory'.password # memory.password
      BY <2>3
    <3>2. /\ job[a].patch.kind = "panel_token"
          /\ memory'.password = job[a].patch.password
      <4>1. memory' = ApplyPatch(memory, job[a].patch)
        BY <1>3 DEF Apply
      <4>2. job[a].patch.kind \in {"panel_token", "upstreams"}
        BY DEF TypeOK, Jobs, PasswordPatch, Patch
      <4> QED
        BY <3>1, <4>1, <4>2 DEF ApplyPatch, TypeOK, Configs
    <3>3. job[a].password = memory.password
      BY <1>3, <3>2 DEF Apply
    <3>4. ChangesPassword(job[a])
      BY <3>1, <3>2, <3>3 DEF ChangesPassword
    <3>5. Changing(a)'
      BY <2>1, <3>4 DEF TypeOK, ChangesPassword
    <3> QED
      BY <3>5
  <2> QED
    BY <2>2, <2>3
<1>4. ASSUME NEW a \in Admins, Save(a) PROVE Goal
  <2>1. PICK b \in Admins : Changing(b)
    BY <1>0, <1>4 DEF Save
  <2>2. Changing(b)'
    BY <1>4, <2>1 DEF TypeOK, Save, Step, ChangesPassword
  <2> QED
    BY <2>2
<1>5. ASSUME NEW a \in Admins, SaveFails(a) PROVE Goal
  <2>1. ~ slipped /\ ~ ChangesPassword(job[a]) /\ s \in sessions
    BY <1>5 DEF SaveFails
  <2>2. PICK b \in Admins : Changing(b)
    BY <1>0, <1>5, <2>1 DEF SaveFails
  <2>3. b # a
    BY <2>1, <2>2
  <2>4. Changing(b)'
    BY <1>5, <2>2, <2>3 DEF TypeOK, SaveFails, Step, ChangesPassword
  <2> QED
    BY <2>4
<1>6. ASSUME NEW a \in Admins, Finish(a) PROVE Goal
  <2>1. ~ ChangesPassword(job[a]) /\ s \in sessions
    BY <1>6 DEF Finish
  <2>2. PICK b \in Admins : Changing(b)
    BY <1>0, <1>6, <2>1 DEF Finish
  <2>3. b # a
    BY <2>1, <2>2
  <2>4. Changing(b)'
    BY <1>6, <2>2, <2>3 DEF TypeOK, Finish, Step, ChangesPassword
  <2> QED
    BY <2>4
<1>7. ASSUME NEW a \in Admins, Verify(a) PROVE Goal
  <2>1. PICK b \in Admins : Changing(b)
    BY <1>0, <1>7 DEF Verify
  <2>2. Changing(b)'
    BY <1>7, <2>1 DEF TypeOK, Verify, Step, ChangesPassword
  <2> QED
    BY <2>2
<1>8. ASSUME NEW a \in Admins, Store(a) PROVE Goal
  <2>1. ~ slipped /\ job[a].password = memory.password
    BY <1>8 DEF Store
  <2>2. s \in sessions
    BY <1>8, <2>1 DEF Store
  <2>3. PICK b \in Admins : Changing(b)
    BY <1>0, <1>8, <2>1, <2>2 DEF Store
  <2>4. Changing(b)'
    BY <1>8, <2>3 DEF TypeOK, Store, Step, ChangesPassword
  <2> QED
    BY <2>4
<1>9. ASSUME End PROVE Goal
  BY <1>0, <1>9 DEF End, requests, ChangesPassword
<1>10. ASSUME Restart PROVE Goal
  BY <1>10 DEF Restart
<1>11. CASE UNCHANGED vars
  BY <1>0, <1>11 DEF vars, requests, ChangesPassword
<1> QED
  BY <1>1, <1>2, <1>3, <1>4, <1>5, <1>6, <1>7, <1>8, <1>9, <1>10, <1>11 DEF Next

\* A session of an old password is live only while the PUT that changed the
\* password is at work, or because a login, a PUT or a Save slipped
\* (api.go:215-220, 268-276).
THEOREM StaleSessionsAreExplained == Spec => []StaleSessionsExplained
<1>1. Init => StaleSessionsExplained
  BY DEF Init, StaleSessionsExplained
<1> QED
  BY <1>1, InitTypeOK, NextTypeOK, NextExplained, PTL DEF Spec

\* A Save makes the file what a restart would find unchanged.
LEMMA SavedSurvives ==
    ASSUME TypeOK, disk' = memory, memory' = memory, env' = env, legacy' = legacy
    PROVE  /\ Usable(Loaded(disk).pool)' = Usable(memory.pool)'
           /\ Loaded(disk)'.password \in {env, memory.password}'
<1>1. memory.pool \in Pools
  BY DEF TypeOK, Configs
<1>2. Loaded(disk)' = Loaded(memory)
  BY DEF Loaded, Migrated, Legacy
<1>3. Loaded(memory).pool = Migrated(memory.pool)
      /\ Loaded(memory).password \in {env, memory.password}
  BY DEF Loaded
<1>4. Usable(memory.pool)' = Usable(memory.pool)
  BY DEF Usable, Legacy
<1>5. Usable(Loaded(disk).pool)' = Usable(Migrated(memory.pool))
  BY <1>2, <1>3 DEF Usable, Legacy
<1> QED
  BY <1>1, <1>2, <1>3, <1>4, <1>5, MigratedUsable

LEMMA NextInvisible ==
    TypeOK /\ RestartInvisible /\ [Next]_vars => RestartInvisible'
<1> SUFFICES ASSUME TypeOK, RestartInvisible, [Next]_vars PROVE RestartInvisible'
  OBVIOUS
<1> DEFINE Safe == /\ Usable(Loaded(disk).pool) = Usable(memory.pool)
                   /\ Loaded(disk).password \in {env, memory.password}
\* A step that leaves the configuration alone keeps a restart invisible.
<1>0. ASSUME UNCHANGED <<env, legacy, memory, disk>>, Safe PROVE Safe'
  <2>1. Loaded(disk)' = Loaded(disk)
    BY <1>0 DEF Loaded, Migrated, Legacy
  <2>2. Usable(Loaded(disk).pool)' = Usable(Loaded(disk).pool)
    BY <1>0, <2>1 DEF Usable, Legacy
  <2>3. Usable(memory.pool)' = Usable(memory.pool)
    BY <1>0 DEF Usable, Legacy
  <2> QED
    BY <1>0, <2>1, <2>2, <2>3
<1> HIDE DEF Safe
<1>s. RestartInvisible <=> unsaved \/ (\E a \in Admins : pc[a] = "applied") \/ Safe
  BY DEF RestartInvisible, Safe
<1>t. RestartInvisible'
        <=> unsaved' \/ (\E a \in Admins : pc'[a] = "applied") \/ Safe'
  BY DEF RestartInvisible, Safe
<1>1. ASSUME NEW a \in Admins, View(a) PROVE RestartInvisible'
  BY <1>0, <1>1, <1>s, <1>t DEF View
<1>2. ASSUME NEW a \in Admins, BeginPut(a) PROVE RestartInvisible'
  <2>1. ASSUME NEW b \in Admins, pc[b] = "applied" PROVE pc'[b] = "applied"
    BY <1>2, <2>1 DEF TypeOK, BeginPut, Step
  <2> QED
    BY <1>0, <1>2, <2>1, <1>s, <1>t DEF BeginPut
<1>3. ASSUME NEW a \in Admins, Apply(a) PROVE RestartInvisible'
  <2>1. pc'[a] = "applied"
    BY <1>3 DEF TypeOK, Apply, Step
  <2> QED
    BY <2>1, <1>t
<1>4. ASSUME NEW a \in Admins, Save(a) PROVE RestartInvisible'
  BY <1>4, <1>t, SavedSurvives DEF Save, Saved, Safe
<1>5. ASSUME NEW a \in Admins, SaveFails(a) PROVE RestartInvisible'
  BY <1>5, <1>t DEF SaveFails
<1>6. ASSUME NEW a \in Admins, Finish(a) PROVE RestartInvisible'
  <2>1. ASSUME NEW b \in Admins, pc[b] = "applied" PROVE pc'[b] = "applied"
    BY <1>6, <2>1 DEF TypeOK, Finish, Step
  <2> QED
    BY <1>0, <1>6, <2>1, <1>s, <1>t DEF Finish
<1>7. ASSUME NEW a \in Admins, Verify(a) PROVE RestartInvisible'
  <2>1. ASSUME NEW b \in Admins, pc[b] = "applied" PROVE pc'[b] = "applied"
    BY <1>7, <2>1 DEF TypeOK, Verify, Step
  <2> QED
    BY <1>0, <1>7, <2>1, <1>s, <1>t DEF Verify
<1>8. ASSUME NEW a \in Admins, Store(a) PROVE RestartInvisible'
  <2>1. ASSUME NEW b \in Admins, pc[b] = "applied" PROVE pc'[b] = "applied"
    BY <1>8, <2>1 DEF TypeOK, Store, Step
  <2> QED
    BY <1>0, <1>8, <2>1, <1>s, <1>t DEF Store
<1>9. ASSUME End PROVE RestartInvisible'
  BY <1>0, <1>9, <1>s, <1>t DEF End, requests
<1>10. ASSUME Restart PROVE RestartInvisible'
  <2>1. memory' = Loaded(disk) /\ Loaded(disk)' = Loaded(disk)
    BY <1>10 DEF Restart, Loaded, Migrated, Legacy
  <2>2. Safe'
    BY <2>1 DEF Safe
  <2> QED
    BY <2>2, <1>t
<1>11. CASE UNCHANGED vars
  BY <1>0, <1>11, <1>s, <1>t DEF vars, requests
<1> QED
  BY <1>1, <1>2, <1>3, <1>4, <1>5, <1>6, <1>7, <1>8, <1>9, <1>10, <1>11 DEF Next

\* Unless the last Save failed or one is to come, a restart keeps the upstreams
\* that requests are sent to and the panel's password, or sets the one of the
\* environment (ApplyPatch, Save and Load).
THEOREM RestartsAreInvisible == Spec => []RestartInvisible
<1>1. Init => RestartInvisible
  <2> SUFFICES ASSUME Init PROVE RestartInvisible
    OBVIOUS
  <2>1. memory = Loaded(disk)
    BY DEF Init
  <2> QED
    BY <2>1 DEF RestartInvisible
<1> QED
  BY <1>1, InitTypeOK, NextTypeOK, NextInvisible, PTL DEF Spec
=============================================================================
