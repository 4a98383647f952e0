------------------------------ MODULE Cooldown ------------------------------
(***************************************************************************)
(* The server's answer to a rate limit (internal/server/cooldown.go and    *)
(* stampCooldown in proxy.go): a 429 of the upstream reaches the client    *)
(* with a time to wait, the upstream's own if it gave one, else the next   *)
(* of a ladder of fallbacks that is kept for each target model.            *)
(* Requests run concurrently; each step of the tracker is one critical     *)
(* section.  Instants are kept as the seconds since them, which matter up  *)
(* to the longest fallback only.                                           *)
(***************************************************************************)
EXTENDS Integers, Sequences

CONSTANTS
    Models,         \* target models, the scopes of the tracker
    Ladder,         \* cooldownFallbacks, in seconds
    Floor, Ceiling, \* maxCooldownFloor and maxCooldownCeiling, in seconds
    Second,         \* units of a time.Duration in a second
    Half,           \* durations are from -Half to Half - 1 units
    Headers,        \* values of Retry-After and X-RateLimit-Reset, see below
    Epoch, Now      \* a number above Epoch is an instant; it is Now

Longest == Ladder[Len(Ladder)]

ASSUME CooldownAssumption ==
    /\ Ladder \in Seq(Nat) /\ Ladder # <<>>
    /\ \A i, j \in 1 .. Len(Ladder) : i <= j => Ladder[i] <= Ladder[j]
    /\ \A i \in 1 .. Len(Ladder) : Ladder[i] \in Floor .. Ceiling
    /\ Floor \in Nat \ {0} /\ Ceiling \in Nat /\ Floor <= Ceiling
    /\ Second \in Nat \ {0} /\ Half \in Nat /\ Ceiling * Second < Half
    /\ Headers \subseteq [kind : {"none", "number", "date"}, secs : Int]
    /\ Epoch \in Nat /\ Now \in Nat

NoStep == [step |-> 0, age |-> 0]

VARIABLES
    seen,       \* cooldownTracker.seen: step and seconds since the last 429
    left        \* history: seconds the clients of a model are still told to wait

trackerVars == <<seen, left>>

TrackerInit ==
    /\ seen = [m \in Models |-> NoStep]
    /\ left = [m \in Models |-> 0]

----------------------------------------------------------------------------
\* Fault: any gap as long as the shortest fallback is quiet.
NextStepImpatient(s) ==
    IF s = NoStep \/ s.age >= Ladder[1] THEN 1
    ELSE IF s.step < Len(Ladder) THEN s.step + 1 ELSE s.step

\* nextFallback: the first rung after a gap as long as the step handed out,
\* else the next one, up to the last.
NextStep(s) ==
    IF s = NoStep \/ s.age >= Ladder[s.step] THEN 1
    ELSE IF s.step < Len(Ladder) THEN s.step + 1 ELSE s.step

\* parseRetryAfterSeconds.  A header is absent or garbage ("none"), or holds a
\* number, or a date that is so many seconds ahead.
UsableHeader(h) == h.kind = "date" \/ (h.kind = "number" /\ h.secs >= 0)
Seconds(h) == IF h.kind = "date" /\ h.secs < 0 THEN 0 ELSE h.secs

\* upstreamCooldownSeconds: what a 429 asks for, if anything.
Asked(after, reset) ==
    IF UsableHeader(after) THEN {Seconds(after)}
    ELSE IF ~UsableHeader(reset) THEN {}
    ELSE IF Seconds(reset) > Epoch THEN {Seconds(reset) - Now}
    ELSE {Seconds(reset)}

\* A number of seconds as a time.Duration, in 64 bits.
Duration(secs) == ((secs * Second + Half) % (2 * Half)) - Half

\* Fault: only the floor is kept.
clampCooldownUncapped(d) == IF d < Floor * Second THEN Floor * Second ELSE d

\* clampCooldown.
clampCooldown(d) ==
    IF d < Floor * Second THEN Floor * Second
    ELSE IF d > Ceiling * Second THEN Ceiling * Second
    ELSE d

\* The Retry-After of applyCooldownHeaders: rounded to a second, at least one.
RetryAfter(d) ==
    LET secs == (d + Second \div 2) \div Second
    IN  IF secs < 1 THEN 1 ELSE secs

\* A turn of model m ends well (logSuccessWithCache): noteSuccess.
Answer(m) ==
    /\ seen' = [seen EXCEPT ![m] = NoStep]
    /\ UNCHANGED left

\* stampCooldown with a usable value of the upstream, which resets the ladder.
Relay(m, secs) ==
    /\ seen' = [seen EXCEPT ![m] = NoStep]
    /\ left' = [left EXCEPT ![m] = RetryAfter(clampCooldown(Duration(secs)))]

\* stampCooldown without one.
FallBack(m) ==
    LET step == NextStep(seen[m])
    IN  /\ seen' = [seen EXCEPT ![m] = [step |-> step, age |-> 0]]
        /\ left' = [left EXCEPT
                        ![m] = RetryAfter(clampCooldown(Duration(Ladder[step])))]

\* What the headers of all possible answers ask for.
Asks == UNION {Asked(after, reset) : after, reset \in Headers}
Silent == \E after, reset \in Headers : Asked(after, reset) = {}

\* stampCooldown, as passUpstreamError and relayOpenAIJSON call it.
Stamp(m) == (Silent /\ FallBack(m)) \/ \E secs \in Asks : Relay(m, secs)

Older(s) ==
    IF s = NoStep THEN s ELSE [s EXCEPT !.age = IF @ < Longest THEN @ + 1 ELSE @]

TrackerTick ==
    /\ seen' = [m \in Models |-> Older(seen[m])]
    /\ left' = [m \in Models |-> IF left[m] > 0 THEN left[m] - 1 ELSE 0]

TrackerNext == TrackerTick \/ \E m \in Models : Answer(m) \/ Stamp(m)

TrackerSpec == TrackerInit /\ [][TrackerNext]_trackerVars

----------------------------------------------------------------------------
(* Properties.                                                             *)

\* The ladder is never indexed beyond its ends, whatever the number of 429s
\* (nextFallback), and no client is told to wait longer than the ceiling.
TrackerTypeOK ==
    /\ seen \in [Models -> [step : 1 .. Len(Ladder), age : 0 .. Longest] \cup {NoStep}]
    /\ left \in [Models -> 0 .. Ceiling]

\* What a 429 tells a client (stampCooldown).  A wait the upstream asked for
\* is passed on to the second if it is between the floor and the ceiling; no
\* wait is below the floor, whatever the upstream sent and however its value
\* wrapped around (README.md:519-530); and a fallback that is asked for again
\* before its time, with no answer in between, does not let anyone in earlier
\* than the one before, so hammering is never rewarded.
WaitHonest ==
    [][\A m \in Models :
          /\ Stamp(m) => left'[m] >= Floor
          /\ \A secs \in Floor .. Ceiling :
                Relay(m, secs) => left'[m] = secs
          /\ FallBack(m) /\ seen[m] # NoStep => left'[m] >= left[m]]_trackerVars
=============================================================================
