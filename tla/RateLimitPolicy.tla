-------------------------- MODULE RateLimitPolicy --------------------------
(***************************************************************************)
(* The rules of the rate-limit plugin for OpenCode clients                 *)
(* (contrib/opencode/rate-limit-retry/policy.ts): how long a failure       *)
(* closes a provider's scope, and whether and when a failed attempt is     *)
(* tried again.  Times are ticks of one clock.                             *)
(***************************************************************************)
EXTENDS Integers

CONSTANTS
    MaxRetries,     \* options.maxRetries
    BaseDelay,      \* options.baseDelayMs
    MaxDelay,       \* options.maxDelayMs
    MaxAutoWait,    \* options.maxAutomaticWaitMs
    QuotaFallback,  \* options.quotaFallbackMs
    RateFallback,   \* options.rateFallbackMs
    RateCap,        \* the 15 minutes that bound the rate fallback
    FailureWindow   \* the 5 minutes within which failures count as consecutive

\* What options() leaves of the user's values.
ASSUME PolicyAssumption ==
    /\ MaxRetries \in Nat
    /\ BaseDelay \in Nat \ {0}
    /\ MaxDelay \in Nat
    /\ MaxDelay >= BaseDelay
    /\ MaxAutoWait \in Nat
    /\ QuotaFallback \in Nat \ {0}
    /\ RateFallback \in Nat \ {0}
    /\ RateCap \in Nat \ {0}
    /\ FailureWindow \in Nat \ {0}

NoHeader == -1  \* a response without a Retry-After that retryAfter accepts
NoNative == -1  \* the engine itself decided against a retry

RecordedKinds == {"quota", "rate", "transient"}

\* The cooldown of a scope that has no file yet.
NoRecord == [until |-> 0, updated |-> 0, failures |-> 0, kind |-> "none",
             authoritative |-> FALSE]

Records ==
    [until : Nat, updated : Nat, failures : Nat \ {0}, kind : RecordedKinds,
     authoritative : BOOLEAN]

AtMost(n, cap) == IF n \in 0 .. cap THEN n ELSE cap
AtLeast(n, least) == IF n < least THEN least ELSE n

Streak(old, t) ==
    IF old # NoRecord /\ t - old.updated < FailureWindow THEN old.failures + 1 ELSE 1

\* Without a deadline from upstream, one is estimated.
Estimate(kind, failures) ==
    IF kind = "quota" THEN QuotaFallback
    ELSE AtMost(RateFallback * 2 ^ AtMost(failures - 1, 10), RateCap)

Deadline(kind, supplied, failures, t) ==
    t + (IF supplied = NoHeader THEN Estimate(kind, failures) ELSE supplied)

\* Fault: the latest answer always wins.
CooldownLatest(kind, supplied, old, t) ==
    [until |-> Deadline(kind, supplied, Streak(old, t), t), updated |-> t,
     failures |-> Streak(old, t), kind |-> kind, authoritative |-> supplied # NoHeader]

\* cooldownFor: a later deadline that is already recorded stays.
CooldownFor(kind, supplied, old, t) ==
    LET failures == Streak(old, t)
        until == Deadline(kind, supplied, failures, t)
    IN IF old # NoRecord /\ old.until > until
       THEN [old EXCEPT !.failures = failures, !.updated = t]
       ELSE [until |-> until, updated |-> t, failures |-> failures, kind |-> kind,
             authoritative |-> supplied # NoHeader]

\* The pause before attempt n, without a deadline: it doubles from the third on.
Exponential(n) == AtMost(BaseDelay * 2 ^ AtLeast(n - 2, 0), MaxDelay)

\* Fault: the deadline is left out of the pause.
DelayIgnoringDeadline(rec, n, native, jitter, t) ==
    AtLeast(AtLeast(Exponential(n), native), 0) + jitter

\* The longest of the deadline, the exponential pause and the engine's own,
\* lengthened by a jitter of up to a quarter of the exponential pause.
Delay(rec, n, native, jitter, t) ==
    AtLeast(AtLeast(AtLeast(rec.until - t, 0), Exponential(n)), native) + jitter

Jitters(n) == 0 .. ((Exponential(n) + 3) \div 4)

\* Fault: one retry more than the options allow.
MayRetryOnceMore(kind, status, rec, n, native, gated) ==
    /\ kind # "permanent"
    /\ n <= MaxRetries + 2
    /\ kind = "quota" => rec.authoritative
    /\ gated \/ status # "ok" \/ native # NoNative
    /\ gated \/ kind # "transient" \/ native # NoNative \/ status = "server"

\* The early returns of decide, for attempt n.  "status" is the class of the
\* error's HTTP status: "ok" for a 200 whose stream broke off.
MayRetry(kind, status, rec, n, native, gated) ==
    /\ kind # "permanent"
    /\ n <= MaxRetries + 1
    /\ kind = "quota" => rec.authoritative
    /\ gated \/ status # "ok" \/ native # NoNative
    /\ gated \/ kind # "transient" \/ native # NoNative \/ status = "server"
============================================================================
