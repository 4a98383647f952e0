-------------------------- MODULE EffortRecovery ---------------------------
(***************************************************************************)
(* Requests for Responses-native models (responses_passthrough.go and      *)
(* anthropic_responses.go): each clamps its effort into the model's scale, *)
(* waits for one of the upstream slots, posts, and recovers once from      *)
(* stale encrypted reasoning and once from a rejected effort (recovery.go) *)
(* before its answer is relayed.  A post stands for all of                 *)
(* doUpstreamWithRetry, which UpstreamRetry models.                        *)
(***************************************************************************)
EXTENDS EffortLevels

CONSTANTS
    Wanted,      \* the efforts clients ask for
    Accepts,     \* per model: the efforts upstream takes
    Names,       \* ... the list of efforts in its rejections, empty if they have none
    Slots,       \* capacity of museSparkUpstreamSlots, 2 in the code
    MaxRestarts  \* bound of a checked instance

\* ParseExpectedEfforts drops repeated names; it keeps names it does not know.
ASSUME RecoveryAssumption ==
    /\ Wanted \subseteq Effort \cup {NoEffort}
    /\ Accepts \in [Models -> SUBSET Effort]
    /\ Names \in [Models -> Seq(Effort)]
    /\ \A m \in Models : \A i, j \in DOMAIN Names[m] : Names[m][i] = Names[m][j] => i = j
    /\ Slots \in Nat \ {0}
    /\ MaxRestarts \in Nat

VARIABLES
    model,    \* per request: its target model
    body,     \* ... upBody: its effort, and whether it carries encrypted blobs
    names,    \* ... the list that has been read in it
    posted,   \* ... the bodies posted so far, the last one by the latest post
    slots,    \* slots that are taken
    restarts,
    misread   \* history: models of which only part of a list has been read

request == <<model, body, names, posted>>
recoveryVars == <<cache, changing, doing, request, slots, restarts, misread>>

Bodies == [effort : Effort \cup {NoEffort}, blobs : BOOLEAN]

\* A stale, rejected or bad answer is a 400; its body is small, or big, beyond
\* recoveryMaxErrBody, or broken: reading it fails after a part of it.
Answers ==
    [status : {"ok", "stale", "rejected", "bad", "failed"},
     size : {"small", "big", "broken"}]

Rejection == [status |-> "rejected", size |-> "small"]
BrokenRejection == [status |-> "rejected", size |-> "broken"]
StaleReasoning == [status |-> "stale", size |-> "small"]

NoBody == [effort |-> NoEffort, blobs |-> FALSE]

RecoveryInit ==
    /\ CacheInit
    /\ doing = [r \in Requests |-> "idle"]
    /\ model \in [Requests -> Models]
    /\ body = [r \in Requests |-> NoBody]
    /\ names = [r \in Requests |-> <<>>]
    /\ posted = [r \in Requests |-> <<>>]
    /\ slots = 0
    /\ restarts = 0
    /\ misread = {}

\* Where a handler holds a slot.
Holding ==
    {"first", "second", "learn", "choose", "demote", "replace", "marshal", "open",
     "write", "retry", "third", "relay"}

Post(r, to, b) ==
    /\ doing' = [doing EXCEPT ![r] = to]
    /\ posted' = [posted EXCEPT ![r] = Append(@, b)]

\* The handler returns, and what it knew is gone with it.
HandlerReturns(r, to) ==
    /\ doing' = [doing EXCEPT ![r] = to]
    /\ body' = [body EXCEPT ![r] = NoBody]
    /\ names' = [names EXCEPT ![r] = <<>>]
    /\ posted' = [posted EXCEPT ![r] = <<>>]
    /\ after' = [after EXCEPT ![r] = "relay"]
    /\ demoted' = [demoted EXCEPT ![r] = <<>>]
    /\ UNCHANGED <<cache, snapshot, model, restarts, misread>>

----------------------------------------------------------------------------
(* The handlers, up to the first answer.                                   *)

Arrive(r) ==
    /\ Goto(r, "idle", "queued")
    /\ \E want \in Wanted, blobs \in BOOLEAN :
          body' = [body EXCEPT ![r] =
              [effort |-> IF want = NoEffort THEN want
                          ELSE ClampEffort(want, LevelsForModel(model[r])),
               blobs |-> blobs]]
    /\ UNCHANGED <<cache, changing, model, names, posted, slots, restarts, misread>>

\* The client goes away while it waits for a slot.
LeaveQueue(r) ==
    /\ doing[r] = "queued"
    /\ HandlerReturns(r, "done")
    /\ UNCHANGED slots

\* Fault: no slot is waited for.
AcquireAtOnce(r) ==
    /\ doing[r] = "queued"
    /\ slots' = slots + 1
    /\ Post(r, "first", body[r])
    /\ UNCHANGED <<cache, changing, model, body, names, restarts, misread>>

Acquire(r) ==
    /\ doing[r] = "queued"
    /\ slots < Slots
    /\ slots' = slots + 1
    /\ Post(r, "first", body[r])
    /\ UNCHANGED <<cache, changing, model, body, names, restarts, misread>>

\* Fault: the handler returns without giving its slot back.
FirstFailsKeepingSlot(r) ==
    /\ doing[r] = "first"
    /\ HandlerReturns(r, "done")
    /\ UNCHANGED slots

\* No answer to the first post: the client is told.
FirstFails(r) ==
    /\ doing[r] = "first"
    /\ HandlerReturns(r, "done")
    /\ slots' = slots - 1

\* Upstream checks the effort of the body it is sent, unless it answers
\* otherwise for a reason of its own; reasoning can be stale on its side too.
MayAnswer(r, answer) ==
    LET effort == Last(posted[r]).effort
    IN  /\ answer.status = "ok" => effort \in Accepts[model[r]] \cup {NoEffort}
        /\ answer.status = "rejected" => effort \notin Accepts[model[r]]

----------------------------------------------------------------------------
(* recovery.go.                                                            *)

Strippable(r, answer) == answer = StaleReasoning /\ body[r].blobs

Recoverable(r, answer) == answer = Rejection /\ body[r].effort # NoEffort

\* Names that have been read, if there are any, are learned first.
TakeUp(r, list) ==
    /\ doing' = [doing EXCEPT ![r] = IF list = <<>> THEN "choose" ELSE "learn"]
    /\ names' = [names EXCEPT ![r] = list]

\* maybeRetryStaleReasoning strips the body and retries.
StripAndRetry(r) ==
    /\ Strippable(r, StaleReasoning)
    /\ Post(r, "second", [body[r] EXCEPT !.blobs = FALSE])
    /\ UNCHANGED <<names, misread>>

\* maybeRetryInvalidEffort reads the whole of a rejection.
HearRejection(r) ==
    /\ MayAnswer(r, Rejection)
    /\ Recoverable(r, Rejection)
    /\ TakeUp(r, Names[model[r]])
    /\ UNCHANGED <<posted, misread>>

\* maybeRetryStaleReasoning could not read all of the body, and has put back
\* what it read; maybeRetryInvalidEffort reads that without an error, and
\* takes a list for the list that stops anywhere.
HearPart(r) ==
    /\ MayAnswer(r, BrokenRejection)
    /\ body[r].effort # NoEffort
    /\ \E n \in 0 .. Len(Names[model[r]]) :
          /\ TakeUp(r, SubSeq(Names[model[r]], 1, n))
          /\ misread' = IF n = Len(Names[model[r]]) THEN misread ELSE misread \cup {model[r]}
    /\ UNCHANGED posted

\* An answer neither recovery acts on.  (What was read of a broken rejection
\* may not say yet what is rejected.)
PassOn(r, answer) ==
    /\ MayAnswer(r, answer)
    /\ ~Recoverable(r, answer)
    /\ doing' = [doing EXCEPT ![r] = "relay"]
    /\ UNCHANGED <<names, posted, misread>>

FirstAnswered(r) ==
    /\ doing[r] = "first"
    /\ \/ StripAndRetry(r)
       \/ HearRejection(r)
       \/ HearPart(r)
       \/ \E answer \in Answers : ~Strippable(r, answer) /\ PassOn(r, answer)
    /\ UNCHANGED <<cache, changing, model, body, slots, restarts>>

\* The stripped body is upBody from now on; the answer is read once.
SecondAnswered(r) ==
    /\ doing[r] = "second"
    /\ HearRejection(r) \/ \E answer \in Answers : PassOn(r, answer)
    /\ body' = [body EXCEPT ![r].blobs = FALSE]
    /\ UNCHANGED <<cache, changing, model, slots, restarts>>

LearnLevels(r) ==
    /\ Learn(r, model[r], names[r])
    /\ names' = [names EXCEPT ![r] = <<>>]
    /\ UNCHANGED <<model, body, posted, slots, restarts, misread>>

\* Fault: the retry sends the body the handler started with.
RetryFirstBody(r, effort) == Post(r, "third", [Head(posted[r]) EXCEPT !.effort = effort])

\* Fault: the retry sends the effort that has been rejected.
RetryUnclamped(r, effort) == Post(r, "third", body[r])

RetryWith(r, effort) == Post(r, "third", [body[r] EXCEPT !.effort = effort])

\* The list that was read, if it moves the effort at all; else the top is
\* demoted first.
Choose(r) ==
    LET clamped == ClampEffort(body[r].effort, LevelsForModel(model[r]))
    IN  /\ doing[r] = "choose"
        /\ IF clamped = body[r].effort
           THEN /\ doing' = [doing EXCEPT ![r] = "demote"]
                /\ after' = [after EXCEPT ![r] = "retry"]
                /\ UNCHANGED posted
           ELSE /\ RetryWith(r, clamped)
                /\ after' = [after EXCEPT ![r] = "relay"]
        /\ UNCHANGED <<cache, demoted, snapshot, model, body, names, slots, restarts, misread>>

DemoteTop(r) ==
    /\ DemoteRead(r, model[r]) \/ DemoteWrite(r, model[r])
    /\ UNCHANGED <<request, slots, restarts, misread>>

\* The next one down, if the demoted scale has one for this effort.
Retry(r) ==
    LET clamped == ClampEffort(body[r].effort, demoted[r])
    IN  /\ doing[r] = "retry"
        /\ IF clamped = body[r].effort
           THEN doing' = [doing EXCEPT ![r] = "relay"] /\ UNCHANGED posted
           ELSE RetryWith(r, clamped)
        /\ demoted' = [demoted EXCEPT ![r] = <<>>]
        /\ after' = [after EXCEPT ![r] = "relay"]
        /\ UNCHANGED <<cache, snapshot, model, body, names, slots, restarts, misread>>

\* Whatever the status of this answer, its body is read up to the cap; a scale
\* that has failed again loses its top, and there is no other retry.
ThirdAnswered(r) ==
    /\ doing[r] = "third"
    /\ \E answer \in Answers :
          /\ MayAnswer(r, answer)
          /\ doing' = [doing EXCEPT ![r] =
                 IF answer = Rejection THEN "demote" ELSE "relay"]
    /\ UNCHANGED <<cache, changing, model, body, names, posted, slots, restarts, misread>>

\* No answer to a retry: the answer before it is restored and relayed.
RetryFails(r) ==
    /\ Goto(r, "second", "relay") \/ Goto(r, "third", "relay")
    /\ UNCHANGED <<cache, changing, request, slots, restarts, misread>>

PersistLevels(r) ==
    /\ Persist(r)
    /\ UNCHANGED <<request, slots, restarts, misread>>

Relay(r) ==
    /\ doing[r] = "relay"
    /\ HandlerReturns(r, "done")
    /\ slots' = slots - 1

----------------------------------------------------------------------------
\* The process ends at any point and is started again.
RecoveryRestart ==
    /\ restarts < MaxRestarts
    /\ restarts' = restarts + 1
    /\ taught' = LoadedLevels
    /\ doing' = [r \in Requests |-> IF doing[r] \in {"idle", "done"} THEN doing[r] ELSE "lost"]
    /\ after' = [r \in Requests |-> "relay"]
    /\ demoted' = [r \in Requests |-> <<>>]
    /\ snapshot' = [r \in Requests |-> NoTable]
    /\ body' = [r \in Requests |-> NoBody]
    /\ names' = [r \in Requests |-> <<>>]
    /\ posted' = [r \in Requests |-> <<>>]
    /\ slots' = 0
    /\ UNCHANGED <<file, model, misread>>

Handle(r) ==
    \/ Acquire(r) \/ FirstAnswered(r) \/ FirstFails(r) \/ SecondAnswered(r)
    \/ LearnLevels(r) \/ Choose(r) \/ DemoteTop(r) \/ Retry(r) \/ ThirdAnswered(r)
    \/ RetryFails(r) \/ PersistLevels(r) \/ Relay(r)

RecoveryNext ==
    \/ \E r \in Requests : Arrive(r) \/ LeaveQueue(r) \/ Handle(r)
    \/ RecoveryRestart

RecoverySpec == RecoveryInit /\ [][RecoveryNext]_recoveryVars

----------------------------------------------------------------------------
RecoveryTypeOK ==
    /\ IsTable(taught)
    /\ file = [torn |-> file.torn, table |-> file.table]
    /\ file.torn \in BOOLEAN
    /\ IsTable(file.table)
    /\ doing \in [Requests -> Holding \cup {"idle", "queued", "done", "lost"}]
    /\ after \in [Requests -> {"choose", "retry", "relay"}]
    /\ demoted \in [Requests -> Seq(Effort)]
    /\ DOMAIN snapshot = Requests
    /\ \A r \in Requests : IsTable(snapshot[r])
    /\ model \in [Requests -> Models]
    /\ body \in [Requests -> Bodies]
    /\ names \in [Requests -> Seq(Effort)]
    /\ posted \in [Requests -> Seq(Bodies)]
    /\ slots \in 0 .. Slots
    /\ restarts \in 0 .. MaxRestarts
    /\ misread \subseteq Models

\* DemoteTop "never drops the last level" (reasoning_levels.go:123) and the
\* scale of a model is "always non-empty" (:76): no request, restart or two
\* overlapping demotions leave a scale without a level, in memory or on disk.
ScaleNeverEmpty ==
    /\ \A m \in DOMAIN taught : taught[m] # <<>>
    /\ \A m \in DOMAIN file.table : file.table[m] # <<>>

\* Levels that were built in for a model, or named by its upstream; not none
\* and max: "adopting them would manufacture 400s" (reasoning_levels.go:97-100).
Levels(m) ==
    (ToSet(DefaultReasoningLevels) \cup ToSet(Names[m])) \ {NoneEffort, MaxEffort}

\* Whatever clients ask for (none, max and names nobody knows among it), and
\* whatever is learned, read in part, demoted, torn or loaded again, every body
\* goes upstream with a level of that very model, or without any.
OnlyNamedSent ==
    \A r \in Requests : \A i \in DOMAIN posted[r] :
        posted[r][i].effort \in Levels(model[r]) \cup {NoEffort}

\* "One retry per request, never a loop" (recovery.go:79) for each recovery,
\* and "chained recoveries compose instead of resending the poison" (:36):
\* at most three posts, no body twice, and blobs once stripped stay out.
RecoveriesCompose ==
    \A r \in Requests :
        /\ Len(posted[r]) <= 3
        /\ \A i, j \in DOMAIN posted[r] : i < j =>
              /\ posted[r][i] # posted[r][j]
              /\ posted[r][j].blobs => posted[r][i].blobs

\* What an upstream names it also accepts, none and max apart.
Honest(m) == Sane(Taught(Names[m])) /\ ToSet(Taught(Names[m])) \subseteq Accepts[m]

\* "One wasted round-trip teaches the proxy a model" (reasoning_levels.go:11):
\* when upstream names what it accepts, the retry asks for an effort it
\* takes, whatever other requests learn, demote and persist meanwhile, as long
\* as every list of the model has been read whole.
HonestRetryAccepted ==
    \A r \in Requests :
        doing[r] = "third" /\ Honest(model[r]) /\ model[r] \notin misread
            => Last(posted[r]).effort \in Accepts[model[r]]

\* "Held for the whole relay" (responses_passthrough.go:29), and not longer: on
\* every path a slot is given back exactly once, so a request that waits for one
\* waits for a request that is still being served.
SlotsAccounted == slots = Cardinality({r \in Requests : doing[r] \in Holding})
============================================================================
