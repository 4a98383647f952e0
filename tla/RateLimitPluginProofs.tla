----------------------- MODULE RateLimitPluginProofs -----------------------
(***************************************************************************)
(* Theorems about RateLimitPlugin for any number of processes, any times   *)
(* upstream asks for, and any options.  The argument about the lock: as    *)
(* long as no process has exited, nobody finds a dead owner, so the only   *)
(* steps that remove the directory are those of the process that made it.  *)
(***************************************************************************)
EXTENDS RateLimitPlugin, FiniteSetTheorems, TLAPS

----------------------------------------------------------------------------
(* The policy's operators.                                                 *)

\* A capped value is a natural number up to the cap.
LEMMA AtMostType ==
    ASSUME NEW n, NEW cap \in Nat
    PROVE  AtMost(n, cap) \in Nat
BY DEF AtMost

\* An estimated cooldown is a natural number, however the doubling grows.
LEMMA EstimateType ==
    ASSUME NEW kind, NEW failures
    PROVE  Estimate(kind, failures) \in Nat
<1>1. QuotaFallback \in Nat /\ RateCap \in Nat
  BY PolicyAssumption
<1> QED  BY <1>1, AtMostType DEF Estimate

\* cooldownFor yields a record whose deadline is no earlier than the one before.
LEMMA CooldownForLater ==
    ASSUME NEW kind \in RecordedKinds, NEW supplied \in Nat \cup {NoHeader},
           NEW old \in Records \cup {NoRecord}, NEW t \in Nat
    PROVE  /\ CooldownFor(kind, supplied, old, t) \in Records
           /\ CooldownFor(kind, supplied, old, t).until >= old.until
<1> DEFINE failures == Streak(old, t)
           until == Deadline(kind, supplied, failures, t)
<1>1. failures \in Nat \ {0}
  BY DEF Streak, Records, NoRecord
<1>2. until \in Nat
  BY EstimateType DEF Deadline
<1>3. CASE old # NoRecord /\ old.until > until
  <2>1. old \in Records
    BY <1>3
  <2>2. CooldownFor(kind, supplied, old, t)
            = [old EXCEPT !.failures = failures, !.updated = t]
    BY <1>3 DEF CooldownFor
  <2> HIDE DEF failures, until
  <2>3. /\ [old EXCEPT !.failures = failures, !.updated = t] \in Records
        /\ [old EXCEPT !.failures = failures, !.updated = t].until = old.until
        /\ old.until \in Nat
    BY <1>1, <2>1 DEF Records
  <2> QED  BY <2>2, <2>3
<1>4. CASE old = NoRecord
  BY <1>1, <1>2, <1>4 DEF CooldownFor, Records, NoRecord
<1>5. CASE old # NoRecord /\ ~(old.until > until)
  BY <1>1, <1>2, <1>5 DEF CooldownFor, Records
<1> QED  BY <1>3, <1>4, <1>5

\* A pause is never shorter than what is left of the deadline.
LEMMA DelayCoversDeadline ==
    ASSUME NEW rec \in Records \cup {NoRecord}, NEW n \in Nat,
           NEW native \in Nat \cup {NoNative}, NEW jitter \in Jitters(n), NEW t \in Nat
    PROVE  /\ Delay(rec, n, native, jitter, t) \in Nat
           /\ t + Delay(rec, n, native, jitter, t) >= rec.until
<1>1. rec.until \in Nat
  BY DEF Records, NoRecord
<1>2. Exponential(n) \in Nat
  BY PolicyAssumption, AtMostType DEF Exponential
<1>3. jitter \in Nat
  BY <1>2 DEF Jitters
<1>4. native \in Int
  BY DEF NoNative
<1> QED  BY <1>1, <1>2, <1>3, <1>4 DEF Delay, AtLeast

----------------------------------------------------------------------------
(* The inductive invariant.                                                *)

\* Past ReadPid a process knows a pid.
KillKnowsPid == \A p \in Proc : pc[p] = "kill" => seen[p] \in Proc

\* A process that has found the directory is in one of its attempts.
TriesLeft == \A p \in Proc : pc[p] \in {"probe", "kill", "stale"} => tries[p] > 0

\* A process that records has a failure that may be recorded, and one that is
\* about to write has a record to write.
RecordsReal ==
    \A p \in Proc :
        /\ pc[p] \in Updating \ {"undo", "release"} => failure[p].kind \in RecordedKinds
        /\ pc[p] = "write" => draft[p] \in Records

\* Nobody has found a dead owner.
NoStale == \A p \in Proc : pc[p] # "stale"

\* Between mkdir and the pid the directory is without one, and only one process
\* is there.
MakerAlone ==
    \A p \in Proc :
        pc[p] \in {"pid", "undo"} =>
            /\ lock = NoPid
            /\ \A q \in Proc : pc[q] \in {"pid", "undo"} => q = p

\* From the pid to the removal the directory is the process's own.
HolderOwns == \A p \in Proc : pc[p] \in Inside => lock = p

Owned == AllLive => NoStale /\ MakerAlone /\ HolderOwns

\* What is about to be written is no earlier than what it replaces, and what was
\* ever written is still in force.
DraftLater == AllLive => \A p \in Proc : pc[p] = "write" => draft[p].until >= record.until
PromiseKept == AllLive => promised <= record.until

\* Only an attempt that was turned away carries the mark.
MarkMeansUnsent ==
    \A p \in Proc :
        Gated(p) =>
            /\ pc[p] \in {"failed", "wait"}
            /\ pc[p] = "failed" => failure[p] = Thrown
            /\ record # NoRecord

IInv ==
    /\ TypeOK
    /\ KillKnowsPid
    /\ TriesLeft
    /\ RecordsReal
    /\ Owned
    /\ DraftLater
    /\ PromiseKept
    /\ MarkMeansUnsent
    /\ WaitsForDeadline

----------------------------------------------------------------------------
(* Type correctness.                                                       *)

LEMMA InitInv == Init => IInv
<1> USE PolicyAssumption, StoreAssumption, PluginAssumption
<1>1. Init => TypeOK
  BY DEF Init, StoreInit, TypeOK, Failures, Thrown
<1> QED
  BY <1>1 DEF Init, StoreInit, IInv, KillKnowsPid, TriesLeft, RecordsReal, Owned, NoStale, MakerAlone,
              HolderOwns, DraftLater, PromiseKept, MarkMeansUnsent, Gated, WaitsForDeadline,
              Updating, Inside, NoRecord

\* A hook's exception is one of the failures.
LEMMA ThrownType == Thrown \in Failures
BY DEF Thrown, Failures

LEMMA HookType ==
    ASSUME IInv, NEW p \in Proc, Hook(p)
    PROVE  TypeOK'
<1> USE DEF Goto
<1>0. TypeOK
  BY DEF IInv
<1> USE <1>0, ThrownType
<1>1. CASE Request(p)
  BY <1>1 DEF Request, TypeOK, disk, updating
<1>2. CASE Gate(p) \/ GateFails(p) \/ Send(p) \/ Forget(p)
  BY <1>2 DEF Gate, GateFails, Send, Forget, TypeOK, disk, updating, session
<1>3. CASE Answered(p)
  BY <1>3, PolicyAssumption DEF Answered, EndTurn, Forgotten, TypeOK, disk, updating
<1>4. ASSUME NEW f \in Answers, Limited(p, f) \/ Failed(p, f)
      PROVE  TypeOK'
  BY <1>4 DEF Limited, Failed, Answers, TypeOK, Updating, disk, updating, session
<1>5. ASSUME NEW native \in NativeDelays \cup {NoNative},
             NEW jitter \in Jitters(attempt[p] + 1),
             Retry(p, native, jitter)
      PROVE  TypeOK'
  <2>1. PICK delay \in {Delay(Looked(p), attempt[p] + 1, native, jitter, now)} :
            /\ Agrees(p, native, delay)
            /\ Goto(p, "failed", "wait")
            /\ attempt' = [attempt EXCEPT ![p] = @ + 1]
            /\ wake' = [wake EXCEPT ![p] = now + delay]
            /\ heeded' = [heeded EXCEPT ![p] = Looked(p).until]
            /\ failure' = [failure EXCEPT ![p] = Thrown]
            /\ UNCHANGED <<disk, now, updating, promised, entry>>
    BY <1>5 DEF Retry
  <2>2. Looked(p) \in Records \cup {NoRecord} /\ Looked(p).until \in Nat
    BY DEF Looked, TypeOK, Records, NoRecord
  <2>3. attempt[p] + 1 \in Nat /\ native \in Nat \cup {NoNative} /\ now \in Nat
    BY PluginAssumption, PolicyAssumption DEF TypeOK
  <2>4. delay \in Nat
    <3>1. Delay(Looked(p), attempt[p] + 1, native, jitter, now) \in Nat
      BY <2>2, <2>3, DelayCoversDeadline
    <3> QED  BY <3>1
  <2>5. attempt[p] + 1 \in 1 .. MaxRetries + 1
    BY <2>1, PolicyAssumption DEF Agrees, MayRetry, TypeOK
  <2> QED
    BY <2>1, <2>2, <2>3, <2>4, <2>5 DEF TypeOK, disk, updating
<1>6. ASSUME NEW native, NEW jitter, Stop(p, native, jitter)
      PROVE  TypeOK'
  BY <1>6, PolicyAssumption DEF Stop, EndTurn, Forgotten, TypeOK, disk, updating
<1>7. CASE DecideFails(p)
  BY <1>7, PolicyAssumption DEF DecideFails, EndTurn, Forgotten, TypeOK, disk, updating
<1> QED
  BY <1>1, <1>2, <1>3, <1>4, <1>5, <1>6, <1>7 DEF Hook

LEMMA UpdateType ==
    ASSUME IInv, NEW p \in Proc, Update(p), UNCHANGED session
    PROVE  TypeOK'
<1> USE DEF Goto
<1>0. TypeOK
  BY DEF IInv
<1> USE <1>0, ThrownType, StoreAssumption
<1>1. CASE MakeLock(p) \/ FindLock(p) \/ GiveUp(p) \/ WritePid(p) \/ PidFails(p) \/ Undo(p)
  BY <1>1 DEF MakeLock, FindLock, GiveUp, WritePid, PidFails, Undo, TypeOK, Updating,
              disk, updating, session
<1>2. CASE ReadPid(p) \/ OwnerGone(p)
  BY <1>2 DEF ReadPid, OwnerGone, TypeOK, Updating, disk, updating, session
<1>3. CASE NoPidRead(p) \/ OwnerExists(p) \/ RemoveStale(p)
  <2>1. tries[p] - 1 \in 0 .. Tries
    BY <1>3 DEF NoPidRead, OwnerExists, RemoveStale, TryAgain, IInv, TriesLeft, TypeOK
  <2> QED
    BY <1>3, <2>1 DEF NoPidRead, OwnerExists, RemoveStale, TryAgain, TypeOK, Updating,
                      disk, session
<1>4. CASE ReadRecord(p)
  <2>1. CooldownFor(failure[p].kind, failure[p].supplied, record, now) \in Records
    <3>1. pc[p] = "read"
      BY <1>4 DEF ReadRecord
    <3>2. failure[p].kind \in RecordedKinds
      BY <3>1 DEF IInv, RecordsReal, Updating
    <3>3. failure[p].supplied \in Nat \cup {NoHeader}
      BY DEF TypeOK, Failures
    <3>4. record \in Records \cup {NoRecord} /\ now \in Nat
      BY PluginAssumption DEF TypeOK
    <3> HIDE <1>0
    <3> QED  BY ONLY <3>2, <3>3, <3>4, CooldownForLater
  <2> QED
    BY <1>4, <2>1 DEF ReadRecord, TypeOK, Updating, disk, session
<1>5. CASE Replace(p)
  <2>1. draft[p].until \in Nat
    BY DEF TypeOK, Records, NoRecord
  <2> QED
    BY <1>5, <2>1 DEF Replace, AtLeast, TypeOK, Updating, session
<1>6. CASE StoreFails(p) \/ Release(p)
  BY <1>6 DEF StoreFails, Release, TypeOK, Updating, disk, session
<1> QED
  BY <1>1, <1>2, <1>3, <1>4, <1>5, <1>6 DEF Update

LEMMA ExitType ==
    ASSUME IInv, NEW p \in Proc, Exit(p)
    PROVE  TypeOK'
<1>0. TypeOK
  BY DEF IInv
<1> QED
  BY <1>0, ThrownType, PolicyAssumption, StoreAssumption
     DEF Exit, Forgotten, TypeOK, Updating, disk

LEMMA NextType == IInv /\ [Next]_vars => TypeOK'
<1> SUFFICES ASSUME IInv, [Next]_vars PROVE TypeOK'
  OBVIOUS
<1>0. TypeOK
  BY DEF IInv
<1>1. CASE Tick
  BY <1>0, <1>1, PluginAssumption DEF Tick, TypeOK, disk, updating, session
<1>2. CASE UNCHANGED vars
  BY <1>0, <1>2 DEF vars, TypeOK, disk, updating, session
<1> QED
  BY <1>1, <1>2, HookType, UpdateType, ExitType DEF Next

----------------------------------------------------------------------------
(* What a step leaves alone.                                               *)

\* A hook touches neither the disk nor another process, and enters update only
\* at its beginning.
LEMMA HookFrame ==
    ASSUME TypeOK, NEW p \in Proc, Hook(p)
    PROVE  /\ UNCHANGED <<disk, now, updating, promised>>
           /\ \A q \in Proc \ {p} : pc'[q] = pc[q] /\ failure'[q] = failure[q]
           /\ pc'[p] \in {"idle", "gate", "sent", "failed", "wait", "lock", pc[p]}
           /\ pc[p] = "exited" => pc'[p] = "exited"
           /\ pc'[p] \notin {"idle", "gate", "sent", "failed", "wait", "lock"}
                  => failure'[p] = failure[p]
           /\ pc'[p] = "lock" => \/ failure'[p].kind \in RecordedKinds
                                 \/ pc[p] = "lock" /\ failure'[p] = failure[p]
<1> DEFINE Moves(to, f) == /\ pc[p] # "exited"
                           /\ pc' = [pc EXCEPT ![p] = to]
                           /\ failure' = [failure EXCEPT ![p] = f]
           Frame == /\ UNCHANGED <<disk, now, updating, promised>>
                    /\ \/ \E to \in {"idle", "gate", "sent", "failed", "wait"}, f \in Failures :
                              Moves(to, f)
                       \/ \E f \in Failures : f.kind \in RecordedKinds /\ Moves("lock", f)
                       \/ pc' = pc /\ failure' = failure
<1> USE DEF Goto, TypeOK
<1>0. SUFFICES Frame
  <2>1. ASSUME NEW to, NEW f, Moves(to, f)
        PROVE  /\ pc'[p] = to /\ failure'[p] = f /\ pc[p] # "exited"
               /\ \A q \in Proc \ {p} : pc'[q] = pc[q] /\ failure'[q] = failure[q]
    BY <2>1
  <2> HIDE DEF Moves
  <2> QED  BY <1>0, <2>1
<1> USE ThrownType
<1>1. CASE Request(p)
  <2>1. failure[p] \in Failures /\ failure' = [failure EXCEPT ![p] = failure[p]]
    BY <1>1 DEF Request
  <2> QED  BY <1>1, <2>1 DEF Request
<1>2. CASE Gate(p) \/ GateFails(p) \/ Answered(p) \/ DecideFails(p)
  BY <1>2 DEF Gate, GateFails, Answered, DecideFails, EndTurn
<1>3. CASE Send(p)
  <2>1. failure[p] \in Failures /\ failure' = [failure EXCEPT ![p] = failure[p]]
    BY <1>3 DEF Send
  <2> QED  BY <1>3, <2>1 DEF Send
<1>4. CASE Forget(p)
  BY <1>4 DEF Forget
<1>5. ASSUME NEW f \in Answers, Limited(p, f) \/ Failed(p, f)
      PROVE  Frame
  <2>1. f \in Failures /\ (Recorded(f) => f.kind \in RecordedKinds)
    BY DEF Answers, Failures, Recorded, RecordedKinds
  <2> QED  BY <1>5, <2>1 DEF Limited, Failed
<1>6. ASSUME NEW native, NEW jitter, Retry(p, native, jitter) \/ Stop(p, native, jitter)
      PROVE  Frame
  BY <1>6 DEF Retry, Stop, EndTurn
<1> HIDE DEF Frame
<1> QED
  BY <1>1, <1>2, <1>3, <1>4, <1>5, <1>6 DEF Hook

\* Nobody comes back: if all are there after a step, all were there before it.
LEMMA AllLiveBefore ==
    ASSUME IInv, [Next]_vars, AllLive'
    PROVE  AllLive
<1>0. TypeOK
  BY DEF IInv
<1>1. \A p \in Proc : pc'[p] # "exited"
  BY DEF AllLive, Live
<1>2. ASSUME NEW p \in Proc, pc[p] = "exited"
      PROVE  FALSE
  <2>1. ASSUME NEW q \in Proc, Hook(q)  PROVE FALSE
    BY <1>0, <1>1, <1>2, <2>1, HookFrame
  <2>2. ASSUME NEW q \in Proc, Update(q)  PROVE FALSE
    BY <1>0, <1>1, <1>2, <2>2
       DEF Update, MakeLock, FindLock, GiveUp, WritePid, PidFails, Undo, ReadPid, NoPidRead,
           OwnerExists, OwnerGone, RemoveStale, TryAgain, ReadRecord, Replace, StoreFails,
           Release, Goto, TypeOK
  <2>3. ASSUME NEW q \in Proc, Exit(q)  PROVE FALSE
    BY <1>0, <1>1, <2>3 DEF Exit, TypeOK
  <2>4. CASE Tick \/ UNCHANGED vars
    BY <1>1, <1>2, <2>4 DEF Tick, vars
  <2> QED
    BY <2>1, <2>2, <2>3, <2>4 DEF Next
<1> QED
  BY <1>2 DEF AllLive, Live

\* Then no process is about to remove a dead owner's directory.
LEMMA NoneGone ==
    ASSUME IInv, AllLive, NEW p \in Proc
    PROVE  ~OwnerGone(p) /\ ~RemoveStale(p)
BY DEF IInv, Owned, NoStale, KillKnowsPid, AllLive, OwnerGone, RemoveStale, TryAgain, Goto

----------------------------------------------------------------------------
(* What a process keeps in memory during an update.                        *)

Memory == KillKnowsPid /\ TriesLeft /\ RecordsReal

LEMMA UpdateMemory ==
    ASSUME IInv, NEW p \in Proc, Update(p)
    PROVE  Memory'
<1> USE DEF Goto, TypeOK, KillKnowsPid, TriesLeft, RecordsReal, Memory, Updating
<1>0. TypeOK /\ Memory
  BY DEF IInv
<1> USE <1>0
<1>1. CASE MakeLock(p) \/ FindLock(p) \/ GiveUp(p) \/ WritePid(p) \/ PidFails(p) \/ Undo(p)
  BY <1>1 DEF MakeLock, FindLock, GiveUp, WritePid, PidFails, Undo, updating
<1>2. CASE ReadPid(p) \/ OwnerGone(p)
  BY <1>2 DEF ReadPid, OwnerGone, updating
<1>3. CASE NoPidRead(p) \/ OwnerExists(p) \/ RemoveStale(p)
  BY <1>3 DEF NoPidRead, OwnerExists, RemoveStale, TryAgain
<1>4. CASE ReadRecord(p)
  <2>1. CooldownFor(failure[p].kind, failure[p].supplied, record, now) \in Records
    <3>1. failure[p].kind \in RecordedKinds
      BY <1>4 DEF ReadRecord
    <3>2. failure[p].supplied \in Nat \cup {NoHeader}
      BY DEF Failures
    <3>3. record \in Records \cup {NoRecord} /\ now \in Nat
      BY PluginAssumption
    <3> QED  BY ONLY <3>1, <3>2, <3>3, CooldownForLater
  <2> QED  BY <1>4, <2>1 DEF ReadRecord
<1>5. CASE Replace(p) \/ StoreFails(p) \/ Release(p)
  BY <1>5 DEF Replace, StoreFails, Release
<1> QED
  BY <1>1, <1>2, <1>3, <1>4, <1>5 DEF Update

LEMMA NextMemory == IInv /\ [Next]_vars => Memory'
<1> SUFFICES ASSUME IInv, [Next]_vars PROVE Memory'
  OBVIOUS
<1>0. TypeOK /\ Memory
  BY DEF IInv, Memory
<1>1. ASSUME NEW p \in Proc, Hook(p)  PROVE Memory'
  <2>1. /\ tries' = tries /\ seen' = seen /\ draft' = draft
        /\ \A q \in Proc \ {p} : pc'[q] = pc[q] /\ failure'[q] = failure[q]
        /\ pc'[p] \in {"idle", "gate", "sent", "failed", "wait", "lock", pc[p]}
    BY <1>0, <1>1, HookFrame DEF updating
  <2>2. pc'[p] \in Updating \ {"undo", "release"} => failure'[p].kind \in RecordedKinds
    BY <1>0, <1>1, HookFrame DEF Memory, RecordsReal, Updating
  <2>3. KillKnowsPid' /\ TriesLeft'
    BY <1>0, <2>1 DEF Memory, KillKnowsPid, TriesLeft
  <2>4. RecordsReal'
    BY <1>0, <2>1, <2>2 DEF Memory, RecordsReal
  <2> QED  BY <2>3, <2>4 DEF Memory
<1>2. ASSUME NEW p \in Proc, Exit(p)  PROVE Memory'
  BY <1>0, <1>2 DEF Exit, Memory, KillKnowsPid, TriesLeft, RecordsReal, Updating, TypeOK
<1>3. CASE Tick \/ UNCHANGED vars
  BY <1>0, <1>3 DEF Tick, vars, updating, Memory, KillKnowsPid, TriesLeft, RecordsReal
<1> QED
  BY <1>1, <1>2, <1>3, UpdateMemory DEF Next

----------------------------------------------------------------------------
(* Whose directory it is.                                                  *)

LEMMA UpdateOwned ==
    ASSUME IInv, AllLive, NEW p \in Proc, Update(p)
    PROVE  NoStale' /\ MakerAlone' /\ HolderOwns'
<1> USE DEF Goto, TypeOK, NoStale, MakerAlone, HolderOwns, Inside
<1>0. TypeOK /\ NoStale /\ MakerAlone /\ HolderOwns
  BY DEF IInv, Owned
<1> USE <1>0, StoreAssumption
<1>1. CASE MakeLock(p)
  BY <1>1 DEF MakeLock
<1>2. CASE FindLock(p) \/ GiveUp(p)
  BY <1>2 DEF FindLock, GiveUp, disk
<1>3. CASE WritePid(p)
  BY <1>3 DEF WritePid
<1>4. CASE PidFails(p) \/ Undo(p)
  BY <1>4 DEF PidFails, Undo, disk
<1>5. CASE ReadPid(p) \/ NoPidRead(p) \/ OwnerExists(p)
  BY <1>5 DEF ReadPid, NoPidRead, OwnerExists, TryAgain, disk
<1>6. CASE ReadRecord(p) \/ Replace(p) \/ StoreFails(p)
  BY <1>6 DEF ReadRecord, Replace, StoreFails, disk
<1>7. CASE Release(p)
  BY <1>7 DEF Release
<1> QED
  BY <1>1, <1>2, <1>3, <1>4, <1>5, <1>6, <1>7, NoneGone DEF Update

LEMMA NextOwned == IInv /\ [Next]_vars => Owned'
<1> SUFFICES ASSUME IInv, [Next]_vars, AllLive'
             PROVE  NoStale' /\ MakerAlone' /\ HolderOwns'
  BY DEF Owned
<1>1. AllLive
  BY AllLiveBefore
<1>0. TypeOK /\ NoStale /\ MakerAlone /\ HolderOwns
  BY <1>1 DEF IInv, Owned
<1>2. ASSUME NEW p \in Proc, Hook(p)  PROVE NoStale' /\ MakerAlone' /\ HolderOwns'
  BY <1>0, <1>2, HookFrame DEF NoStale, MakerAlone, HolderOwns, Inside, disk
<1>3. ASSUME NEW p \in Proc, Exit(p)  PROVE FALSE
  BY <1>0, <1>3 DEF Exit, AllLive, Live, TypeOK
<1>4. CASE Tick \/ UNCHANGED vars
  BY <1>0, <1>4 DEF Tick, vars, disk, NoStale, MakerAlone, HolderOwns
<1> QED
  BY <1>1, <1>2, <1>3, <1>4, UpdateOwned DEF Next

----------------------------------------------------------------------------
(* What is written.                                                        *)

LEMMA UpdateWritten ==
    ASSUME IInv, AllLive, NEW p \in Proc, Update(p)
    PROVE  /\ \A q \in Proc : pc'[q] = "write" => draft'[q].until >= record'.until
           /\ promised' <= record'.until
           /\ record'.until >= record.until
<1> DEFINE Goal == /\ \A q \in Proc : pc'[q] = "write" => draft'[q].until >= record'.until
                   /\ promised' <= record'.until
                   /\ record'.until >= record.until
<1>0. /\ TypeOK /\ HolderOwns
      /\ \A q \in Proc : pc[q] = "write" => draft[q].until >= record.until
      /\ promised <= record.until
      /\ record.until \in Nat
  BY DEF IInv, Owned, DraftLater, PromiseKept, TypeOK, Records, NoRecord
<1> USE <1>0 DEF Goto, TypeOK
<1>1. CASE MakeLock(p) \/ FindLock(p) \/ GiveUp(p) \/ WritePid(p) \/ PidFails(p) \/ Undo(p)
  BY <1>1 DEF MakeLock, FindLock, GiveUp, WritePid, PidFails, Undo, disk, updating
<1>2. CASE ReadPid(p) \/ NoPidRead(p) \/ OwnerExists(p)
  BY <1>2 DEF ReadPid, NoPidRead, OwnerExists, TryAgain, disk
<1>3. CASE ReadRecord(p)
  <2>1. CooldownFor(failure[p].kind, failure[p].supplied, record, now).until >= record.until
    <3>1. failure[p].kind \in RecordedKinds
      BY <1>3 DEF ReadRecord, IInv, RecordsReal, Updating
    <3>2. failure[p].supplied \in Nat \cup {NoHeader}
      BY DEF Failures
    <3>3. record \in Records \cup {NoRecord} /\ now \in Nat
      BY PluginAssumption
    <3> QED  BY ONLY <3>1, <3>2, <3>3, CooldownForLater
  <2> QED  BY <1>3, <2>1 DEF ReadRecord, disk
<1>4. CASE Replace(p)
  <2>1. \A q \in Proc : pc[q] = "write" => q = p
    BY <1>4 DEF Replace, HolderOwns, Inside
  <2>2. draft[p].until >= record.until /\ draft[p].until \in Nat
    BY <1>4 DEF Replace, Records, NoRecord
  <2> QED  BY <1>4, <2>1, <2>2 DEF Replace, AtLeast
<1>5. CASE StoreFails(p) \/ Release(p)
  BY <1>5 DEF StoreFails, Release, disk
<1> QED
  BY <1>1, <1>2, <1>3, <1>4, <1>5, NoneGone DEF Update

LEMMA NextWritten ==
    ASSUME IInv, [Next]_vars
    PROVE  DraftLater' /\ PromiseKept' /\ (AllLive' => record'.until >= record.until)
<1> SUFFICES ASSUME AllLive'
             PROVE  /\ \A q \in Proc : pc'[q] = "write" => draft'[q].until >= record'.until
                    /\ promised' <= record'.until
                    /\ record'.until >= record.until
  BY DEF DraftLater, PromiseKept
<1>1. AllLive
  BY AllLiveBefore
<1>0. /\ TypeOK
      /\ \A q \in Proc : pc[q] = "write" => draft[q].until >= record.until
      /\ promised <= record.until
      /\ record.until >= record.until
  BY <1>1 DEF IInv, DraftLater, PromiseKept, TypeOK, Records, NoRecord
<1>2. CASE \E p \in Proc : Hook(p)
  BY <1>0, <1>2, HookFrame DEF disk, updating
<1>3. ASSUME NEW p \in Proc, Exit(p)  PROVE FALSE
  BY <1>0, <1>3 DEF Exit, AllLive, Live, TypeOK
<1>4. CASE Tick \/ UNCHANGED vars
  BY <1>0, <1>4 DEF Tick, vars, disk, updating
<1> QED
  BY <1>1, <1>2, <1>3, <1>4, UpdateWritten DEF Next

----------------------------------------------------------------------------
(* Marks and waits.                                                        *)

LEMMA UpdateSession ==
    ASSUME IInv, NEW p \in Proc, Update(p), UNCHANGED session
    PROVE  MarkMeansUnsent' /\ WaitsForDeadline'
<1>0. TypeOK /\ MarkMeansUnsent /\ WaitsForDeadline /\ Memory
  BY DEF IInv, Memory
<1>1. /\ pc[p] \notin {"failed", "wait"}
      /\ now' = now
      /\ \A q \in Proc \ {p} : pc'[q] = pc[q] /\ failure'[q] = failure[q]
      /\ pc'[p] # "wait"
  BY <1>0 DEF Update, MakeLock, FindLock, GiveUp, WritePid, PidFails, Undo, ReadPid, NoPidRead,
              OwnerExists, OwnerGone, RemoveStale, TryAgain, ReadRecord, Replace, StoreFails,
              Release, Goto, TypeOK, updating
<1>2. record # NoRecord => record' # NoRecord
  BY <1>0 DEF Update, MakeLock, FindLock, GiveUp, WritePid, PidFails, Undo, ReadPid, NoPidRead,
              OwnerExists, OwnerGone, RemoveStale, TryAgain, ReadRecord, Replace, StoreFails,
              Release, Goto, disk, Memory, RecordsReal, Records, NoRecord
<1>3. MarkMeansUnsent'
  BY <1>0, <1>1, <1>2 DEF MarkMeansUnsent, Gated, session
<1>4. WaitsForDeadline'
  BY <1>0, <1>1 DEF WaitsForDeadline, session
<1> QED
  BY <1>3, <1>4

LEMMA HookSession ==
    ASSUME IInv, NEW p \in Proc, Hook(p)
    PROVE  MarkMeansUnsent' /\ WaitsForDeadline'
<1> USE DEF Goto, TypeOK, MarkMeansUnsent, Gated, WaitsForDeadline
<1>0. TypeOK /\ MarkMeansUnsent /\ WaitsForDeadline
  BY DEF IInv
<1> USE <1>0
<1>1. CASE Request(p)
  BY <1>1 DEF Request, disk
<1>2. CASE Gate(p)
  <2>1. record # NoRecord
    BY <1>2, PluginAssumption DEF Gate, NoRecord
  <2> QED  BY <1>2, <2>1 DEF Gate, disk
<1>3. CASE GateFails(p) \/ Send(p)
  BY <1>3 DEF GateFails, Send, disk, session
<1>4. CASE Forget(p)
  BY <1>4 DEF Forget, disk
<1>5. CASE Answered(p)
  BY <1>5 DEF Answered, EndTurn, Forgotten, disk
<1>6. ASSUME NEW f \in Answers, Limited(p, f) \/ Failed(p, f)
      PROVE  MarkMeansUnsent' /\ WaitsForDeadline'
  BY <1>6 DEF Limited, Failed, disk, session
<1>7. ASSUME NEW native \in NativeDelays \cup {NoNative},
             NEW jitter \in Jitters(attempt[p] + 1),
             Retry(p, native, jitter)
      PROVE  MarkMeansUnsent' /\ WaitsForDeadline'
  <2>1. PICK delay \in {Delay(Looked(p), attempt[p] + 1, native, jitter, now)} :
            /\ delay <= MaxAutoWait
            /\ pc[p] = "failed"
            /\ pc' = [pc EXCEPT ![p] = "wait"]
            /\ wake' = [wake EXCEPT ![p] = now + delay]
            /\ heeded' = [heeded EXCEPT ![p] = Looked(p).until]
            /\ failure' = [failure EXCEPT ![p] = Thrown]
            /\ UNCHANGED <<disk, now, entry>>
    BY <1>7 DEF Retry, Agrees
  <2>2. Looked(p) \in Records \cup {NoRecord} /\ Looked(p).until \in Nat
    BY DEF Looked, Records, NoRecord
  <2>3. attempt[p] + 1 \in Nat /\ native \in Nat \cup {NoNative} /\ now \in Nat
    BY PluginAssumption, PolicyAssumption
  <2>4. delay \in Nat /\ now + delay >= Looked(p).until
    <3>1. /\ Delay(Looked(p), attempt[p] + 1, native, jitter, now) \in Nat
          /\ now + Delay(Looked(p), attempt[p] + 1, native, jitter, now) >= Looked(p).until
      BY <2>2, <2>3, DelayCoversDeadline
    <3> QED  BY <3>1
  <2>5. now + delay <= now + MaxAutoWait
    BY <2>1, <2>3, <2>4, PolicyAssumption
  <2>6. MarkMeansUnsent'
    BY <2>1 DEF disk
  <2>7. WaitsForDeadline'
    BY <2>1, <2>4, <2>5
  <2> QED  BY <2>6, <2>7
<1>8. ASSUME NEW native, NEW jitter, Stop(p, native, jitter)
      PROVE  MarkMeansUnsent' /\ WaitsForDeadline'
  BY <1>8 DEF Stop, EndTurn, Forgotten, disk
<1>9. CASE DecideFails(p)
  BY <1>9 DEF DecideFails, EndTurn, Forgotten, disk
<1> QED
  BY <1>1, <1>2, <1>3, <1>4, <1>5, <1>6, <1>7, <1>8, <1>9 DEF Hook

LEMMA NextSession == IInv /\ [Next]_vars => MarkMeansUnsent' /\ WaitsForDeadline'
<1> SUFFICES ASSUME IInv, [Next]_vars PROVE MarkMeansUnsent' /\ WaitsForDeadline'
  OBVIOUS
<1>0. TypeOK /\ MarkMeansUnsent /\ WaitsForDeadline
  BY DEF IInv
<1>1. ASSUME NEW p \in Proc, Exit(p)  PROVE MarkMeansUnsent' /\ WaitsForDeadline'
  BY <1>0, <1>1 DEF Exit, Forgotten, MarkMeansUnsent, Gated, WaitsForDeadline, TypeOK, disk
<1>2. CASE Tick
  <2>1. now \in Nat /\ now' = now + 1 /\ \A p \in Proc : wake[p] \in Nat
    BY <1>0, <1>2, PluginAssumption DEF Tick, TypeOK
  <2> QED
    BY <1>0, <1>2, <2>1, PolicyAssumption
       DEF Tick, MarkMeansUnsent, Gated, WaitsForDeadline, disk, session
<1>3. CASE UNCHANGED vars
  BY <1>0, <1>3 DEF vars, MarkMeansUnsent, Gated, WaitsForDeadline, disk, session
<1> QED
  BY <1>1, <1>2, <1>3, UpdateSession, HookSession DEF Next

----------------------------------------------------------------------------
(* The theorems.                                                           *)

LEMMA NextInv == IInv /\ [Next]_vars => IInv'
BY NextType, NextMemory, NextOwned, NextWritten, NextSession DEF IInv, Memory

LEMMA Invariant == Spec => []IInv
BY InitInv, NextInv, PTL DEF Spec

\* Every variable keeps its type; attempts stay within the retries allowed.
THEOREM TypeCorrect == Spec => []TypeOK
<1>1. IInv => TypeOK
  BY DEF IInv
<1> QED
  BY <1>1, Invariant, PTL

\* While every process is still running, the lock directory excludes.
THEOREM LockExcludes == Spec => []Exclusion
<1>1. IInv => Exclusion
  <2> SUFFICES ASSUME IInv, AllLive PROVE Cardinality(Holders) <= 1
    BY DEF Exclusion
  <2>1. Holders \subseteq {lock}
    BY DEF IInv, Owned, HolderOwns, Holders
  <2>2. IsFiniteSet({lock}) /\ Cardinality({lock}) = 1
    BY FS_Singleton
  <2>3. IsFiniteSet(Holders) /\ Cardinality(Holders) <= Cardinality({lock})
    BY <2>1, <2>2, FS_Subset
  <2> QED  BY <2>2, <2>3
<1> QED
  BY <1>1, Invariant, PTL

\* While every process is still running, no update moves the deadline back.
THEOREM DeadlineStays == Spec => DeadlineKept
<1>1. IInv /\ [Next]_vars => [AllLive => record'.until >= record.until]_record
  <2> SUFFICES ASSUME IInv, [Next]_vars, record' # record, AllLive
               PROVE  record'.until >= record.until
    OBVIOUS
  <2>1. PICK p \in Proc : Update(p)
    <3>1. TypeOK
      BY DEF IInv
    <3>2. ASSUME NEW q \in Proc, Hook(q)  PROVE FALSE
      BY <3>1, <3>2, HookFrame DEF disk
    <3> QED  BY <3>2 DEF Next, Exit, Tick, vars, disk
  <2> QED  BY <2>1, UpdateWritten
<1> QED
  BY <1>1, Invariant, PTL DEF Spec, DeadlineKept

\* While every process is still running, no request goes upstream before any
\* deadline that was ever recorded.
THEOREM NoRequestTooEarly == Spec => DeadlinesHonoured
<1> DEFINE Honoured == \A p \in Proc :
        pc[p] = "gate" /\ pc'[p] = "sent" /\ AllLive => promised <= now
<1>1. IInv /\ [Next]_vars => [Honoured]_pc
  <2> SUFFICES ASSUME IInv, [Next]_vars, NEW p \in Proc,
                      pc[p] = "gate", pc'[p] = "sent", AllLive
               PROVE  promised <= now
    OBVIOUS
  <2>0. TypeOK /\ promised <= record.until /\ record.until \in Nat /\ now \in Nat
    BY PluginAssumption DEF IInv, PromiseKept, TypeOK, Records, NoRecord
  <2>1. record.until <= now
    <3>1. ASSUME NEW q \in Proc, Update(q)  PROVE FALSE
      BY <2>0, <3>1
         DEF Update, MakeLock, FindLock, GiveUp, WritePid, PidFails, Undo, ReadPid, NoPidRead,
             OwnerExists, OwnerGone, RemoveStale, TryAgain, ReadRecord, Replace, StoreFails,
             Release, Goto, TypeOK
    <3>2. ASSUME NEW q \in Proc, Exit(q)  PROVE FALSE
      BY <2>0, <3>2 DEF Exit, TypeOK
    <3>3. ASSUME NEW q \in Proc, Hook(q)  PROVE record.until <= now
      BY <2>0, <3>3
         DEF Hook, Request, Gate, GateFails, Send, Forget, Answered, EndTurn, Limited, Failed,
             Retry, Stop, DecideFails, Goto, TypeOK
    <3> QED  BY <3>1, <3>2, <3>3 DEF Next, Tick, vars
  <2> QED  BY <2>0, <2>1 DEF TypeOK
<1> QED
  BY <1>1, Invariant, PTL DEF Spec, DeadlinesHonoured

\* A waiting session sleeps at least to the deadline it has read.
THEOREM WaitsLongEnough == Spec => []WaitsForDeadline
<1>1. IInv => WaitsForDeadline
  BY DEF IInv
<1> QED
  BY <1>1, Invariant, PTL

\* An attempt that went upstream is never decided upon as a gated one.
THEOREM GatedNeverSent == Spec => []GatedMeansUnsent
<1>1. IInv => GatedMeansUnsent
  BY DEF IInv, MarkMeansUnsent, GatedMeansUnsent
<1> QED
  BY <1>1, Invariant, PTL
============================================================================
