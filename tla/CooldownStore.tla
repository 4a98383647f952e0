--------------------------- MODULE CooldownStore ---------------------------
(***************************************************************************)
(* The file that holds one scope's cooldown, and the update protocol that  *)
(* guards it (contrib/opencode/rate-limit-retry/store.ts).  Every OpenCode *)
(* process updates the same file: it makes a lock directory, writes its    *)
(* pid into it, reads the record, replaces it by a rename, and removes the *)
(* directory by its name.  A process that finds the directory reads the    *)
(* pid in it, and removes the directory when no such process exists.       *)
(*                                                                         *)
(* Processes exit or die at any point; a pid is not used again.  Where a   *)
(* caller of update comes from and goes to is in RateLimitPlugin.          *)
(***************************************************************************)
EXTENDS RateLimitPolicy, FiniteSets

CONSTANTS
    Proc,     \* OpenCode processes
    Tries,    \* attempts at the lock directory, 100 in the code
    Free,     \* no lock directory
    NoPid     \* a lock directory in which no pid has been written

ASSUME StoreAssumption ==
    /\ IsFiniteSet(Proc)
    /\ Tries \in Nat \ {0}
    /\ Free \notin Proc
    /\ NoPid \notin Proc
    /\ Free # NoPid

VARIABLES
    record,   \* the scope's file
    lock,     \* the lock directory
    now,      \* the clock
    pc,       \* per process: where it is
    failure,  \* ... the error it has in hand, to record and to decide upon
    tries,    \* ... attempts left at the lock directory
    seen,     \* ... the pid it read in the lock directory
    draft,    \* ... the record it is about to write
    promised  \* history: the latest deadline that was written to the file

disk == <<record, lock>>
updating == <<tries, seen, draft>>

\* Where a process is within update ...
Updating == {"lock", "pid", "undo", "probe", "kill", "stale", "read", "write", "release"}

\* ... and where it believes to be the only one there.
Inside == {"read", "write", "release"}

Failures ==
    [status : {"limited"}, kind : {"quota", "rate"}, supplied : Nat \cup {NoHeader}]
    \cup [status : {"server"}, kind : {"quota", "transient"}, supplied : Nat \cup {NoHeader}]
    \cup [status : {"ok", "none"}, kind : {"quota", "transient", "permanent"},
          supplied : {NoHeader}]

\* What a hook throws carries no status: classify calls it permanent.
Thrown == [status |-> "none", kind |-> "permanent", supplied |-> NoHeader]

\* The processes that exist.
Live == {p \in Proc : pc[p] # "exited"}

StoreInit ==
    /\ record = NoRecord
    /\ lock = Free
    /\ tries = [p \in Proc |-> Tries]
    /\ seen = [p \in Proc |-> Free]
    /\ draft = [p \in Proc |-> NoRecord]
    /\ promised = 0

Goto(p, from, to) ==
    /\ pc[p] = from
    /\ pc' = [pc EXCEPT ![p] = to]

----------------------------------------------------------------------------
(* update.                                                                 *)

\* Fault: the lock directory is created with "recursive", which does not fail
\* on one that exists.
MakeLockRecursive(p) ==
    /\ tries[p] > 0
    /\ Goto(p, "lock", "pid")
    /\ lock' = IF lock = Free THEN NoPid ELSE lock
    /\ UNCHANGED <<record, now, updating, failure, promised>>

\* mkdir: the one step that is atomic between processes.
MakeLock(p) ==
    /\ tries[p] > 0
    /\ lock = Free
    /\ Goto(p, "lock", "pid")
    /\ lock' = NoPid
    /\ UNCHANGED <<record, now, updating, failure, promised>>

\* EEXIST.
FindLock(p) ==
    /\ tries[p] > 0
    /\ lock # Free
    /\ Goto(p, "lock", "probe")
    /\ UNCHANGED <<disk, now, updating, failure, promised>>

\* Fault: giving up runs the finally block too.
GiveUpReleasing(p) ==
    /\ tries[p] = 0
    /\ Goto(p, "lock", "failed")
    /\ lock' = Free
    /\ tries' = [tries EXCEPT ![p] = Tries]
    /\ failure' = [failure EXCEPT ![p] = Thrown]
    /\ UNCHANGED <<record, now, seen, draft, promised>>

\* "Cooldown storage is busy".
GiveUp(p) ==
    /\ tries[p] = 0
    /\ Goto(p, "lock", "failed")
    /\ tries' = [tries EXCEPT ![p] = Tries]
    /\ failure' = [failure EXCEPT ![p] = Thrown]
    /\ UNCHANGED <<disk, now, seen, draft, promised>>

\* The pid goes into whatever directory has the name by now.
WritePid(p) ==
    /\ lock # Free
    /\ Goto(p, "pid", "read")
    /\ lock' = p
    /\ UNCHANGED <<record, now, updating, failure, promised>>

\* The directory has gone, or the disk refuses: the error is rethrown ...
PidFails(p) ==
    /\ Goto(p, "pid", "undo")
    /\ failure' = [failure EXCEPT ![p] = Thrown]
    /\ UNCHANGED <<disk, now, updating, promised>>

\* ... once the directory has been removed, whosever it is.
Undo(p) ==
    /\ Goto(p, "undo", "failed")
    /\ lock' = Free
    /\ tries' = [tries EXCEPT ![p] = Tries]
    /\ UNCHANGED <<record, now, seen, draft, failure, promised>>

\* The pid of the process that holds the lock, if the directory is still there
\* and a pid is in it.
ReadPid(p) ==
    /\ lock \in Proc
    /\ Goto(p, "probe", "kill")
    /\ seen' = [seen EXCEPT ![p] = lock]
    /\ UNCHANGED <<disk, now, tries, draft, failure, promised>>

\* Ten milliseconds later, another attempt.
TryAgain(p, from) ==
    /\ Goto(p, from, "lock")
    /\ tries' = [tries EXCEPT ![p] = @ - 1]
    /\ seen' = [seen EXCEPT ![p] = Free]

NoPidRead(p) ==
    /\ lock \notin Proc
    /\ TryAgain(p, "probe")
    /\ UNCHANGED <<disk, now, draft, failure, promised>>

\* kill(pid, 0) finds the process.
OwnerExists(p) ==
    /\ seen[p] \in Live
    /\ TryAgain(p, "kill")
    /\ UNCHANGED <<disk, now, draft, failure, promised>>

\* ESRCH.
OwnerGone(p) ==
    /\ seen[p] \notin Live
    /\ Goto(p, "kill", "stale")
    /\ UNCHANGED <<disk, now, updating, failure, promised>>

\* rm, by name: it need not be the directory whose pid was read.
RemoveStale(p) ==
    /\ TryAgain(p, "stale")
    /\ lock' = Free
    /\ UNCHANGED <<record, now, draft, failure, promised>>

\* change(await read(scope)).
ReadRecord(p) ==
    /\ Goto(p, "read", "write")
    /\ draft' = [draft EXCEPT ![p] =
                     CooldownFor(failure[p].kind, failure[p].supplied, record, now)]
    /\ UNCHANGED <<disk, now, tries, seen, failure, promised>>

\* The temporary file is written and renamed over the record.
Replace(p) ==
    /\ Goto(p, "write", "release")
    /\ record' = draft[p]
    /\ promised' = AtLeast(promised, draft[p].until)
    /\ draft' = [draft EXCEPT ![p] = NoRecord]
    /\ UNCHANGED <<lock, now, tries, seen, failure>>

\* The disk refuses the read or the write.
StoreFails(p) ==
    /\ \E from \in {"read", "write"} : Goto(p, from, "release")
    /\ failure' = [failure EXCEPT ![p] = Thrown]
    /\ draft' = [draft EXCEPT ![p] = NoRecord]
    /\ UNCHANGED <<disk, now, tries, seen, promised>>

\* The finally block.
Release(p) ==
    /\ Goto(p, "release", "failed")
    /\ lock' = Free
    /\ tries' = [tries EXCEPT ![p] = Tries]
    /\ UNCHANGED <<record, now, seen, draft, failure, promised>>

Update(p) ==
    \/ MakeLock(p)
    \/ FindLock(p)
    \/ GiveUp(p)
    \/ WritePid(p)
    \/ PidFails(p)
    \/ Undo(p)
    \/ ReadPid(p)
    \/ NoPidRead(p)
    \/ OwnerExists(p)
    \/ OwnerGone(p)
    \/ RemoveStale(p)
    \/ ReadRecord(p)
    \/ Replace(p)
    \/ StoreFails(p)
    \/ Release(p)
============================================================================
