--------------------------- MODULE EffortLevels ----------------------------
(***************************************************************************)
(* The cache of effort scales that upstream has taught                     *)
(* (internal/server/reasoning_levels.go): a map behind a lock, and a file  *)
(* that is rewritten in place after each change, outside the lock.  Every  *)
(* action is a step of one request's goroutine; where the request comes    *)
(* from and what it does with the scale is in EffortRecovery.              *)
(***************************************************************************)
EXTENDS EffortScale

CONSTANTS Requests, Models

ASSUME CacheAssumption == IsFiniteSet(Requests) /\ IsFiniteSet(Models)

VARIABLES
    taught,    \* the map: scales of the models that have been taught
    file,      \* reasoning-levels.json: its map, or torn while it is rewritten
    doing,        \* per request: where its goroutine is
    after,     \* ... where it goes when the change is persisted
    demoted,   \* ... the scale DemoteTop returns
    snapshot   \* ... the map it has marshalled

cache == <<taught, file>>
changing == <<after, demoted, snapshot>>

\* The scales of some of the models.
IsTable(table) ==
    /\ DOMAIN table \subseteq Models
    /\ table \in [DOMAIN table -> Seq(Effort)]
NoTable == [m \in {} |-> <<>>]

With(table, m, scale) ==
    [n \in DOMAIN table \cup {m} |-> IF n = m THEN scale ELSE table[n]]

Stored(table) == [torn |-> FALSE, table |-> table]
Torn == [torn |-> TRUE, table |-> NoTable]

\* A missing file holds nothing.
CacheInit ==
    /\ taught = NoTable
    /\ file = Stored(NoTable)
    /\ after = [r \in Requests |-> "relay"]
    /\ demoted = [r \in Requests |-> <<>>]
    /\ snapshot = [r \in Requests |-> NoTable]

Goto(r, from, to) ==
    /\ doing[r] = from
    /\ doing' = [doing EXCEPT ![r] = to]

LevelsForModel(m) ==
    IF m \in DOMAIN taught /\ taught[m] # <<>> THEN taught[m] ELSE DefaultReasoningLevels

----------------------------------------------------------------------------
(* Learn, DemoteTop and persist.                                           *)

\* A list that names no level but none and max, or too many, is dropped.
Learn(r, m, names) ==
    /\ doing[r] = "learn"
    /\ IF Sane(Taught(names))
       THEN /\ doing' = [doing EXCEPT ![r] = "marshal"]
            /\ after' = [after EXCEPT ![r] = "choose"]
            /\ taught' = With(taught, m, Taught(names))
       ELSE /\ doing' = [doing EXCEPT ![r] = "choose"]
            /\ UNCHANGED <<taught, after>>
    /\ UNCHANGED <<file, demoted, snapshot>>

\* Fault: DemoteTop drops the last level too.
DemoteToNothing(r, m) ==
    /\ Goto(r, "demote", "replace")
    /\ demoted' = [demoted EXCEPT ![r] = Front(LevelsForModel(m))]
    /\ UNCHANGED <<cache, after, snapshot>>

\* DemoteTop reads the scale in one critical section ...
DemoteRead(r, m) ==
    LET current == LevelsForModel(m)
    IN  /\ doing[r] = "demote"
        /\ IF Len(current) <= 1
           THEN /\ doing' = [doing EXCEPT ![r] = after[r]]
                /\ demoted' = [demoted EXCEPT ![r] = current]
           ELSE /\ doing' = [doing EXCEPT ![r] = "replace"]
                /\ demoted' = [demoted EXCEPT ![r] = Front(current)]
        /\ UNCHANGED <<cache, after, snapshot>>

\* ... and stores the shortened one in another.
DemoteWrite(r, m) ==
    /\ Goto(r, "replace", "marshal")
    /\ taught' = With(taught, m, demoted[r])
    /\ UNCHANGED <<file, changing>>

Marshal(r) ==
    /\ Goto(r, "marshal", "open")
    /\ snapshot' = [snapshot EXCEPT ![r] = taught]
    /\ UNCHANGED <<cache, after, demoted>>

\* os.WriteFile truncates the file first.
Truncate(r) ==
    /\ Goto(r, "open", "write")
    /\ file' = Torn
    /\ UNCHANGED <<taught, changing>>

\* If another writer has filled the file meanwhile and its text is the longer
\* one, its tail stays behind the new text.
WriteFile(r) ==
    /\ Goto(r, "write", after[r])
    /\ \/ file' = Stored(snapshot[r])
       \/ ~file.torn /\ file.table # snapshot[r] /\ file' = Torn
    /\ snapshot' = [snapshot EXCEPT ![r] = NoTable]
    /\ UNCHANGED <<taught, after, demoted>>

\* A failure is logged; the file is as it was, or has been truncated.
PersistFails(r) ==
    /\ \E from \in {"open", "write"} : Goto(r, from, after[r])
    /\ snapshot' = [snapshot EXCEPT ![r] = NoTable]
    /\ UNCHANGED <<cache, after, demoted>>

Persist(r) == Marshal(r) \/ Truncate(r) \/ WriteFile(r) \/ PersistFails(r)

----------------------------------------------------------------------------
(* LoadEffortLevelsCache, as the process starts.                           *)

\* A torn file is ignored, and so is an entry that is not sane.
LoadedLevels ==
    LET sane == {m \in DOMAIN file.table : Sane(file.table[m])}
    IN  IF file.torn THEN NoTable ELSE [m \in sane |-> file.table[m]]
============================================================================
