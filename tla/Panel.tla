------------------------------- MODULE Panel -------------------------------
(***************************************************************************)
(* The configuration and the web panel that changes it: internal/config    *)
(* (ApplyPatch, Save, Load) and the session, login and configuration       *)
(* handlers of internal/api/api.go.  Each handler takes the configuration  *)
(* lock several times and lets go of it in between, and sessions are in a  *)
(* map of their own, so that the requests of several administrators        *)
(* interleave; the process may stop and start again at any time.           *)
(*                                                                         *)
(* Of the configuration only the panel password and the upstream pool are  *)
(* kept: the one revokes sessions, the other is edited by position.  Pool  *)
(* entries are all enabled.  The key that was typed in for a base URL is   *)
(* named by that base, so that a key can be followed.                      *)
(***************************************************************************)
EXTENDS Naturals, Sequences, SequencesExt

CONSTANTS
    Admins,         \* browsers, each with at most one request in progress
    Passwords,      \* panel passwords other than the empty one
    Bases,          \* upstream base URLs
    LegacyBase,     \* the base of upstream_base and zen_api_key, if those are set
    NoKey,          \* an empty api_key
    NoPassword,     \* the empty panel_token: the panel is open
    MaxPuts,        \* bound: configuration changes between two starts
    MaxLogins,      \* bound: logins between two starts
    MaxPool         \* bound: entries of the pool

ASSUME PanelAssumption ==
    /\ LegacyBase \in Bases
    /\ NoKey \notin Bases
    /\ NoPassword \notin Passwords
    /\ MaxPuts \in Nat /\ MaxLogins \in Nat /\ MaxPool \in Nat \ {0}

Entries == [base : Bases, key : Bases \cup {NoKey}]
Tokens == Passwords \cup {NoPassword}
Pools == UNION {[1 .. n -> Entries] : n \in 0 .. MaxPool}
Configs == [password : Tokens, pool : Pools]

\* An entry with the key that was typed in for its base, or none.
Own(u) == u.key \in {NoKey, u.base}

VARIABLES
    env,        \* OPENCODE_CC_PANEL_TOKEN
    legacy,     \* are upstream_base and zen_api_key set?
    memory,     \* the Config
    disk,       \* config.json
    sessions,   \* the live sessions: [id, password], the password they were got with
    pc,         \* "idle", "verified" (login), "read", "applied", "saved" (PUT)
    job,        \* of a PUT: its patch and the password it has read; of a
                \* login: the password it has verified
    page,       \* the pool as each browser shows it
    logins,     \* logins so far
    puts,       \* configuration changes so far
    unsaved,    \* history: a Save has failed since the last one that did not
    slipped     \* history: a login or a change met another change half-way

requests == <<pc, job, page>>
vars == <<env, legacy, memory, disk, sessions, requests, logins, puts, unsaved, slipped>>

----------------------------------------------------------------------------
(* The configuration.                                                      *)

Legacy == [base |-> LegacyBase, key |-> LegacyBase]

\* migrateLegacyUpstream
Migrated(pool) == IF pool = <<>> /\ legacy THEN <<Legacy>> ELSE pool

\* Load and applyEnv: the environment overrides the file.
Loaded(file) ==
    [password |-> IF env # NoPassword THEN env ELSE file.password,
     pool |-> Migrated(file.pool)]

\* usableUpstreams and legacyUpstream: what requests are sent to, by place.
Usable(pool) ==
    LET keyed == {i \in DOMAIN pool : pool[i].key # NoKey}
    IN  IF keyed = {} /\ legacy THEN {<<1, Legacy>>} ELSE {<<i, pool[i]>> : i \in keyed}

\* A patch sets the password, or the whole pool; a row without a key keeps the
\* key at its place.
Patch(rows) == [kind |-> "upstreams", password |-> NoPassword, rows |-> rows]
PasswordPatch(p) == [kind |-> "panel_token", password |-> p, rows |-> <<>>]

Kept(rows, prev) ==
    [i \in DOMAIN rows |->
        IF rows[i].key = NoKey /\ i \in DOMAIN prev
        THEN [rows[i] EXCEPT !.key = prev[i].key] ELSE rows[i]]

ApplyPatch(c, patch) ==
    CASE patch.kind = "panel_token" -> [c EXCEPT !.password = patch.password]
      [] patch.kind = "upstreams" -> [c EXCEPT !.pool = Kept(patch.rows, @)]

Idle == [patch |-> Patch(<<>>), password |-> NoPassword]

\* publicConfig: keys are not shown.
Shown(pool) == [i \in DOMAIN pool |-> [pool[i] EXCEPT !.key = NoKey]]

----------------------------------------------------------------------------
(* The handlers.                                                           *)

Init ==
    /\ env \in Tokens
    /\ legacy \in BOOLEAN
    /\ disk \in {c \in Configs : \A i, j \in DOMAIN c.pool :
                    Own(c.pool[i]) /\ c.pool[i].key # NoKey
                    /\ (c.pool[i].base = c.pool[j].base => i = j)}
    /\ memory = Loaded(disk)
    /\ sessions = {}
    /\ pc = [a \in Admins |-> "idle"]
    /\ job = [a \in Admins |-> Idle]
    /\ page = [a \in Admins |-> Shown(memory.pool)]
    /\ logins = 0 /\ puts = 0
    /\ unsaved = FALSE /\ slipped = FALSE

Step(a, from, to) == pc[a] = from /\ pc' = [pc EXCEPT ![a] = to]

\* configHandler GET: the Settings page is opened.
View(a) ==
    /\ pc[a] = "idle"
    /\ page' = [page EXCEPT ![a] = Shown(memory.pool)]
    /\ UNCHANGED <<env, legacy, memory, disk, sessions, pc, job, logins, puts,
                   unsaved, slipped>>

\* What the Settings page sends for the rows it shows: all of them, with one
\* taken out, added, or given a new key.
Edited(rows) ==
    {rows}
    \cup {RemoveAt(rows, i) : i \in DOMAIN rows}
    \cup {[rows EXCEPT ![i].key = rows[i].base] : i \in DOMAIN rows}
    \cup IF Len(rows) >= MaxPool THEN {}
         ELSE {Append(rows, u) : u \in {e \in Entries : Own(e)}}

\* configHandler PUT notes the password that is about to change.
BeginPut(a) ==
    /\ Step(a, "idle", "read")
    /\ puts < MaxPuts
    /\ \E patch \in {PasswordPatch(p) : p \in Tokens} \cup {Patch(r) : r \in Edited(page[a])} :
          job' = [job EXCEPT ![a] = [patch |-> patch, password |-> memory.password]]
    /\ puts' = puts + 1
    /\ UNCHANGED <<env, legacy, memory, disk, sessions, page, logins, unsaved, slipped>>

\* Fault: the old password is read after the patch is applied.
ChangesPasswordLate(j) ==
    j.patch.kind = "panel_token" /\ j.patch.password # memory.password

\* Does the PUT change the password it has read?
ChangesPassword(j) ==
    j.patch.kind = "panel_token" /\ j.patch.password # j.password

\* The patch is applied in memory.  It slips when another PUT has changed the
\* password since this one read it.
Apply(a) ==
    /\ Step(a, "read", "applied")
    /\ memory' = ApplyPatch(memory, job[a].patch)
    /\ slipped' = (slipped \/ (job[a].patch.kind = "panel_token"
                                /\ job[a].password # memory.password))
    /\ UNCHANGED <<env, legacy, disk, sessions, job, page, logins, puts, unsaved>>

\* Fault: what is saved is the file with the patch.
SavedPatch(a) == ApplyPatch(disk, job[a].patch)

\* Save writes the whole configuration as it is then, and renames the file
\* into its place: a crash leaves the old one or the new one.
Saved(a) == memory

Save(a) ==
    /\ Step(a, "applied", "saved")
    /\ disk' = Saved(a)
    /\ unsaved' = FALSE
    /\ UNCHANGED <<env, legacy, memory, sessions, job, page, logins, puts, slipped>>

\* The file cannot be written: the handler returns an error; the patch stays
\* in memory, and the sessions of an old password stay too.
SaveFails(a) ==
    /\ Step(a, "applied", "idle")
    /\ unsaved' = TRUE
    /\ slipped' = (slipped \/ ChangesPassword(job[a]))
    /\ job' = [job EXCEPT ![a] = Idle]
    /\ UNCHANGED <<env, legacy, memory, disk, sessions, page, logins, puts>>

\* A new password revokes all sessions (invalidateSessions); the browser shows
\* the pool as it has become.
Finish(a) ==
    /\ Step(a, "saved", "idle")
    /\ sessions' = IF ChangesPassword(job[a]) THEN {} ELSE sessions
    /\ page' = [page EXCEPT ![a] = Shown(memory.pool)]
    /\ job' = [job EXCEPT ![a] = Idle]
    /\ UNCHANGED <<env, legacy, memory, disk, logins, puts, unsaved, slipped>>

\* Fault: an empty password matches an empty panel_token.
VerifiesEmpty == TRUE

\* Can a login succeed?  There is nothing to log in to without a password.
Verifies == memory.password # NoPassword

\* handleLogin verifies the password that was typed in.
Verify(a) ==
    /\ Step(a, "idle", "verified")
    /\ Verifies /\ logins < MaxLogins
    /\ job' = [job EXCEPT ![a].password = memory.password]
    /\ logins' = logins + 1
    /\ UNCHANGED <<env, legacy, memory, disk, sessions, page, puts, unsaved, slipped>>

\* It stores the session, under a fresh random token, later.  It slips when
\* the password is no longer the one it verified.
Store(a) ==
    /\ Step(a, "verified", "idle")
    /\ \E id \in 1 .. MaxLogins :
          /\ \A s \in sessions : s.id # id
          /\ sessions' = sessions \cup {[id |-> id, password |-> job[a].password]}
    /\ slipped' = (slipped \/ job[a].password # memory.password)
    /\ job' = [job EXCEPT ![a] = Idle]
    /\ UNCHANGED <<env, legacy, memory, disk, page, logins, puts, unsaved>>

\* handleLogout, or a request that finds the session expired (isValidSession).
End ==
    /\ \E s \in sessions : sessions' = sessions \ {s}
    /\ UNCHANGED <<env, legacy, memory, disk, requests, logins, puts, unsaved, slipped>>

\* The process stops, wherever its requests are, and starts again.  Browsers
\* keep showing what they show.
Restart ==
    /\ memory' = Loaded(disk)
    /\ sessions' = {}
    /\ pc' = [a \in Admins |-> "idle"]
    /\ job' = [a \in Admins |-> Idle]
    /\ unsaved' = FALSE /\ slipped' = FALSE
    /\ logins' = 0
    /\ UNCHANGED <<env, legacy, disk, page, puts>>

Next ==
    \/ \E a \in Admins :
          View(a) \/ BeginPut(a) \/ Apply(a) \/ Save(a) \/ SaveFails(a) \/ Finish(a)
          \/ Verify(a) \/ Store(a)
    \/ End \/ Restart

Spec == Init /\ [][Next]_vars

----------------------------------------------------------------------------
(* Properties.                                                             *)

Jobs == [patch : {PasswordPatch(p) : p \in Tokens} \cup {Patch(r) : r \in Pools},
         password : Tokens]

\* Types; a password that a login has verified, and so that of a session, is
\* one that was really set.
TypeOK ==
    /\ env \in Tokens /\ legacy \in BOOLEAN
    /\ memory \in Configs /\ disk \in Configs
    /\ sessions \subseteq [id : 1 .. MaxLogins, password : Passwords]
    /\ pc \in [Admins -> {"idle", "verified", "read", "applied", "saved"}]
    /\ job \in [Admins -> Jobs]
    /\ \A a \in Admins : pc[a] = "verified" => job[a].password \in Passwords
    /\ page \in [Admins -> Pools]
    /\ logins \in Nat /\ puts \in Nat
    /\ unsaved \in BOOLEAN /\ slipped \in BOOLEAN

\* A session that was got with another password than the present one is live
\* only while the PUT that changed it is at work, or because something slipped:
\* a login stored its session, or a PUT applied its password, across another
\* change, or a change could not be saved (api.go:215-220, 268-276).
StaleSessionsExplained ==
    \A s \in sessions : s.password # memory.password =>
        \/ slipped
        \/ \E a \in Admins : pc[a] \in {"applied", "saved"} /\ ChangesPassword(job[a])

\* Unless the last Save failed, or one is still to come, a restart changes
\* nothing: requests go to the same upstreams, and the panel has the same
\* password or the one that the environment sets (ApplyPatch, Save and Load
\* with concurrent PUTs and the legacy upstream).
RestartInvisible ==
    unsaved \/ (\E a \in Admins : pc[a] = "applied")
    \/ /\ Usable(Loaded(disk).pool) = Usable(memory.pool)
       /\ Loaded(disk).password \in {env, memory.password}

\* The promise of config.go:614-619: editing the list keeps the keys.  A key is
\* only used with the base it was typed in for.
KeysKept == \A i \in DOMAIN memory.pool : Own(memory.pool[i])
============================================================================
