------------------------------- MODULE Sessions -------------------------------
(***************************************************************************)
(* Profiles and sessions: the configuration file, the credential store of  *)
(* the operating system, and the session the App holds.  No two of them    *)
(* change together: each may fail alone, the process may stop in between,  *)
(* and a write that a login has given up waiting for is still made.        *)
(*                                                                         *)
(* A session is known by the instance that issued it.  The order of the    *)
(* profiles in the file is left out: a launch may begin with any of them.  *)
(* A handler that fails before it changed anything is a stutter.           *)
(***************************************************************************)
EXTENDS Naturals, FiniteSets

CONSTANTS
    Profiles,    \* profile ids
    Instances,   \* instance URLs
    Insecure,    \* the http:// ones, which the file format refuses
    Starter,     \* the starter profile of a first run
    StarterUrl,  \* and its instance
    MaxLate,     \* bound on the abandoned writes of the credential store
    None

ASSUME SessionConstants ==
    /\ Starter \in Profiles
    /\ StarterUrl \in Instances \ Insecure
    /\ None \notin Instances
    /\ \A S \in SUBSET Profiles : None \notin [S -> Instances]
    /\ MaxLate \in Nat

VARIABLES
    file,     \* the profiles of the configuration file, or None: no file yet
    keyring,  \* the stored session of each profile, or None
    up,       \* the process runs
    active,   \* state.active
    busy,     \* the profile command whose handler is under way, or None
    late,     \* the writes of logins that timed out
    out,      \* history: the profiles last reported without a session
    stray     \* history: the entries written late, or for a context that
              \* the file does not have

vars == <<file, keyring, up, active, busy, late, out, stray>>

Running(op, id, url, phase) == [op |-> op, id |-> id, url |-> url, phase |-> phase]
Context(id, url, session) == [id |-> id, url |-> url, session |-> session]

Configured == IF file = None THEN {} ELSE DOMAIN file
With(id, url) == [p \in Configured \union {id} |-> IF p = id THEN url ELSE file[p]]
Without(id) == [p \in Configured \ {id} |-> file[p]]

Init ==
    /\ file = None
    /\ keyring = [p \in Profiles |-> None]
    /\ up = FALSE
    /\ active = Context(Starter, StarterUrl, None)
    /\ busy = None
    /\ late = {}
    /\ out = {}
    /\ stray = {}

-----------------------------------------------------------------------------
(* Launch and end.  A store that cannot be read starts the App anonymous.  *)

Restored(id) == {None, keyring[id]}

FirstLaunch ==
    /\ ~ up /\ file = None
    /\ file' \in {None, [p \in {Starter} |-> StarterUrl]}
    /\ \E session \in Restored(Starter) : active' = Context(Starter, StarterUrl, session)
    /\ up' = TRUE
    /\ UNCHANGED <<keyring, busy, late, out, stray>>

Launch ==
    /\ ~ up
    /\ \E id \in Configured, session \in {None} \union {keyring[p] : p \in Configured} :
        /\ session \in Restored(id)
        /\ active' = Context(id, file[id], session)
    /\ up' = TRUE
    /\ UNCHANGED <<file, keyring, busy, late, out, stray>>

(* Quit, or a crash at any point: what was not written is not written.     *)
Stop ==
    /\ up
    /\ up' = FALSE
    /\ busy' = None
    /\ late' = {}
    /\ UNCHANGED <<file, keyring, active, out, stray>>

-----------------------------------------------------------------------------
(* The commands begin.  One runs at a time.                                *)

Begin(command) ==
    /\ up /\ busy = None
    /\ busy' = command
    /\ UNCHANGED <<file, keyring, up, active, late, out, stray>>

StartLogin ==
    /\ Cardinality(late) < MaxLate
    /\ Begin(Running("login", active.id, active.url, "api"))

StartLogout == Begin(Running("logout", active.id, active.url, "delete"))

StartSwitch == \E id \in Configured : Begin(Running("switch", id, file[id], "read"))

(* Mutant of StartCreate: only the active profile counts as replaced.      *)
StartCreateBesideActive ==
    \E id \in Profiles, url \in Instances :
        Begin(Running("create", id, url, IF id = active.id THEN "delete" ELSE "save"))

(* Only what replaces a profile has a session to delete.                   *)
StartCreate ==
    \E id \in Profiles, url \in Instances :
        Begin(Running("create", id, url,
                      IF id = active.id \/ id \in Configured THEN "delete" ELSE "save"))

StartDelete ==
    \E id \in Configured \ {active.id} : Begin(Running("delete", id, file[id], "delete"))

-----------------------------------------------------------------------------
(* The credential store.  It may be slow, refuse, or hang.                 *)

In(op, phase) == busy # None /\ busy.op \in op /\ busy.phase = phase
Phase(phase) == busy' = [busy EXCEPT !.phase = phase]
GiveUp == busy' = None

StoreWrites ==
    /\ In({"login"}, "put")
    /\ keyring' = [keyring EXCEPT ![busy.id] = busy.url]
    /\ stray' = IF busy.id \in Configured /\ file[busy.id] = busy.url
                THEN stray \ {busy.id} ELSE stray \union {busy.id}
    /\ out' = out \ {busy.id}
    /\ Phase("stored")
    /\ UNCHANGED <<file, up, active, late>>

LateWrite ==
    \E write \in late :
        /\ keyring' = [keyring EXCEPT ![write.id] = write.url]
        /\ stray' = stray \union {write.id}
        /\ late' = late \ {write}
        /\ UNCHANGED <<file, up, active, busy, out>>

(* Mutant of StoreDeletes: the session stays.                              *)
StoreDeletesNothing ==
    /\ In({"logout", "create", "delete"}, "delete")
    /\ Phase("save")
    /\ UNCHANGED <<file, keyring, up, active, late, out, stray>>

StoreDeletes ==
    /\ In({"logout", "create", "delete"}, "delete")
    /\ keyring' = [keyring EXCEPT ![busy.id] = None]
    /\ stray' = stray \ {busy.id}
    /\ Phase("save")
    /\ UNCHANGED <<file, up, active, late, out>>

StoreRefuses ==
    /\ In({"login"}, "put") \/ In({"switch"}, "read")
       \/ In({"logout", "create", "delete"}, "delete")
    /\ GiveUp
    /\ UNCHANGED <<file, keyring, up, active, late, out, stray>>

-----------------------------------------------------------------------------
(* login.                                                                  *)

Authenticated ==
    /\ In({"login"}, "api")
    /\ Phase("put")
    /\ UNCHANGED <<file, keyring, up, active, late, out, stray>>

Rejected ==
    /\ In({"login"}, "api")
    /\ GiveUp
    /\ UNCHANGED <<file, keyring, up, active, late, out, stray>>

LoggedIn ==
    /\ In({"login"}, "stored")
    /\ active' = [active EXCEPT !.session = busy.url]
    /\ GiveUp
    /\ UNCHANGED <<file, keyring, up, late, out, stray>>

(* The deadline drops the future; a blocking write goes on without it.     *)
LoginTimesOut ==
    /\ busy # None /\ busy.op = "login"
    /\ late' = IF busy.phase = "put" THEN late \union {[id |-> busy.id, url |-> busy.url]}
               ELSE late
    /\ GiveUp
    /\ UNCHANGED <<file, keyring, up, active, out, stray>>

-----------------------------------------------------------------------------
(* The other commands end.                                                 *)

LoggedOut ==
    /\ In({"logout"}, "save")
    /\ active' = [active EXCEPT !.session = None]
    /\ out' = out \union {busy.id}
    /\ GiveUp
    /\ UNCHANGED <<file, keyring, up, late, stray>>

Switched ==
    /\ In({"switch"}, "read")
    /\ active' = Context(busy.id, busy.url, keyring[busy.id])
    /\ GiveUp
    /\ UNCHANGED <<file, keyring, up, late, out, stray>>

NewFile == IF busy.op = "create" THEN With(busy.id, busy.url) ELSE Without(busy.id)

Saves ==
    /\ \A p \in DOMAIN NewFile : NewFile[p] \notin Insecure
    /\ file' = NewFile

Created ==
    /\ In({"create"}, "save")
    /\ Saves
    /\ active' = Context(busy.id, busy.url, None)
    /\ out' = out \union {busy.id}
    /\ GiveUp
    /\ UNCHANGED <<keyring, up, late, stray>>

Deleted ==
    /\ In({"delete"}, "save")
    /\ Saves
    /\ out' = out \union {busy.id}
    /\ GiveUp
    /\ UNCHANGED <<keyring, up, active, late, stray>>

(* Mutant of SaveFails: the App is switched before the file is saved.      *)
SaveFailsSwitched ==
    /\ In({"create", "delete"}, "save")
    /\ file' = file \/ Saves
    /\ active' = IF busy.op = "create" THEN Context(busy.id, busy.url, None) ELSE active
    /\ GiveUp
    /\ UNCHANGED <<keyring, up, late, out, stray>>

(* The error may also come after the rename: then the file is the new one. *)
(* The session that was deleted before stays deleted.                      *)
SaveFails ==
    /\ In({"create", "delete"}, "save")
    /\ file' = file \/ Saves
    /\ GiveUp
    /\ UNCHANGED <<keyring, up, active, late, out, stray>>

(* `set` rewrites the file, or writes one without profiles.                *)
Configure ==
    /\ up /\ busy = None
    /\ file = None
    /\ file' = [p \in {} |-> None]
    /\ UNCHANGED <<keyring, up, active, busy, late, out, stray>>

Answer ==
    \/ StoreWrites \/ StoreDeletes \/ StoreRefuses \/ Authenticated \/ Rejected
    \/ LoggedIn \/ LoggedOut \/ Switched \/ Created \/ Deleted \/ SaveFails

Next ==
    \/ FirstLaunch \/ Launch \/ Stop
    \/ StartLogin \/ StartLogout \/ StartSwitch \/ StartCreate \/ StartDelete \/ Configure
    \/ Answer \/ LoginTimesOut \/ LateWrite

Spec == Init /\ [][Next]_vars

-----------------------------------------------------------------------------
Files == UNION {[S -> Instances \ Insecure] : S \in SUBSET Profiles}
Contexts == [id: Profiles, url: Instances, session: Instances \union {None}]
Commands ==
    [op: {"login", "logout", "switch", "create", "delete"}, id: Profiles, url: Instances,
     phase: {"api", "put", "stored", "read", "delete", "save"}]

TypeOK ==
    /\ file \in Files \union {None}
    /\ keyring \in [Profiles -> Instances \union {None}]
    /\ up \in BOOLEAN
    /\ active \in Contexts
    /\ busy \in Commands \union {None}
    /\ late \subseteq [id: Profiles, url: Instances]
    /\ out \subseteq Profiles
    /\ stray \subseteq Profiles

(* A stored session is for the instance its profile is configured with, so *)
(* that no launch and no switch shows one server the token of another.     *)
(* Two kinds of entries are excepted.  One was written late, by a login    *)
(* that had timed out.  The other was written on time by a login in a      *)
(* context the file does not have: a save that failed past its rename      *)
(* leaves the App on the old context and the file with the new one, which  *)
(* may name another instance for the profile, or not have the profile.     *)
StoredFitsFile ==
    \A p \in Configured \ stray : keyring[p] \in {None, file[p]}

(* A profile that was reported logged out, deleted or new has no stored    *)
(* session, whatever failed or crashed before, until the next login; only  *)
(* an entry of those two kinds brings one back.                            *)
LoggedOutStaysOut ==
    \A p \in out \ stray : keyring[p] = None

(* The App never runs on a profile the file does not have, but for the     *)
(* starter profile that could not be written down.                         *)
ActiveIsConfigured ==
    up => active.id \in Configured \/ active.id = Starter

(* A login that does not succeed leaves the credential store untouched     *)
(* (src/profiles/mod.rs lines 38 to 41): only a login that is waited for   *)
(* writes.  A login that timed out writes later.                           *)
FailedLoginLeavesStore ==
    [][\A p \in Profiles :
        keyring'[p] \notin {None, keyring[p]} => In({"login"}, "put") /\ busy.id = p]_vars

(* After a first run the client launches (src/main.rs lines 83 to 85): the *)
(* file never lacks a profile to begin with.  `set` after a first run that *)
(* could not write its file breaks this.                                   *)
NextLaunchWorks == file # None => Configured # {}
=============================================================================
