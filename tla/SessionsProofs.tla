---------------------------- MODULE SessionsProofs ----------------------------
(***************************************************************************)
(* Proofs about sessions, for every set of profiles and instances and any  *)
(* number of late writes: no profile gets the session of another instance, *)
(* and no session that was given up comes back.  The inductive invariant   *)
(* says two more things.  A profile that is not in the file has no stored  *)
(* session but a stray one (see Sessions), so that creating it exposes     *)
(* none; and when a logout, a creation or a deletion reports its success,  *)
(* the session is gone from the store, whichever way the command got there.*)
(***************************************************************************)
EXTENDS Sessions, TLAPS

UnknownHaveNoSession ==
    \A p \in Profiles \ Configured : p \notin stray => keyring[p] = None

Gone(command) ==
    command.op \in {"logout", "create", "delete"} /\ command.phase = "save"
        /\ command.id \notin stray => keyring[command.id] = None

CommandsDeleteFirst == busy # None => Gone(busy)

IndInv ==
    /\ TypeOK
    /\ StoredFitsFile
    /\ LoggedOutStaysOut
    /\ UnknownHaveNoSession
    /\ CommandsDeleteFirst

-----------------------------------------------------------------------------
(* What the file can be: a function from some profiles to instances.       *)
LEMMA FileShape ==
    ASSUME file \in Files \union {None}
    PROVE  /\ Configured \subseteq Profiles
           /\ \A p \in Configured : file[p] \in Instances \ Insecure
  BY DEF Files, Configured

(* What a successful save writes is a file, as far as the types go.        *)
LEMMA SavedFile ==
    ASSUME TypeOK, busy # None, Saves
    PROVE  /\ file' = NewFile
           /\ NewFile \in Files
           /\ Configured' = DOMAIN NewFile
  <1>1. busy.id \in Profiles /\ busy.url \in Instances
    BY DEF TypeOK, Commands
  <1>2. /\ With(busy.id, busy.url) \in [Configured \union {busy.id} -> Instances]
        /\ Without(busy.id) \in [Configured \ {busy.id} -> Instances]
    BY <1>1, FileShape DEF TypeOK, With, Without
  <1>3. PICK S \in SUBSET Profiles : NewFile \in [S -> Instances]
    BY <1>1, <1>2, FileShape DEF TypeOK, NewFile
  <1>4. NewFile \in [S -> Instances \ Insecure]
    BY <1>3 DEF Saves
  <1>5. NewFile # None
    BY <1>3, SessionConstants
  <1> QED
    BY <1>4, <1>5 DEF Saves, Files, Configured

LEMMA InitInvariant == Init => IndInv
  <1> SUFFICES ASSUME Init PROVE IndInv
    OBVIOUS
  <1>1. TypeOK
    BY SessionConstants DEF Init, TypeOK, Contexts, Context
  <1>2. Configured = {}
    BY DEF Init, Configured
  <1> QED
    BY <1>1, <1>2
    DEF Init, IndInv, StoredFitsFile, LoggedOutStaysOut, UnknownHaveNoSession,
        CommandsDeleteFirst

(* Steps that leave the file, the store and the two histories alone, and   *)
(* begin no command that is about to save.                                 *)
LEMMA QuietStep ==
    ASSUME IndInv, TypeOK', UNCHANGED <<file, keyring, out, stray>>,
           busy' # None => Gone(busy')
    PROVE  IndInv'
  BY DEF IndInv, StoredFitsFile, LoggedOutStaysOut, UnknownHaveNoSession,
         CommandsDeleteFirst, Configured, Gone

LEMMA LaunchStep ==
    ASSUME IndInv, FirstLaunch \/ Launch
    PROVE  IndInv'
  <1>1. CASE FirstLaunch
    <2>1. file' \in Files \union {None}
      BY <1>1, SessionConstants DEF FirstLaunch, Files
    <2>2. TypeOK'
      BY <1>1, <2>1, SessionConstants
      DEF IndInv, TypeOK, FirstLaunch, Restored, Context, Contexts
    <2>3. Configured = {} /\ Configured' \subseteq {Starter}
      BY <1>1, SessionConstants DEF FirstLaunch, Configured
    <2> QED
      BY <1>1, <2>2, <2>3, SessionConstants
      DEF IndInv, FirstLaunch, StoredFitsFile, LoggedOutStaysOut, UnknownHaveNoSession,
          CommandsDeleteFirst, Gone
  <1>2. CASE Launch
    <2>1. TypeOK'
      <3>1. PICK id \in Configured, session \in {None} \union {keyring[p] : p \in Configured} :
                session \in Restored(id) /\ active' = Context(id, file[id], session)
        BY <1>2 DEF Launch
      <3>2. active' \in Contexts
        BY <3>1, FileShape DEF IndInv, TypeOK, Restored, Context, Contexts
      <3> QED
        BY <1>2, <3>2 DEF IndInv, TypeOK, Launch
    <2> QED
      BY <1>2, <2>1, QuietStep DEF IndInv, CommandsDeleteFirst, Launch
  <1> QED
    BY <1>1, <1>2

LEMMA StopStep ==
    ASSUME IndInv, Stop
    PROVE  IndInv'
  <1>1. TypeOK'
    BY DEF IndInv, TypeOK, Stop
  <1> QED
    BY <1>1, QuietStep DEF Stop

(* A command begins: nothing but busy changes.  The creation of a profile  *)
(* that replaces none goes straight to the save, and none is stored then.  *)
LEMMA BeginStep ==
    ASSUME IndInv, StartLogin \/ StartLogout \/ StartSwitch \/ StartCreate \/ StartDelete
    PROVE  IndInv'
  <1> DEFINE Good(command) == command \in Commands /\ Gone(command)
  <1>1. SUFFICES ASSUME NEW command, Begin(command), Good(command)
                 PROVE  IndInv'
    <2>1. active.id \in Profiles /\ active.url \in Instances
      BY DEF IndInv, TypeOK, Contexts
    <2>2. \A id \in Configured : id \in Profiles /\ file[id] \in Instances
      BY FileShape DEF IndInv, TypeOK
    <2>3. CASE StartLogin
      BY <2>1, <2>3, <1>1 DEF StartLogin, Running, Commands, Gone
    <2>4. CASE StartLogout
      BY <2>1, <2>4, <1>1 DEF StartLogout, Running, Commands, Gone
    <2>5. CASE StartSwitch
      BY <2>2, <2>5, <1>1 DEF StartSwitch, Running, Commands, Gone
    <2>6. CASE StartCreate
      <3>1. PICK id \in Profiles, url \in Instances :
                Begin(Running("create", id, url,
                              IF id = active.id \/ id \in Configured THEN "delete" ELSE "save"))
        BY <2>6 DEF StartCreate
      <3>2. id \notin Configured /\ id \notin stray => keyring[id] = None
        BY <3>1 DEF IndInv, UnknownHaveNoSession
      <3> QED
        BY <3>1, <3>2, <1>1 DEF Running, Commands, Gone
    <2>7. CASE StartDelete
      BY <2>2, <2>7, <1>1 DEF StartDelete, Running, Commands, Gone
    <2> QED
      BY <2>3, <2>4, <2>5, <2>6, <2>7
  <1>2. TypeOK'
    BY <1>1 DEF IndInv, TypeOK, Begin
  <1> QED
    BY <1>1, <1>2, QuietStep DEF Begin

(* The commands that go on without touching file or store.                 *)
LEMMA PhaseStep ==
    ASSUME IndInv,
           StoreRefuses \/ Authenticated \/ Rejected \/ LoggedIn \/ Switched \/ LoginTimesOut
    PROVE  IndInv'
  <1>1. busy # None /\ busy \in Commands
    BY DEF IndInv, TypeOK, StoreRefuses, Authenticated, Rejected, LoggedIn, Switched,
           LoginTimesOut, In
  <1>2. TypeOK'
    BY <1>1 DEF IndInv, TypeOK, StoreRefuses, Authenticated, Rejected, LoggedIn, Switched,
                LoginTimesOut, In, Phase, GiveUp, Commands, Context, Contexts
  <1>3. busy' # None => Gone(busy')
    BY <1>1 DEF StoreRefuses, Authenticated, Rejected, LoggedIn, Switched, LoginTimesOut,
                Phase, GiveUp, Commands, Gone
  <1>4. UNCHANGED <<file, keyring, out, stray>>
    BY DEF StoreRefuses, Authenticated, Rejected, LoggedIn, Switched, LoginTimesOut
  <1> QED
    BY <1>2, <1>3, <1>4, QuietStep

LEMMA StoreWritesStep ==
    ASSUME IndInv, StoreWrites
    PROVE  IndInv'
  <1>1. busy # None /\ busy \in Commands /\ busy.id \in Profiles /\ busy.url \in Instances
    BY DEF IndInv, TypeOK, StoreWrites, In, Commands
  <1>2. busy' \in Commands /\ busy'.op = "login" /\ busy'.phase = "stored"
    BY <1>1 DEF StoreWrites, In, Phase, Commands
  <1>3. Configured' = Configured
    BY DEF StoreWrites, Configured
  <1>4. TypeOK'
    BY <1>1, <1>2 DEF IndInv, TypeOK, StoreWrites
  <1>5. /\ keyring'[busy.id] = busy.url
        /\ \A p \in Profiles \ {busy.id} :
              keyring'[p] = keyring[p] /\ (p \in stray' <=> p \in stray)
        /\ busy.id \notin stray' => busy.id \in Configured /\ file[busy.id] = busy.url
    BY <1>1 DEF IndInv, TypeOK, StoreWrites
  <1>6. Configured \subseteq Profiles
    BY FileShape DEF IndInv, TypeOK
  <1>7. StoredFitsFile'
    BY <1>3, <1>5, <1>6 DEF IndInv, StoredFitsFile, StoreWrites
  <1>8. LoggedOutStaysOut'
    BY <1>5 DEF IndInv, TypeOK, LoggedOutStaysOut, StoreWrites
  <1>9. UnknownHaveNoSession'
    BY <1>3, <1>5 DEF IndInv, UnknownHaveNoSession
  <1>10. CommandsDeleteFirst'
    BY <1>2 DEF CommandsDeleteFirst, Gone
  <1> QED
    BY <1>4, <1>7, <1>8, <1>9, <1>10 DEF IndInv

(* A write that comes late makes its entry a stray one.                    *)
LEMMA LateWriteStep ==
    ASSUME IndInv, LateWrite
    PROVE  IndInv'
  <1>1. PICK write \in late :
            /\ keyring' = [keyring EXCEPT ![write.id] = write.url]
            /\ stray' = stray \union {write.id}
    BY DEF LateWrite
  <1>2. write.id \in Profiles /\ write.url \in Instances
    BY <1>1 DEF IndInv, TypeOK
  <1>3. TypeOK'
    BY <1>1, <1>2 DEF IndInv, TypeOK, LateWrite
  <1>4. \A p \in Profiles \ stray' : p \notin stray /\ keyring'[p] = keyring[p]
    BY <1>1, <1>2 DEF IndInv, TypeOK
  <1>5. Configured' = Configured /\ Configured \subseteq Profiles
    BY FileShape DEF IndInv, TypeOK, LateWrite, Configured
  <1>6. CommandsDeleteFirst'
    BY <1>3, <1>4 DEF IndInv, TypeOK, Commands, CommandsDeleteFirst, Gone, LateWrite
  <1> QED
    BY <1>3, <1>4, <1>5, <1>6
    DEF IndInv, TypeOK, StoredFitsFile, LoggedOutStaysOut, UnknownHaveNoSession, LateWrite

LEMMA StoreDeletesStep ==
    ASSUME IndInv, StoreDeletes
    PROVE  IndInv'
  <1>1. busy # None /\ busy \in Commands /\ busy.id \in Profiles
    BY DEF IndInv, TypeOK, StoreDeletes, In, Commands
  <1>2. busy' \in Commands /\ busy'.id = busy.id
    BY <1>1 DEF StoreDeletes, Phase, Commands
  <1>3. TypeOK'
    BY <1>1, <1>2 DEF IndInv, TypeOK, StoreDeletes
  <1>4. /\ keyring'[busy.id] = None
        /\ \A p \in Profiles \ {busy.id} :
              keyring'[p] = keyring[p] /\ (p \in stray' <=> p \in stray)
    BY <1>1 DEF IndInv, TypeOK, StoreDeletes
  <1>5. Configured' = Configured /\ Configured \subseteq Profiles
    BY FileShape DEF IndInv, TypeOK, StoreDeletes, Configured
  <1>6. CommandsDeleteFirst'
    BY <1>2, <1>4 DEF CommandsDeleteFirst, Gone
  <1> QED
    BY <1>3, <1>4, <1>5, <1>6
    DEF IndInv, TypeOK, StoredFitsFile, LoggedOutStaysOut, UnknownHaveNoSession, StoreDeletes

(* A save that goes through, on behalf of a command whose profile has no   *)
(* session any more: the new file fits the store as the old one did.       *)
LEMMA SavedStep ==
    ASSUME IndInv, Saves, busy # None, busy.op \in {"create", "delete"},
           busy.id \notin stray => keyring[busy.id] = None,
           UNCHANGED <<keyring, stray>>
    PROVE  StoredFitsFile' /\ UnknownHaveNoSession'
  <1>1. busy.id \in Profiles
    BY DEF IndInv, TypeOK, Commands
  <1>2. file' = NewFile /\ Configured' = DOMAIN NewFile
    BY SavedFile DEF IndInv
  <1>3. CASE busy.op = "create"
    <2>1. /\ Configured' = Configured \union {busy.id}
          /\ \A p \in Configured : p # busy.id => file'[p] = file[p]
      BY <1>2, <1>3 DEF NewFile, With
    <2> QED
      BY <1>1, <2>1 DEF IndInv, StoredFitsFile, UnknownHaveNoSession
  <1>4. CASE busy.op = "delete"
    <2>1. /\ Configured' = Configured \ {busy.id}
          /\ \A p \in Configured' : file'[p] = file[p]
      BY <1>2, <1>4 DEF NewFile, Without
    <2> QED
      BY <1>1, <2>1 DEF IndInv, StoredFitsFile, UnknownHaveNoSession
  <1> QED
    BY <1>3, <1>4

(* The three reports of success: the session is gone by then.              *)
LEMMA ReportStep ==
    ASSUME IndInv, LoggedOut \/ Created \/ Deleted
    PROVE  IndInv'
  <1>1. /\ busy # None /\ busy \in Commands /\ busy' = None
        /\ busy.id \in Profiles /\ busy.url \in Instances
        /\ busy.id \notin stray => keyring[busy.id] = None
    BY DEF IndInv, TypeOK, CommandsDeleteFirst, Gone, LoggedOut, Created, Deleted, In,
           GiveUp, Commands
  <1>2. /\ keyring' = keyring /\ stray' = stray
        /\ out' = out \union {busy.id}
    BY DEF LoggedOut, Created, Deleted
  <1>3. LoggedOutStaysOut'
    BY <1>1, <1>2 DEF IndInv, LoggedOutStaysOut
  <1>4. CommandsDeleteFirst'
    BY <1>1 DEF CommandsDeleteFirst
  <1>5. CASE LoggedOut
    <2>1. TypeOK'
      BY <1>1, <1>2, <1>5 DEF IndInv, TypeOK, LoggedOut, Contexts
    <2> QED
      BY <1>2, <1>3, <1>4, <1>5, <2>1
      DEF IndInv, StoredFitsFile, UnknownHaveNoSession, Configured, LoggedOut
  <1>6. CASE Created \/ Deleted
    <2>1. file' = NewFile /\ NewFile \in Files
      BY <1>1, <1>6, SavedFile DEF IndInv, Created, Deleted
    <2>2. active' \in Contexts
      BY <1>1, <1>6 DEF IndInv, TypeOK, Created, Deleted, Context, Contexts
    <2>3. TypeOK'
      BY <1>1, <1>2, <1>6, <2>1, <2>2 DEF IndInv, TypeOK, Created, Deleted
    <2>4. StoredFitsFile' /\ UnknownHaveNoSession'
      BY <1>1, <1>2, <1>6, SavedStep DEF Created, Deleted, In
    <2> QED
      BY <1>3, <1>4, <2>3, <2>4 DEF IndInv
  <1> QED
    BY <1>5, <1>6

(* `set` makes a file only where there was none, and it has no profiles.   *)
LEMMA ConfigureStep ==
    ASSUME IndInv, Configure
    PROVE  IndInv'
  <1>1. file' \in Files
    <2>1. file' \in [{} -> Instances \ Insecure]
      BY DEF Configure
    <2> QED
      BY <2>1 DEF Files
  <1>2. TypeOK'
    BY <1>1 DEF IndInv, TypeOK, Configure
  <1>3. Configured = {} /\ Configured' = {}
    BY DEF Configure, Configured
  <1> QED
    BY <1>2, <1>3
    DEF IndInv, StoredFitsFile, LoggedOutStaysOut, UnknownHaveNoSession, CommandsDeleteFirst,
        Gone, Configure

(* A save that fails may have replaced the file before it failed.          *)
LEMMA SaveFailsStep ==
    ASSUME IndInv, SaveFails
    PROVE  IndInv'
  <1>1. /\ busy # None /\ busy \in Commands /\ busy' = None
        /\ busy.id \in Profiles /\ busy.url \in Instances
        /\ busy.op \in {"create", "delete"}
        /\ busy.id \notin stray => keyring[busy.id] = None
    BY DEF IndInv, TypeOK, CommandsDeleteFirst, Gone, SaveFails, In, GiveUp, Commands
  <1>2. CASE file' = file
    <2>1. TypeOK'
      BY <1>1, <1>2 DEF IndInv, TypeOK, SaveFails
    <2> QED
      BY <1>1, <1>2, <2>1, QuietStep DEF SaveFails
  <1>3. CASE Saves
    <2>1. TypeOK'
      BY <1>1, <1>3, SavedFile DEF IndInv, TypeOK, SaveFails
    <2>2. StoredFitsFile' /\ UnknownHaveNoSession'
      BY <1>1, <1>3, SavedStep DEF SaveFails
    <2> QED
      BY <1>1, <2>1, <2>2 DEF IndInv, LoggedOutStaysOut, CommandsDeleteFirst, SaveFails
  <1> QED
    BY <1>2, <1>3 DEF SaveFails

LEMMA NextInvariant ==
    ASSUME IndInv, [Next]_vars
    PROVE  IndInv'
  <1>1. CASE Next
    BY <1>1, LaunchStep, StopStep, BeginStep, PhaseStep, StoreWritesStep, LateWriteStep,
       StoreDeletesStep, ReportStep, ConfigureStep, SaveFailsStep
    DEF Next, Answer
  <1>2. CASE UNCHANGED vars
    BY <1>2
    DEF vars, IndInv, TypeOK, StoredFitsFile, LoggedOutStaysOut, UnknownHaveNoSession,
        CommandsDeleteFirst, Gone, Configured
  <1> QED
    BY <1>1, <1>2

-----------------------------------------------------------------------------
THEOREM Invariance == Spec => []IndInv
  <1>1. Init => IndInv
    BY InitInvariant
  <1>2. IndInv /\ [Next]_vars => IndInv'
    BY NextInvariant
  <1> QED
    BY <1>1, <1>2, PTL DEF Spec

(* File, credential store, session and history stay within their types, so *)
(* that the file is always one that the next launch can load.              *)
THEOREM TypeCorrect == Spec => []TypeOK
  BY Invariance, PTL DEF IndInv

(* A stored session is for the instance that its profile is configured     *)
(* with, however commands, failures and crashes interleave: what           *)
(* switch_profile and build_app read from the store fits the profile.      *)
(* Not so an entry written by a login that had timed out, or by one in a   *)
(* context that the file does not have, which a save that failed past its  *)
(* rename leaves behind (write_atomic in src/config/paths.rs).             *)
THEOREM SessionsFitProfiles == Spec => []StoredFitsFile
  BY Invariance, PTL DEF IndInv

(* logout, delete_profile and create_profile report success only when the  *)
(* session is gone, and nothing but a login brings it back, or the late    *)
(* write of one that had timed out.                                        *)
THEOREM LogoutsLast == Spec => []LoggedOutStaysOut
  BY Invariance, PTL DEF IndInv

-----------------------------------------------------------------------------
(* The profile in use.  While a command is under way the App runs, the     *)
(* profile that is switched to stays in the file, and the one that is      *)
(* deleted is not the one in use.                                          *)
CommandsFitFile ==
    busy # None =>
        /\ up
        /\ busy.op = "switch" => busy.id \in Configured
        /\ busy.op = "delete" => busy.id # active.id

ActiveInv == CommandsFitFile /\ ActiveIsConfigured

LEMMA InitActive == Init => ActiveInv
  BY DEF Init, ActiveInv, CommandsFitFile, ActiveIsConfigured

LEMMA ActiveUnderWay ==
    ASSUME TypeOK, ActiveInv,
           StoreWrites \/ StoreDeletes \/ StoreRefuses \/ Authenticated \/ Rejected
             \/ LoggedIn \/ LoggedOut \/ Switched \/ LoginTimesOut \/ LateWrite
    PROVE  ActiveInv'
  <1>1. Configured' = Configured /\ up' = up
    BY DEF Configured, StoreWrites, StoreDeletes, StoreRefuses, Authenticated, Rejected,
           LoggedIn, LoggedOut, Switched, LoginTimesOut, LateWrite
  <1>2. CASE StoreWrites \/ StoreDeletes \/ Authenticated
    <2>1. busy # None /\ busy \in Commands /\ active' = active
      BY <1>2 DEF TypeOK, StoreWrites, StoreDeletes, Authenticated, In
    <2>2. busy'.op = busy.op /\ busy'.id = busy.id
      BY <1>2, <2>1 DEF StoreWrites, StoreDeletes, Authenticated, Phase, Commands
    <2> QED
      BY <1>1, <2>1, <2>2 DEF ActiveInv, CommandsFitFile, ActiveIsConfigured
  <1>3. CASE StoreRefuses \/ Rejected \/ LoginTimesOut
    BY <1>1, <1>3 DEF ActiveInv, CommandsFitFile, ActiveIsConfigured, StoreRefuses, Rejected,
                      LoginTimesOut, GiveUp
  <1>4. CASE LoggedIn \/ LoggedOut
    <2>1. active'.id = active.id /\ busy' = None
      BY <1>4 DEF TypeOK, Contexts, LoggedIn, LoggedOut, GiveUp
    <2> QED
      BY <1>1, <2>1 DEF ActiveInv, CommandsFitFile, ActiveIsConfigured
  <1>5. CASE Switched
    BY <1>1, <1>5 DEF ActiveInv, CommandsFitFile, ActiveIsConfigured, Switched, In, GiveUp, Context
  <1>6. CASE LateWrite
    BY <1>1, <1>6 DEF ActiveInv, CommandsFitFile, ActiveIsConfigured, LateWrite
  <1> QED
    BY <1>2, <1>3, <1>4, <1>5, <1>6

LEMMA ActiveSaved ==
    ASSUME TypeOK, ActiveInv, Created \/ Deleted \/ SaveFails
    PROVE  ActiveInv'
  <1>1. /\ busy # None /\ busy' = None
        /\ busy.op \in {"create", "delete"}
    BY DEF Created, Deleted, SaveFails, In, GiveUp
  <1>2. CASE file' = file /\ SaveFails
    BY <1>1, <1>2 DEF ActiveInv, CommandsFitFile, ActiveIsConfigured, Configured, SaveFails
  <1>3. CASE Saves
    <2>1. Configured' = DOMAIN NewFile
      BY <1>1, <1>3, SavedFile
    <2>2. CASE busy.op = "create"
      <3>1. Configured' = Configured \union {busy.id}
        BY <2>1, <2>2 DEF NewFile, With
      <3>2. active'.id \in {active.id, busy.id} /\ up' = up
        BY <2>2 DEF Created, Deleted, SaveFails, Context
      <3> QED
        BY <1>1, <3>1, <3>2 DEF ActiveInv, CommandsFitFile, ActiveIsConfigured
    <2>3. CASE busy.op = "delete"
      <3>1. Configured' = Configured \ {busy.id}
        BY <2>1, <2>3 DEF NewFile, Without
      <3>2. active' = active /\ up' = up
        BY <2>3 DEF Created, Deleted, SaveFails, In
      <3> QED
        BY <1>1, <2>3, <3>1, <3>2 DEF ActiveInv, CommandsFitFile, ActiveIsConfigured
    <2> QED
      BY <1>1, <2>2, <2>3
  <1> QED
    BY <1>2, <1>3 DEF Created, Deleted, SaveFails

LEMMA ActiveBegins ==
    ASSUME TypeOK, ActiveInv,
           StartLogin \/ StartLogout \/ StartSwitch \/ StartCreate \/ StartDelete
    PROVE  ActiveInv'
  <1>1. PICK command :
            /\ Begin(command)
            /\ command.op = "switch" => command.id \in Configured
            /\ command.op = "delete" => command.id # active.id
    <2>1. CASE StartLogin
      BY <2>1 DEF StartLogin, Running
    <2>2. CASE StartLogout
      BY <2>2 DEF StartLogout, Running
    <2>3. CASE StartSwitch
      BY <2>3 DEF StartSwitch, Running
    <2>4. CASE StartCreate
      BY <2>4 DEF StartCreate, Running
    <2>5. CASE StartDelete
      BY <2>5 DEF StartDelete, Running
    <2> QED
      BY <2>1, <2>2, <2>3, <2>4, <2>5
  <1> QED
    BY <1>1 DEF ActiveInv, CommandsFitFile, ActiveIsConfigured, Begin, Configured

LEMMA NextActive ==
    ASSUME TypeOK, ActiveInv, [Next]_vars
    PROVE  ActiveInv'
  <1>1. CASE FirstLaunch
    BY <1>1 DEF ActiveInv, CommandsFitFile, ActiveIsConfigured, FirstLaunch, Context
  <1>2. CASE Launch
    BY <1>2 DEF ActiveInv, CommandsFitFile, ActiveIsConfigured, Launch, Context, Configured
  <1>3. CASE Stop
    BY <1>3 DEF ActiveInv, CommandsFitFile, ActiveIsConfigured, Stop
  <1>4. CASE Configure
    BY <1>4 DEF ActiveInv, CommandsFitFile, ActiveIsConfigured, Configure, Configured
  <1>5. CASE UNCHANGED vars
    BY <1>5 DEF ActiveInv, CommandsFitFile, ActiveIsConfigured, vars, Configured
  <1> QED
    BY <1>1, <1>2, <1>3, <1>4, <1>5, ActiveUnderWay, ActiveSaved, ActiveBegins
    DEF Next, Answer

(* The App never runs on a profile the file does not have: delete_profile, *)
(* create_profile and switch_profile, whatever fails in them, leave it one *)
(* it can launch again, but for a starter profile never written down.      *)
THEOREM ActiveStaysConfigured == Spec => []ActiveIsConfigured
  <1>1. TypeOK /\ ActiveInv /\ [Next]_vars => ActiveInv'
    BY NextActive
  <1> QED
    BY <1>1, InitActive, TypeCorrect, PTL DEF Spec, ActiveInv
=============================================================================
