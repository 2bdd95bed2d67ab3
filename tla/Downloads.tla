------------------------------ MODULE Downloads ------------------------------
(***************************************************************************)
(* The download manager (src/media/download.rs) and the panel actions of   *)
(* App that drive it.  A download has an id and a record in the session    *)
(* history; each attempt at it is a tokio task that streams into a         *)
(* temporary file and renames it into place.  A retry reuses the id, so an *)
(* aborted attempt and the one that replaces it share record, temporary    *)
(* file and target.                                                        *)
(*                                                                         *)
(* The App runs one operation at a time.  The attempts run on other        *)
(* threads: a step of an attempt ends at each access to shared state, so   *)
(* that cancel, retry and shutdown fall between any two of them.  The user *)
(* and other programs put files of their own in the directory at any time. *)
(***************************************************************************)
EXTENDS Naturals, Sequences, FiniteSets

CONSTANTS
    MaxDownloads,   \* bound on next_id
    MaxAttempts,    \* bound on the attempts of all downloads together
    MaxRetries,     \* bound on the retries of all downloads together
    MaxSuffix,      \* bound on the suffixes that uniquify tries
    Policies,       \* the collision policies the user may have configured
    UserFiles,      \* the files that the user makes, one after another
    Absent,         \* what is at a name where there is no file
    None

ASSUME DownloadConstants ==
    /\ MaxDownloads \in Nat
    /\ MaxAttempts \in Nat
    /\ MaxRetries \in Nat
    /\ Policies \subseteq {"prompt", "overwrite", "unique"}
    /\ IsFiniteSet(UserFiles)
    /\ MaxSuffix \in Nat /\ MaxAttempts + Cardinality(UserFiles) <= MaxSuffix + 1
    /\ (UserFiles \union {Absent, None}) \intersect Nat = {}
    /\ Absent \notin UserFiles

Ids == 1 .. MaxDownloads
Attempts == 1 .. MaxAttempts

(* Every download of the model asks for the same file.  Name 0 is that     *)
(* destination, name n the one that uniquify makes of it with suffix n.    *)
(* There are enough of them for the attempts and the user's files.         *)
Names == 0 .. MaxSuffix

VARIABLES
    records,   \* the history: id -> status, local path, deletion mark
    requests,  \* id -> the collision policy its request was made with
    current,   \* id -> the attempt whose handle and cancel flag are kept
    prompts,   \* id -> the attempt that waits behind the prompt's sender
    attempts,  \* the attempts made so far
    files,     \* name -> what is there: nothing, a user's file, a download
    since,     \* user's file -> the attempts that had been made when it came
    temps,     \* name and id -> the attempt that created that temporary file
    events,    \* completions and failures the App has not seen
    staged,    \* the deletion waiting for confirmation
    op,        \* the operation the App is in the middle of
    closed     \* shutdown has run

vars == <<records, requests, current, prompts, attempts, files, since, temps, events, staged,
          op, closed>>

history == <<records, events>>
disk == <<files, since, temps>>
app == <<requests, current, prompts, staged, op, closed>>

-----------------------------------------------------------------------------
Terminal == {"completed", "cancelled", "failed"}
Statuses == Terminal \union {"pending", "prompting", "downloading"}

(* Where an attempt is.  It can be dropped by an abort only where it       *)
(* awaits; everywhere else it runs on to its next await.                   *)
Awaits == {"spawned", "prompting", "requesting", "receiving"}
Places == Awaits \union {"starting", "claiming", "opening", "looping", "checking",
                         "moving", "moved", "ended"}

Records == [status: Statuses, path: Names, deleted: BOOLEAN]
AttemptRecords ==
    [id: Ids, target: Names, at: Places, answer: {"unasked", "waiting", "overwrite", "keep"},
     flag: BOOLEAN, aborted: BOOLEAN]
Stagings == [id: Ids, path: Names]
Ops == [kind: {"cancel", "retry"}, id: Ids, path: Names]

ASSUME NoneIsNothing == None \notin Records \union Stagings \union Ops

Init ==
    /\ records = [id \in Ids |-> None]
    /\ requests = [id \in Ids |-> None]
    /\ current = [id \in Ids |-> None]
    /\ prompts = [id \in Ids |-> None]
    /\ attempts = <<>>
    /\ files = [n \in Names |-> Absent]
    /\ since = [f \in UserFiles |-> None]
    /\ temps = [t \in Names \X Ids |-> None]
    /\ events = {}
    /\ staged = None
    /\ op = None
    /\ closed = FALSE

Known(id) == records[id] # None
Made == DOMAIN attempts

(* The only way a status changes: a terminal status stays, and so does the *)
(* history once it is cleared.                                             *)
Transition(rs, id, status) ==
    IF rs[id] # None /\ rs[id].status \notin Terminal
    THEN [rs EXCEPT ![id].status = status]
    ELSE rs

SetPath(rs, id, name) == IF rs[id] # None THEN [rs EXCEPT ![id].path = name] ELSE rs

-----------------------------------------------------------------------------
(* The attempt: run_download, from one shared access to the next.          *)

Goes(a, place) == attempts' = [attempts EXCEPT ![a].at = place]

Ends(a, status) ==
    /\ Goes(a, "ended")
    /\ records' = Transition(records, attempts[a].id, status)

Temp(a) == <<attempts[a].target, attempts[a].id>>
RemoveTemp(a) == temps' = [temps EXCEPT ![Temp(a)] = None]

Fails(a) ==
    /\ Ends(a, "failed")
    /\ events' = events \union {<<"failed", attempts[a].id>>}

(* Mutant of Decide: a file that is kept counts as a completed download.   *)
DecideKeptIsCompleted(a) ==
    /\ attempts[a].at = "prompting"
    /\ IF attempts[a].answer = "overwrite"
       THEN Goes(a, "starting") /\ UNCHANGED records
       ELSE attempts[a].answer = "keep" /\ Ends(a, "completed")
    /\ UNCHANGED <<events, disk, app>>

(* The prompt's receiver yields the decision, or an error when its sender  *)
(* is dropped; the cancel flag also ends the wait.                         *)
Decide(a) ==
    /\ attempts[a].at = "prompting"
    /\ \/ /\ attempts[a].answer = "overwrite"
          /\ Goes(a, "starting")
          /\ UNCHANGED records
       \/ /\ \/ attempts[a].answer = "keep"
             \/ attempts[a].answer = "waiting" /\ prompts[attempts[a].id] # a
             \/ attempts[a].flag
          /\ Ends(a, "cancelled")
    /\ UNCHANGED <<events, disk, app>>

Begin(a) ==
    /\ attempts[a].at \in {"spawned", "starting"}
    /\ IF attempts[a].flag
       THEN Ends(a, "cancelled")
       ELSE Goes(a, "claiming") /\ UNCHANGED records
    /\ UNCHANGED <<events, disk, app>>

Claim(a) ==
    /\ attempts[a].at = "claiming"
    /\ Goes(a, "requesting")
    /\ records' = Transition(SetPath(records, attempts[a].id, attempts[a].target),
                             attempts[a].id, "downloading")
    /\ UNCHANGED <<events, disk, app>>

(* The server answers; or it refuses, or cannot be reached.                *)
Respond(a) ==
    /\ attempts[a].at = "requesting"
    /\ ~ attempts[a].aborted
    /\ \/ Goes(a, "opening") /\ UNCHANGED history
       \/ Fails(a)
    /\ UNCHANGED <<disk, app>>

(* The temporary file must be new.  An attempt may also fail here because  *)
(* its directory cannot be made or the declared length is over the cap.    *)
Open(a) ==
    /\ attempts[a].at = "opening"
    /\ \/ /\ temps[Temp(a)] = None
          /\ temps' = [temps EXCEPT ![Temp(a)] = a]
          /\ Goes(a, "looping")
          /\ UNCHANGED history
       \/ Fails(a) /\ UNCHANGED temps
    /\ UNCHANGED <<files, since, app>>

CheckFlag(a) ==
    /\ attempts[a].at = "looping"
    /\ IF attempts[a].flag
       THEN Ends(a, "cancelled") /\ RemoveTemp(a)
       ELSE Goes(a, "receiving") /\ UNCHANGED <<records, temps>>
    /\ UNCHANGED <<events, files, since, app>>

Receive(a) ==
    /\ attempts[a].at = "receiving"
    /\ Goes(a, "looping")
    /\ records' = Transition(records, attempts[a].id, "downloading")
    /\ UNCHANGED <<events, disk, app>>

(* The end of the body, or an error of the stream or of the disk (a body   *)
(* over the cap is one).                                                   *)
StopReceiving(a) ==
    /\ attempts[a].at = "receiving"
    /\ \/ Goes(a, "checking") /\ UNCHANGED <<history, temps>>
       \/ Fails(a) /\ RemoveTemp(a)
    /\ UNCHANGED <<files, since, app>>

LastCheck(a) ==
    /\ attempts[a].at = "checking"
    /\ IF attempts[a].flag
       THEN Ends(a, "cancelled") /\ RemoveTemp(a)
       ELSE Goes(a, "moving") /\ UNCHANGED <<records, temps>>
    /\ UNCHANGED <<events, files, since, app>>

Move(a) ==
    /\ attempts[a].at = "moving"
    /\ \/ /\ temps[Temp(a)] # None
          /\ files' = [files EXCEPT ![attempts[a].target] = temps[Temp(a)]]
          /\ Goes(a, "moved")
          /\ UNCHANGED history
       \/ Fails(a) /\ UNCHANGED files
    /\ RemoveTemp(a)
    /\ UNCHANGED <<since, app>>

Complete(a) ==
    /\ attempts[a].at = "moved"
    /\ Ends(a, "completed")
    /\ events' = events \union {<<"completed", attempts[a].id>>}
    /\ UNCHANGED <<disk, app>>

(* An aborted attempt is dropped at its next await, with no clean-up; a    *)
(* chunk that is already there lets it pass that await once more.          *)
Dropped(a) ==
    /\ attempts[a].aborted
    /\ attempts[a].at \in Awaits
    /\ Goes(a, "ended")
    /\ UNCHANGED <<history, disk, app>>

AttemptStep(a) ==
    \/ Decide(a) \/ Begin(a) \/ Claim(a) \/ Respond(a) \/ Open(a) \/ CheckFlag(a)
    \/ Receive(a) \/ StopReceiving(a) \/ LastCheck(a) \/ Move(a) \/ Complete(a) \/ Dropped(a)

-----------------------------------------------------------------------------
(* The operations of the App.                                              *)

Idle == op = None /\ ~ closed

(* The attempts of S are flagged and their handles aborted.                *)
Aborting(S) ==
    [a \in Made |->
        IF a \notin S THEN attempts[a]
        ELSE IF attempts[a].at \in Awaits /\ ~ attempts[a].aborted
             THEN [attempts[a] EXCEPT !.flag = TRUE, !.at = "ended"]
             ELSE [attempts[a] EXCEPT !.flag = TRUE, !.aborted = TRUE]]

Uniquified == CHOOSE n \in Names : files[n] = Absent /\ \A m \in 0 .. n - 1 : files[m] # Absent

TargetFor(policy) == IF policy = "unique" THEN Uniquified ELSE 0

(* Mutant of NeedsPrompt: nobody looks whether the destination exists.     *)
NeedsPromptNever(policy) == FALSE

NeedsPrompt(policy) == policy = "prompt" /\ files[0] # Absent

NewAttempt(id, policy) ==
    [id |-> id, target |-> TargetFor(policy),
     at |-> IF NeedsPrompt(policy) THEN "prompting" ELSE "spawned",
     answer |-> IF NeedsPrompt(policy) THEN "waiting" ELSE "unasked",
     flag |-> FALSE, aborted |-> FALSE]

(* Mutant of Spawn: the handle is stored under the number of the next one. *)
SpawnOffByOne(id, policy) ==
    /\ Len(attempts) < MaxAttempts
    /\ attempts' = Append(attempts, NewAttempt(id, policy))
    /\ current' = [current EXCEPT ![id] = Len(attempts') + 1]
    /\ prompts' = prompts

Spawn(id, policy) ==
    /\ Len(attempts) < MaxAttempts
    /\ attempts' = Append(attempts, NewAttempt(id, policy))
    /\ current' = [current EXCEPT ![id] = Len(attempts')]
    /\ prompts' = IF NeedsPrompt(policy) THEN [prompts EXCEPT ![id] = Len(attempts')]
                  ELSE prompts

(* start.  The panel's message replaces a staged deletion's, except that   *)
(* of a prompt.                                                            *)
Start(id, policy) ==
    /\ Idle
    /\ ~ Known(id) /\ \A j \in 1 .. id - 1 : Known(j)
    /\ Spawn(id, policy)
    /\ records' = [records EXCEPT ![id] =
            [status |-> IF NeedsPrompt(policy) THEN "prompting" ELSE "pending",
             path |-> TargetFor(policy), deleted |-> FALSE]]
    /\ requests' = [requests EXCEPT ![id] = policy]
    /\ staged' \in IF NeedsPrompt(policy) THEN {None, staged} ELSE {None}
    /\ UNCHANGED <<events, disk, op, closed>>

(* cancel looks at the record first and acts on what it saw.               *)
CancelBegin(id) ==
    /\ Idle
    /\ Known(id) /\ records[id].status \notin {"completed", "failed"}
    /\ op' = [kind |-> "cancel", id |-> id, path |-> records[id].path]
    /\ UNCHANGED <<records, requests, current, prompts, attempts, disk, events, staged, closed>>

(* Mutant of CancelEnd: the task is aborted and the record left alone.     *)
CancelEndSilently ==
    /\ op # None /\ op.kind = "cancel"
    /\ attempts' = Aborting({current[op.id]})
    /\ prompts' = [prompts EXCEPT ![op.id] = None]
    /\ temps' = [temps EXCEPT ![<<op.path, op.id>>] = None]
    /\ op' = None
    /\ staged' = None
    /\ UNCHANGED <<records, requests, current, files, since, events, closed>>

CancelEnd ==
    /\ op # None /\ op.kind = "cancel"
    /\ attempts' = Aborting({current[op.id]})
    /\ prompts' = [prompts EXCEPT ![op.id] = None]
    /\ records' = Transition(records, op.id, "cancelled")
    /\ temps' = [temps EXCEPT ![<<op.path, op.id>>] = None]
    /\ op' = None
    /\ staged' = None
    /\ UNCHANGED <<requests, current, files, since, events, closed>>

Retries == Len(attempts) - Cardinality({id \in Ids : requests[id] # None})

(* Mutant of RetryBegin: the previous attempt goes on.                     *)
RetryBeginWithoutAbort(id) ==
    /\ Idle
    /\ Known(id)
    /\ Retries < MaxRetries /\ Len(attempts) < MaxAttempts
    /\ records' = [records EXCEPT ![id] =
            [@ EXCEPT !.status = "pending", !.path = 0, !.deleted = FALSE]]
    /\ op' = [kind |-> "retry", id |-> id, path |-> records[id].path]
    /\ UNCHANGED <<requests, current, prompts, attempts, disk, events, staged, closed>>

(* retry takes a record in any state.  It aborts the previous attempt and  *)
(* resets the record ...                                                   *)
RetryBegin(id) ==
    /\ Idle
    /\ Known(id)
    /\ Retries < MaxRetries /\ Len(attempts) < MaxAttempts
    /\ attempts' = Aborting({current[id]})
    /\ records' = [records EXCEPT ![id] =
            [@ EXCEPT !.status = "pending", !.path = 0, !.deleted = FALSE]]
    /\ op' = [kind |-> "retry", id |-> id, path |-> records[id].path]
    /\ UNCHANGED <<requests, current, prompts, disk, events, staged, closed>>

(* ... then chooses the target, clears the temporary files in its way and  *)
(* spawns the new attempt.                                                 *)
RetryEnd ==
    /\ op # None /\ op.kind = "retry"
    /\ LET id == op.id
           policy == requests[id]
       IN  /\ Spawn(id, policy)
           /\ temps' = [temps EXCEPT ![<<op.path, id>>] = None,
                                     ![<<TargetFor(policy), id>>] = None]
           /\ records' = IF NeedsPrompt(policy)
                         THEN Transition(records, id, "prompting") ELSE records
    /\ op' = None
    /\ staged' = None
    /\ UNCHANGED <<requests, files, since, events, closed>>

(* resolve_collision sends the decision to whoever waits behind the sender. *)
Resolve(id, answer) ==
    /\ Idle
    /\ prompts[id] # None
    /\ attempts' = [attempts EXCEPT ![prompts[id]].answer = answer]
    /\ prompts' = [prompts EXCEPT ![id] = None]
    /\ staged' = None
    /\ UNCHANGED <<records, requests, current, disk, events, op, closed>>

StageDelete(id) ==
    /\ Idle
    /\ Known(id) /\ records[id].status = "completed" /\ ~ records[id].deleted
    /\ staged' = [id |-> id, path |-> records[id].path]
    /\ UNCHANGED <<records, requests, current, prompts, attempts, disk, events, op, closed>>

(* confirm_pending looks at the record again, and removes the staged path. *)
ConfirmDelete ==
    /\ Idle
    /\ staged # None
    /\ IF records[staged.id].status = "completed" /\ files[staged.path] # Absent
       THEN /\ files' = [files EXCEPT ![staged.path] = Absent]
            /\ records' = [records EXCEPT ![staged.id].deleted = TRUE]
       ELSE UNCHANGED <<files, records>>
    /\ staged' = None
    /\ UNCHANGED <<requests, current, prompts, attempts, since, temps, events, op, closed>>

(* The Tick drains the events; each is reported, which ends the wait for a *)
(* confirmation, as Esc and :cancel do.                                    *)
PollDownloads ==
    /\ Idle
    /\ events # {} \/ staged # None
    /\ events' = {}
    /\ staged' = None
    /\ UNCHANGED <<records, requests, current, prompts, attempts, disk, op, closed>>

(* Mutant of Shutdown: the temporary files are left to the aborted tasks.  *)
ShutdownLeavingTemps ==
    /\ Idle
    /\ attempts' = Aborting({current[id] : id \in Ids})
    /\ prompts' = [id \in Ids |-> None]
    /\ current' = [id \in Ids |-> None]
    /\ records' = [id \in Ids |-> None]
    /\ staged' = None
    /\ closed' = TRUE
    /\ UNCHANGED <<requests, files, since, temps, events, op>>

Shutdown ==
    /\ Idle
    /\ attempts' = Aborting({current[id] : id \in Ids})
    /\ prompts' = [id \in Ids |-> None]
    /\ current' = [id \in Ids |-> None]
    /\ temps' = [t \in Names \X Ids |->
            IF Known(t[2]) /\ records[t[2]].status \notin Terminal /\ records[t[2]].path = t[1]
            THEN None ELSE temps[t]]
    /\ records' = [id \in Ids |-> None]
    /\ staged' = None
    /\ closed' = TRUE
    /\ UNCHANGED <<requests, files, since, events, op>>

AppStep ==
    \/ \E id \in Ids :
          \/ \E policy \in Policies : Start(id, policy)
          \/ CancelBegin(id) \/ RetryBegin(id) \/ StageDelete(id)
          \/ \E answer \in {"overwrite", "keep"} : Resolve(id, answer)
    \/ CancelEnd \/ RetryEnd \/ ConfirmDelete \/ PollDownloads \/ Shutdown

(* The user, or another program, makes a file where there is none: before  *)
(* the session, or at any moment of it.                                    *)
UserSaves(f, n) ==
    /\ since[f] = None
    /\ files[n] = Absent
    /\ files' = [files EXCEPT ![n] = f]
    /\ since' = [since EXCEPT ![f] = Len(attempts)]
    /\ UNCHANGED <<attempts, history, temps, app>>

Next ==
    \/ AppStep
    \/ \E a \in Made : AttemptStep(a)
    \/ \E f \in UserFiles, n \in Names : UserSaves(f, n)

(* An attempt that can go on is scheduled, and the client's timeout of 60  *)
(* seconds ends a body that never does; the App finishes what it is in the *)
(* middle of.                                                              *)
Fairness ==
    /\ \A a \in Attempts : /\ WF_vars(a \in Made /\ AttemptStep(a))
                          /\ SF_vars(a \in Made /\ StopReceiving(a))
    /\ WF_vars(CancelEnd \/ RetryEnd)

Spec == Init /\ [][Next]_vars

FairSpec == Spec /\ Fairness

-----------------------------------------------------------------------------
TypeOK ==
    /\ records \in [Ids -> Records \union {None}]
    /\ requests \in [Ids -> Policies \union {None}]
    /\ current \in [Ids -> Made \union {None}]
    /\ prompts \in [Ids -> Made \union {None}]
    /\ attempts \in Seq(AttemptRecords) /\ Len(attempts) <= MaxAttempts
    /\ files \in [Names -> Made \union UserFiles \union {Absent}]
    /\ since \in [UserFiles -> 0 .. Len(attempts) \union {None}]
    /\ temps \in [Names \X Ids -> Made \union {None}]
    /\ events \subseteq {"completed", "failed"} \X Ids
    /\ staged \in Stagings \union {None}
    /\ op \in Ops \union {None}
    /\ closed \in BOOLEAN

Live(a) == attempts[a].at # "ended"

(* An abort can reach every attempt that is at work: it has been aborted,  *)
(* or the manager still holds its handle.                                  *)
EveryAttemptIsHeld ==
    \A a \in Made : Live(a) => attempts[a].aborted \/ current[attempts[a].id] = a

(* A record that asks has somebody waiting for the answer: the panel's     *)
(* :overwrite and :keep work, or have been given.                          *)
PromptsAreAnswerable ==
    \A id \in Ids :
        Known(id) /\ records[id].status = "prompting" =>
            LET a == current[id]
            IN  Live(a) /\ (prompts[id] = a \/ attempts[a].answer \in {"overwrite", "keep"})

(* The user agreed to what attempt a replaces: by an answer, or by the     *)
(* policy of the request.                                                  *)
Agreed(a) == attempts[a].answer = "overwrite" \/ requests[attempts[a].id] = "overwrite"

Moves(a, n) ==
    attempts[a].target = n /\ attempts[a].at = "moving" /\ attempts'[a].at = "moved"

(* Only an attempt that was allowed to replaces a user's file: "Ask the    *)
(* user before overwriting" (src/src/media/download.rs:57).                *)
ReplacesOnlyByConsent ==
    [][\A n \in Names : files[n] \in UserFiles /\ files'[n] \in Attempts =>
          \E a \in Made : Moves(a, n) /\ Agreed(a)]_vars

(* The same of the files that an attempt could find: whatever prompts,     *)
(* answers, cancels and retries do between, a file that was there when the *)
(* attempt was made is replaced only with consent.                         *)
FoundFilesAreSafe ==
    [][\A n \in Names : files[n] \in UserFiles /\ files'[n] \in Attempts =>
          \E a \in Made : Moves(a, n) /\ (since[files[n]] < a => Agreed(a))]_vars

Once(id) == Cardinality({a \in Made : attempts[a].id = id}) = 1

(* When every attempt is over and the App is idle, no temporary file of a  *)
(* download that was not retried is left: neither a cancel nor a shutdown  *)
(* leaves one behind, although an aborted task runs none of its clean-up.  *)
TempsAreCleaned ==
    op = None /\ (\A a \in Made : ~ Live(a)) =>
        \A t \in DOMAIN temps : Once(t[2]) => temps[t] = None

(* A deletion removes what a download wrote, never the file the user had:  *)
(* src/src/app/mod.rs:2651 "only a Completed record owns its local path".  *)
DeletesOnlyDownloads ==
    [][\A n \in Names : files[n] \in UserFiles => files'[n] # Absent]_vars

(* The same of a download that was not retried: however its prompt, its    *)
(* cancellation and its deletion interleave with the attempt, what is      *)
(* deleted is not a file of the user that the attempt found in its way;    *)
(* and one that came later is deleted only if another download was made,   *)
(* whose deletion can have cleared the name for it.                        *)
UserFilesAreKept ==
    [][\A n \in Names : files[n] \in UserFiles /\ files'[n] = Absent =>
          /\ staged # None
          /\ Once(staged.id) =>
                \E a, b \in Made :
                    /\ attempts[a].id = staged.id /\ since[files[n]] >= a
                    /\ attempts[b].id # staged.id]_vars

(* An attempt that waits for a decision is shown as waiting for one, also  *)
(* when it is a retry's: "a collision prompt must be observable as         *)
(* `Prompting`" (src/src/media/download.rs:460).                           *)
PromptsAreObservable ==
    \A a \in Made :
        LET id == attempts[a].id
        IN  attempts[a].at = "prompting" /\ attempts[a].answer = "waiting" /\ op = None
                => Known(id) /\ records[id].status = "prompting"

(* A download that was started ends, or it waits for the user: no abort,   *)
(* and no late step of an attempt that was aborted, leaves a record that   *)
(* says "pending" or "downloading" for ever.  open_media awaits this.      *)
DownloadsConclude ==
    \A id \in Ids :
        Known(id) /\ records[id].status \in {"pending", "downloading"}
            ~> ~ Known(id) \/ records[id].status \in Terminal \/ prompts[id] # None

(* A record that is cancelled owns no file: what its last attempt fetched  *)
(* is not in place.                                                        *)
CancelledLeavesNoFile ==
    \A id \in Ids :
        Known(id) /\ records[id].status = "cancelled" =>
            \A n \in Names : files[n] # current[id]

(* Two downloads that pick a name of their own do not end in one file.      *)
Owns(id, name) ==
    Known(id) /\ records[id].status = "completed" /\ ~ records[id].deleted
        /\ records[id].path = name

UniqueNamesDiffer ==
    \A i, j \in Ids, n \in Names :
        requests[i] = "unique" /\ requests[j] = "unique" /\ Owns(i, n) /\ Owns(j, n)
            => i = j
=============================================================================
