------------------------------- MODULE Requests -------------------------------
(***************************************************************************)
(* The request pipeline of lemex's App (src/app/mod.rs): every read the    *)
(* user asks for runs as a detached tokio task which owns only clones and  *)
(* leaves its answer in a mailbox; the next Tick drains the mailbox into   *)
(* the view.  What may land is decided by a table of request tokens, and   *)
(* what is cancelled by a table of join handles.  Both tables are keyed by *)
(* the identity of a request (the feed, one post, one post's comments, the *)
(* community list).                                                        *)
(*                                                                         *)
(* The event loop gives the App to one action at a time, so an action on   *)
(* the two tables is atomic.  The detached tasks run on other threads and  *)
(* interleave with the actions in every order.                             *)
(***************************************************************************)
EXTENDS Naturals, Sequences

CONSTANTS
    Identities,     \* what can be asked for: RequestIdentity
    Groups,         \* the sets of identities that are dropped together
    Profiles,       \* the profiles of the user's configuration
    None,           \* an absent table entry
    MaxGeneration,  \* bound on next_generation
    MaxEpoch        \* bound on the number of context changes

ASSUME ConstantsAssumption ==
    /\ None \notin Nat
    /\ None \notin [identity: Identities, generation: Nat, profile: Profiles, epoch: Nat]
    /\ MaxGeneration \in Nat
    /\ MaxEpoch \in Nat
    /\ Groups \subseteq SUBSET Identities

VARIABLES
    profile,          \* active.profile.id
    epoch,            \* how often the active context (profile, session) changed
    next_generation,  \* the last generation handed out
    requests,         \* identity -> generation of its live token, or None
    in_flight,        \* identity -> generation whose join handle is kept, or None
    tasks,            \* the detached reads that have not delivered yet
    completed,        \* the mailbox, oldest result first
    landed            \* the last result that passed the guard of apply_api_result

vars == <<profile, epoch, next_generation, requests, in_flight, tasks, completed, landed>>

-----------------------------------------------------------------------------
(* What a read carries: its token, the profile it was begun for, and (for  *)
(* the properties only) the epoch it was begun in.                         *)
Reads == [identity: Identities, generation: Nat, profile: Profiles, epoch: Nat]

(* A task is "fetching" while it has an await left at which an abort can   *)
(* stop it, and "finishing" once its future is past the last await: from   *)
(* there it runs to the push into the mailbox whatever happens.            *)
Tasks == [read: Reads, at: {"fetching", "finishing"}]

Init ==
    /\ profile \in Profiles
    /\ epoch = 0
    /\ next_generation = 0
    /\ requests = [i \in Identities |-> None]
    /\ in_flight = [i \in Identities |-> None]
    /\ tasks = {}
    /\ completed = <<>>
    /\ landed = None

(* tokio's JoinHandle::abort takes effect at the task's next await.        *)
Aborted(generations) ==
    {t \in tasks : t.at = "fetching" /\ t.read.generation \in generations}

(* begin_request: a newer request for the same identity aborts the task    *)
(* whose handle is kept, and its own token replaces the older one.         *)
BeginRequest(i) ==
    /\ next_generation < MaxGeneration
    /\ next_generation' = next_generation + 1
    /\ requests' = [requests EXCEPT ![i] = next_generation']

(* A request answered without a detached task: the feed's background       *)
(* refresh, and a mutation, whose answer the handler awaits and applies.   *)
(* What these answers do to the view is outside this module.               *)
BeginInline(i) ==
    /\ BeginRequest(i)
    /\ tasks' = tasks \ Aborted({in_flight[i]})
    /\ in_flight' = [in_flight EXCEPT ![i] = None]
    /\ UNCHANGED <<profile, epoch, completed, landed>>

(* begin_request followed by detach.                                       *)
BeginRead(i) ==
    /\ BeginRequest(i)
    /\ LET read == [identity |-> i, generation |-> next_generation',
                    profile |-> profile, epoch |-> epoch]
       IN  tasks' = (tasks \ Aborted({in_flight[i]}))
                        \union {[read |-> read, at |-> "fetching"]}
    /\ in_flight' = [in_flight EXCEPT ![i] = next_generation']
    /\ UNCHANGED <<profile, epoch, completed, landed>>

(* The last await of a detached read returns: the network answered (or     *)
(* failed) and the cache write, if any, is done.                           *)
Answer(t) ==
    /\ t.at = "fetching"
    /\ tasks' = (tasks \ {t}) \union {[t EXCEPT !.at = "finishing"]}
    /\ UNCHANGED <<profile, epoch, next_generation, requests, in_flight, completed, landed>>

Deliver(t) ==
    /\ t.at = "finishing"
    /\ tasks' = tasks \ {t}
    /\ completed' = Append(completed, t.read)
    /\ UNCHANGED <<profile, epoch, next_generation, requests, in_flight, landed>>

(* Mutant of Accepts: any live token of the identity will do.              *)
AcceptsAnyLiveToken(read) ==
    /\ read.profile = profile
    /\ requests[read.identity] # None

(* The guard at the head of apply_api_result.                              *)
Accepts(read) ==
    /\ read.profile = profile
    /\ requests[read.identity] = read.generation

(* Mutant of PollCompleted: the handle of the identity is aborted, not only *)
(* retired, as if it were always the handle of the result just taken.      *)
PollCompletedAborting ==
    /\ completed # <<>>
    /\ completed' = Tail(completed)
    /\ tasks' = tasks \ Aborted({in_flight[Head(completed).identity]})
    /\ in_flight' = [in_flight EXCEPT ![Head(completed).identity] = None]
    /\ landed' = IF Accepts(Head(completed)) THEN Head(completed) ELSE landed
    /\ UNCHANGED <<profile, epoch, next_generation, requests>>

(* poll_completed takes the oldest result, retires the handle kept for its *)
(* identity, and applies the result if the guard lets it.  The code drains *)
(* the whole mailbox in one Tick; taking one result per step adds nothing, *)
(* because a delivery can always be delayed past the Tick.                 *)
PollCompleted ==
    /\ completed # <<>>
    /\ completed' = Tail(completed)
    /\ in_flight' = [in_flight EXCEPT ![Head(completed).identity] = None]
    /\ landed' = IF Accepts(Head(completed)) THEN Head(completed) ELSE landed
    /\ UNCHANGED <<profile, epoch, next_generation, requests, tasks>>

(* Mutant of Drop: the handle is aborted and left in the table.            *)
DropLeavingHandles(identities) ==
    /\ requests' = [i \in Identities |-> IF i \in identities THEN None ELSE requests[i]]
    /\ tasks' = tasks \ Aborted({in_flight[i] : i \in identities})
    /\ UNCHANGED <<profile, epoch, next_generation, in_flight, completed, landed>>

(* Tokens and handles of some identities go: closing the thread of a post  *)
(* drops its post and comments requests, closing the picker its list.      *)
Drop(identities) ==
    /\ requests' = [i \in Identities |-> IF i \in identities THEN None ELSE requests[i]]
    /\ in_flight' = [i \in Identities |-> IF i \in identities THEN None ELSE in_flight[i]]
    /\ tasks' = tasks \ Aborted({in_flight[i] : i \in identities})
    /\ UNCHANGED <<profile, epoch, next_generation, completed, landed>>

(* A confirmed delete drops the tokens of the post and leaves the handles. *)
Forget(identities) ==
    /\ requests' = [i \in Identities |-> IF i \in identities THEN None ELSE requests[i]]
    /\ UNCHANGED <<profile, epoch, next_generation, in_flight, tasks, completed, landed>>

(* Mutant of CancelInFlight: the tasks are aborted, the tokens stay.       *)
CancelKeepingTokens ==
    /\ tasks' = tasks \ Aborted({in_flight[i] : i \in Identities})
    /\ in_flight' = [i \in Identities |-> None]
    /\ UNCHANGED <<requests, next_generation, completed, landed>>

(* cancel_in_flight: every handle is aborted, every token invalidated.     *)
CancelInFlight ==
    /\ tasks' = tasks \ Aborted({in_flight[i] : i \in Identities})
    /\ in_flight' = [i \in Identities |-> None]
    /\ requests' = [i \in Identities |-> None]
    /\ UNCHANGED <<next_generation, completed, landed>>

Cancel == CancelInFlight /\ UNCHANGED <<profile, epoch>>

(* Login, logout, profile switch and profile creation each begin with      *)
(* cancel_in_flight; the App is then busy with that one action until the   *)
(* new context is in place, so nothing is begun in between.                *)
ChangeContext(p) ==
    /\ epoch < MaxEpoch
    /\ CancelInFlight
    /\ profile' = p
    /\ epoch' = epoch + 1

UserAction ==
    \/ \E i \in Identities : BeginInline(i) \/ BeginRead(i)
    \/ \E group \in Groups : Drop(group) \/ Forget(group)
    \/ Cancel
    \/ \E p \in Profiles : ChangeContext(p)

TaskStepOf(g) == \E t \in tasks : t.read.generation = g /\ (Answer(t) \/ Deliver(t))

TaskStep == \E t \in tasks : Answer(t) \/ Deliver(t)

Next == UserAction \/ TaskStep \/ PollCompleted

(* Reads are bounded by the HTTP client's total timeout, so a fetch always *)
(* answers; the runtime polls ready tasks; the event loop ticks every      *)
(* 100 ms while it is idle.  Nothing obliges the user.                     *)
Fairness ==
    /\ \A g \in 1 .. MaxGeneration : WF_vars(TaskStepOf(g))
    /\ WF_vars(PollCompleted)

Spec == Init /\ [][Next]_vars

FairSpec == Spec /\ Fairness

-----------------------------------------------------------------------------
TypeOK ==
    /\ profile \in Profiles
    /\ epoch \in 0 .. MaxEpoch
    /\ next_generation \in 0 .. MaxGeneration
    /\ requests \in [Identities -> (1 .. next_generation) \union {None}]
    /\ in_flight \in [Identities -> (1 .. next_generation) \union {None}]
    /\ tasks \subseteq Tasks
    /\ completed \in Seq(Reads)
    /\ landed \in Reads \union {None}

(* Some answer of generation g of identity i is still on its way.          *)
Coming(i, g) ==
    LET IsIt(read) == read.identity = i /\ read.generation = g
    IN  \/ \E t \in tasks : IsIt(t.read)
        \/ \E k \in DOMAIN completed : IsIt(completed[k])

(* A handle that is kept stands for an answer that will still be applied.  *)
(* apply_api_result asks the handle table whether the comments of a thread *)
(* are still in flight before it reports the post as loaded; a handle left *)
(* behind would keep that report, and the spinner, wrong for ever.         *)
HandleMeansComing ==
    \A i \in Identities : in_flight[i] # None => Coming(i, in_flight[i])

(* The answer to a live token belongs to the context that is active: no    *)
(* token survives a login, a logout or a switch of profile, although the   *)
(* token itself records no context and a session change keeps the profile  *)
(* that the guard of apply_api_result compares.                            *)
LiveReadsAreOfThisContext ==
    \A i \in Identities :
        /\ \A t \in tasks :
              t.read.identity = i /\ t.read.generation = requests[i]
                  => t.read.epoch = epoch /\ t.read.profile = profile
        /\ \A k \in DOMAIN completed :
              completed[k].identity = i /\ completed[k].generation = requests[i]
                  => completed[k].epoch = epoch /\ completed[k].profile = profile

(* What the pipeline promises to the view: see ReadContract.               *)
Contract == INSTANCE ReadContract WITH
    asked <- requests,
    count <- next_generation,
    shown <- IF landed = None THEN None
             ELSE [identity |-> landed.identity, number |-> landed.generation,
                   epoch |-> landed.epoch]

ImplementsContract == Contract!Spec

(* A read that is awaited and not superseded lands: the user who does not  *)
(* give up on a read gets its answer, even when a straggler of an older    *)
(* read took the handle of this one out of the table.                      *)
AwaitedReadLands ==
    \A i \in Identities, g \in 1 .. MaxGeneration :
        (requests[i] = g /\ in_flight[i] = g)
            ~> \/ requests[i] # g
               \/ landed # None /\ landed.identity = i /\ landed.generation = g

(* cancel_in_flight says that it aborts "every detached read in flight"    *)
(* (src/src/app/mod.rs:446): every read that an abort can still stop would *)
(* have to be in the handle table.                                         *)
EveryFetchHasItsHandle ==
    \A t \in tasks :
        t.at = "fetching" => in_flight[t.read.identity] = t.read.generation
=============================================================================
