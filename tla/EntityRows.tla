----------------------------- MODULE EntityRows -----------------------------
(***************************************************************************)
(* The rows of a post, of its comments and of the lists of communities:    *)
(* Repository's record_fresh_post, record_fresh_comments,                  *)
(* record_fresh_communities and mutate (src/app/repository.rs), over the   *)
(* store.  FeedRefresh has the rows of the feeds.                          *)
(*                                                                         *)
(* An entity is a version: of the post, 0 when it is deleted; of the       *)
(* comments, 1 with the user's own and 0 without.  Of a list of            *)
(* communities only the time and the staleness of its row matter.          *)
(*                                                                         *)
(* Reads are detached tasks, which App aborts.  What a task has handed to  *)
(* the blocking pool (src/cache/ops.rs) goes on without it, and without    *)
(* the lock cache_writes, which the abort released.  App awaits a          *)
(* mutation, which holds the lock from its confirmation on.                *)
(***************************************************************************)
EXTENDS CacheStore

CONSTANTS
    post, comments,  \* the keys of the post and of its comments
    Listings,        \* the keys of the lists of communities, as a sequence
    MaxVersion,      \* bound on the changes of the post
    MaxClock,        \* bound on the seconds that pass
    MaxReads         \* bound on the reads under way, aborted ones included

ListKeys == {Listings[i] : i \in DOMAIN Listings}

ASSUME EntityConstants ==
    /\ Keys = {post, comments} \union ListKeys
    /\ post # comments /\ {post, comments} \intersect ListKeys = {}
    /\ Listings \in Seq(Keys) /\ Listings # <<>>
    /\ {MaxVersion, MaxClock, MaxReads} \subseteq Nat /\ MaxVersion > 0
    /\ None \notin Keys

VARIABLES
    server,     \* key -> the version the server has
    confirmed,  \* the post in confirmed_posts, 0 when it is not there
    deleted,    \* the post is in deleted_posts
    reads,      \* the detached reads, and the writes that outlived theirs
    op,         \* where the mutation that App awaits is, or None
    clock,      \* unix_now
    promised,   \* history: the last edit that was reported done with its post
    spoiled,    \* history: an orphaned or failed write left the post behind
    overtaken   \* history: an orphaned write landed on the row the mutation read

mutations == <<confirmed, deleted>>
history == <<promised, spoiled, overtaken>>
vars == <<table, server, mutations, reads, op, clock, history>>

-----------------------------------------------------------------------------
Versions == 0 .. MaxVersion
Rows == [entity: Versions, at: 0 .. MaxClock, stale: BOOLEAN]
Reads == [key: Keys, at: {"fetching", "fetched", "queued", "storing"}, got: Versions,
          row: Rows \union {None}, aborted: BOOLEAN]
Ops == [kind: {"edit", "delete", "comment", "subscribe"}, todo: Seq(Keys),
        at: {"reading", "queued", "storing"}, seen: Rows \union {None}, row: Rows \union {None}]

ASSUME NoneIsNothing == None \notin Rows \union Ops

ASSUME SizeConstants ==
    /\ \A k \in Keys, entity \in Versions : Bytes(k, entity) \in Nat
    /\ Cap \in Nat \union {None}

Init ==
    /\ EmptyTable
    /\ server = [k \in Keys |-> IF k = post THEN 1 ELSE 0]
    /\ confirmed = 0
    /\ deleted = FALSE
    /\ reads = {}
    /\ op = None
    /\ clock = 0
    /\ promised = 0
    /\ spoiled = FALSE
    /\ overtaken = FALSE

(* Mutant of LockIsFree: a mutation does not wait for the writes of reads. *)
LockIsTakenByMutations == op = None

(* cache_writes: held by the mutation, and by a read that awaits its write. *)
LockIsFree ==
    /\ op = None
    /\ \A r \in reads : r.at \in {"queued", "storing"} => r.aborted

(* The mutex of the connection: held from the upsert to the last deletion. *)
ConnectionIsFree ==
    /\ op # None => op.at # "storing"
    /\ \A r \in reads : r.at # "storing"

Fresh(entity) == [entity |-> entity, at |-> clock, stale |-> FALSE]

Becomes(r, s) == reads' = (reads \ {r}) \union {s}

Ends(r) == reads' = reads \ {r}

-----------------------------------------------------------------------------
(* Reads.                                                                  *)

(* What an abort of some reads leaves: the writes that are with the pool.  *)
AfterAbort(aborted) ==
    (reads \ aborted) \union
    {[r EXCEPT !.aborted = TRUE] : r \in {r \in aborted : r.at \in {"queued", "storing"}}}

ReadsOf(k) == {r \in reads : r.key = k}

(* begin_request aborts the read of the same key that is under way; the    *)
(* handler has shown what the cache holds, for which it took the lock.     *)
Read(k) ==
    /\ LockIsFree
    /\ \E left \in {AfterAbort(ReadsOf(k))} :
          /\ Cardinality(left) < MaxReads
          /\ reads' = left \union
                {[key |-> k, at |-> "fetching", got |-> 0, row |-> None, aborted |-> FALSE]}
    /\ UNCHANGED <<table, server, mutations, op, clock, history>>

(* The answer is there.  record_fresh_post looks at the deleted posts      *)
(* before it asks for the lock, the others at nothing.                     *)
Fetched(r) ==
    /\ r.at = "fetching"
    /\ IF r.key = post /\ (server[post] = 0 \/ deleted)
       THEN Ends(r)
       ELSE Becomes(r, [r EXCEPT !.at = "fetched", !.got = server[r.key]])
    /\ UNCHANGED <<table, server, mutations, op, clock, history>>

FetchFails(r) ==
    /\ r.at = "fetching"
    /\ Ends(r)
    /\ UNCHANGED <<table, server, mutations, op, clock, history>>

(* Mutant of Reconciled: the post is recorded as it was fetched.           *)
ReconciledNot(r) == r.got

(* The latest confirmed object of the post stands for what was fetched.    *)
Reconciled(r) == IF r.key = post /\ confirmed # 0 THEN confirmed ELSE r.got

Record(r) ==
    /\ r.at = "fetched"
    /\ LockIsFree
    /\ Becomes(r, [r EXCEPT !.at = "queued", !.got = 0, !.row = Fresh(Reconciled(r))])
    /\ UNCHANGED <<table, server, mutations, op, clock, history>>

Patching(k) == op # None /\ op.at = "queued" /\ Head(op.todo) = k

(* The pool gets to the write.  An aborted one lands as it was.            *)
Store(r) ==
    /\ r.at = "queued"
    /\ ConnectionIsFree
    /\ Upsert(r.key, r.row)
    /\ Becomes(r, [r EXCEPT !.at = "storing", !.row = None])
    /\ spoiled' = IF r.key = post THEN r.aborted ELSE spoiled
    /\ overtaken' = (overtaken \/ (r.aborted /\ Patching(r.key)))
    /\ UNCHANGED <<server, mutations, op, clock, promised>>

StoreFails(r) ==
    /\ r.at = "queued"
    /\ ConnectionIsFree
    /\ Ends(r)
    /\ UNCHANGED <<table, server, mutations, op, clock, history>>

(* A write returns when the table fits, or when a deletion failed, which   *)
(* is logged and forgotten.                                                *)
StoreReturns(r) ==
    /\ r.at = "storing"
    /\ Ends(r)
    /\ UNCHANGED <<table, server, mutations, op, clock, history>>

-----------------------------------------------------------------------------
(* Mutations.                                                              *)

(* What has to be done to the rows.  When the home row cannot be written   *)
(* nothing is, and the mutation is reported as failed.                     *)
Begins(mutation) == op' = mutation \/ op' = None

Patches(kind, todo) ==
    [kind |-> kind, todo |-> todo, at |-> "reading", seen |-> None, row |-> None]

(* The server has done it and says so, and mutate has the lock.  Until     *)
(* then a mutation only takes time: what is read meanwhile is as it was    *)
(* before or will be after.  A vote or a save is an edit here.  An answer  *)
(* that says success and brings no post confirms and patches nothing: it   *)
(* is reported done, and what it did is promised to nobody.                *)
EditPost ==
    /\ server[post] \in 1 .. MaxVersion - 1
    /\ server' = [server EXCEPT ![post] = @ + 1]
    /\ \/ confirmed' = server'[post] /\ Begins(Patches("edit", <<post>>))
       \/ UNCHANGED <<confirmed, op>>
    /\ UNCHANGED <<deleted, promised>>

(* The comments are replaced by none, unread; the row of the post stays.   *)
DeletePost ==
    /\ server[post] # 0
    /\ server' = [server EXCEPT ![post] = 0, ![comments] = 0]
    /\ confirmed' = 0
    /\ deleted' = TRUE
    /\ promised' = 0
    /\ Begins([Patches("delete", <<comments>>) EXCEPT !.at = "queued", !.row = Fresh(0)])

(* The user's comment is written, edited or voted on, or deleted.  An      *)
(* answer without the comment patches nothing, as when Begins does not.    *)
MutateComment ==
    /\ server[post] # 0
    /\ server' = [server EXCEPT ![comments] = 1 - @]
    /\ Begins(Patches("comment", <<comments>>))
    /\ UNCHANGED <<mutations, promised>>

Subscribe ==
    /\ Begins(Patches("subscribe", Listings))
    /\ UNCHANGED <<server, mutations, promised>>

Mutate ==
    /\ LockIsFree
    /\ EditPost \/ DeletePost \/ MutateComment \/ Subscribe
    /\ UNCHANGED <<table, reads, clock, spoiled, overtaken>>

(* The server did it and the client was not told: nothing is confirmed.    *)
MutateUnconfirmed ==
    /\ LockIsFree
    /\ server[post] \in 1 .. MaxVersion - 1
    /\ server' = [server EXCEPT ![post] = @ + 1]
    /\ UNCHANGED <<table, mutations, reads, op, clock, history>>

(* The next row, or the end: the mutation is reported done.                *)
GoesOn ==
    IF Len(op.todo) > 1
    THEN /\ op' = [op EXCEPT !.todo = Tail(@), !.at = "reading", !.seen = None, !.row = None]
         /\ UNCHANGED promised
    ELSE /\ op' = None
         /\ promised' = IF op.kind = "edit" THEN confirmed ELSE promised

Patched(k) ==
    CASE op.kind = "edit" -> [rows[k] EXCEPT !.entity = confirmed, !.stale = FALSE]
      [] op.kind = "comment" -> [rows[k] EXCEPT !.entity = server[comments], !.stale = FALSE]
      [] op.kind = "subscribe" -> [rows[k] EXCEPT !.stale = TRUE]

(* reconcile_entity_rows: the row is read, and keeps the time at which it  *)
(* was fetched when it is written back.                                    *)
PatchRead ==
    /\ op # None /\ op.at = "reading"
    /\ ConnectionIsFree
    /\ LET k == Head(op.todo)
       IN  IF rows[k] = None THEN GoesOn
           ELSE /\ op' = [op EXCEPT !.at = "queued", !.seen = rows[k], !.row = Patched(k)]
                /\ UNCHANGED promised
    /\ overtaken' = FALSE
    /\ UNCHANGED <<table, server, mutations, reads, clock, spoiled>>

PatchWrite ==
    /\ op # None /\ op.at = "queued"
    /\ ConnectionIsFree
    /\ Upsert(Head(op.todo), op.row)
    /\ op' = [op EXCEPT !.at = "storing", !.seen = None, !.row = None]
    /\ overtaken' = FALSE
    /\ spoiled' = (spoiled /\ Head(op.todo) # post)
    /\ UNCHANGED <<server, mutations, reads, clock, promised>>

(* What the store fails to read or to write is left as it is.              *)
PatchFails ==
    /\ op # None /\ op.at \in {"reading", "queued"}
    /\ ConnectionIsFree
    /\ GoesOn
    /\ spoiled' = (spoiled \/ Head(op.todo) = post)
    /\ overtaken' = FALSE
    /\ UNCHANGED <<table, server, mutations, reads, clock>>

PatchReturns ==
    /\ op # None /\ op.at = "storing"
    /\ GoesOn
    /\ UNCHANGED <<table, server, mutations, reads, clock, spoiled, overtaken>>

-----------------------------------------------------------------------------
(* The rest.                                                               *)

(* A deletion of the eviction, in whatever write holds the connection.     *)
Evict ==
    /\ ~ ConnectionIsFree
    /\ DeleteOldest
    /\ UNCHANGED <<server, mutations, reads, op, clock, history>>

(* A thread or the picker is closed.                                       *)
Abort(k) ==
    /\ op = None
    /\ reads' = AfterAbort(ReadsOf(k))
    /\ UNCHANGED <<table, server, mutations, op, clock, history>>

(* invalidate_profile_context, after every read was aborted.               *)
Logout ==
    /\ op = None
    /\ reads' = AfterAbort(reads)
    /\ confirmed' = 0
    /\ deleted' = FALSE
    /\ UNCHANGED <<table, server, op, clock, history>>

(* The process dies, at any point, and is started again.                   *)
Restart ==
    /\ reads' = {}
    /\ op' = None
    /\ confirmed' = 0
    /\ deleted' = FALSE
    /\ overtaken' = FALSE
    /\ UNCHANGED <<table, server, clock, promised, spoiled>>

TimePasses ==
    /\ clock < MaxClock
    /\ clock' = clock + 1
    /\ UNCHANGED <<table, server, mutations, reads, op, history>>

App ==
    \/ \E k \in Keys : Read(k) \/ Abort(k)
    \/ Mutate \/ MutateUnconfirmed \/ Logout

ReadStep(r) ==
    \/ Fetched(r) \/ FetchFails(r) \/ Record(r)
    \/ Store(r) \/ StoreFails(r) \/ StoreReturns(r)

PatchStep == PatchRead \/ PatchWrite \/ PatchFails \/ PatchReturns

Next ==
    \/ App
    \/ \E r \in reads : ReadStep(r)
    \/ PatchStep
    \/ Evict
    \/ Restart
    \/ TimePasses

Spec == Init /\ [][Next]_vars

-----------------------------------------------------------------------------
TypeOK ==
    /\ rows \in [Keys -> Rows \union {None}]
    /\ order \in Seq(Keys)
    /\ server \in [Keys -> Versions]
    /\ confirmed \in Versions
    /\ deleted \in BOOLEAN
    /\ reads \subseteq Reads
    /\ op \in Ops \union {None}
    /\ clock \in 0 .. MaxClock
    /\ promised \in Versions
    /\ {spoiled, overtaken} \subseteq BOOLEAN

(* An edit that was reported done, with the post it made, is in the row of *)
(* the post, if there is one, and stays there over a logout or a restart,  *)
(* when confirmed_posts no longer protects it: "a mutation that landed     *)
(* after the fetch must not be overwritten by the fetch"                   *)
(* (src/src/app/repository.rs:469).  The exceptions are a write that       *)
(* failed, and one that outlived its task.                                 *)
EditsOutliveTheSession ==
    rows[post] # None /\ ~ spoiled => rows[post].entity >= promised

(* A mutation replaces the row that it read, or puts one back that was     *)
(* evicted: what a read recorded in between is not lost, since the lock    *)
(* cache_writes spans both (src/src/app/repository.rs:600).  Only a write  *)
(* that outlived its task comes in between.                                *)
NoUpdateIsLost ==
    [][PatchWrite /\ op.kind # "delete" =>
        LET k == Head(op.todo) IN rows[k] \in {op.seen, None} \/ overtaken]_vars

(* The row that a read with the lock, or the deletion of the post, has     *)
(* written as of now.                                                      *)
FreshBy(k) ==
    \/ \E r \in reads : r.at = "storing" /\ ~ r.aborted /\ r.key = k
    \/ op # None /\ op.kind = "delete" /\ op.at = "storing" /\ Head(op.todo) = k

(* What was just fetched and recorded is not evicted by its own write, in  *)
(* favour of something older, unless it alone exceeds the cap or another   *)
(* row is of the same second: the time is taken under cache_writes, so     *)
(* that no later one can reach the table first (evict_oldest_locked in     *)
(* src/src/cache/store.rs deletes by that time alone).                     *)
FreshRowSurvives ==
    [][\A k \in Keys : FreshBy(k) /\ rows[k] # None /\ rows'[k] = None =>
        \/ Bytes(k, rows[k].entity) > Cap
        \/ \E j \in Stored \ {k} : rows[j].at = rows[k].at]_vars

WrittenBy(k) ==
    \/ op # None /\ op.at = "storing" /\ Head(op.todo) = k
    \/ \E r \in reads : r.at = "storing" /\ r.key = k

(* "The entry just written is the newest and survives unless it alone      *)
(* exceeds the cap" (src/src/cache/store.rs:288), whichever write it is.   *)
WrittenRowSurvives ==
    [][\A k \in Keys : WrittenBy(k) /\ rows[k] # None /\ rows'[k] = None =>
        Bytes(k, rows[k].entity) > Cap]_vars
=============================================================================
