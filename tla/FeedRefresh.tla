----------------------------- MODULE FeedRefresh -----------------------------
(***************************************************************************)
(* The feed of one profile: the rows of the cache, the background refresh  *)
(* of Repository (src/app/repository.rs), the page flips that App detaches *)
(* itself, and the mutations whose outcome every page is reconciled with.  *)
(*                                                                         *)
(* A feed is known here by what it shows of one post that the user edits   *)
(* or deletes: its version, or 0 when the feed does not hold it.           *)
(*                                                                         *)
(* App runs one handler at a time; op is where it is suspended.  Everything *)
(* under the lock cache_writes is one step.  Background refreshes are never *)
(* aborted; a flip is, and a write it has handed to the blocking pool then *)
(* goes on without it.                                                     *)
(***************************************************************************)
EXTENDS Naturals, FiniteSets

CONSTANTS
    Keys,           \* the feeds of the profile: FeedKey
    home,           \* the key of the home feed
    FlipKeys,       \* the keys that are pages of another feed
    Evictable,      \* the keys whose row the cache may evict
    None,
    MaxGeneration,  \* bound on next_generation
    MaxVersion,     \* bound on the edits of the post
    MaxEpoch        \* bound on the number of logouts

ASSUME FeedConstants ==
    /\ home \in Keys
    /\ FlipKeys \subseteq Keys
    /\ Evictable \subseteq Keys
    /\ {MaxGeneration, MaxVersion, MaxEpoch} \subseteq Nat /\ MaxVersion > 0
    /\ None \notin Nat

VARIABLES
    server,           \* the version of the post the server has, 0 when deleted
    rows,             \* key -> the page in the cache and its staleness
    refreshes,        \* key -> the latest generation, and its completion
    epoch,            \* the context epoch of the profile
    deleted,          \* the post is in deleted_posts
    confirmed,        \* its version in confirmed_posts, 0 when it is not there
    tasks,            \* the background refreshes
    flips,            \* the detached page reads
    token,            \* the generation of the Feed token of App, or None
    next_generation,
    query,            \* the key of view.feed_query
    view,             \* the page on the screen
    pending,          \* status.pending: the screen says that something is awaited
    op,               \* the handler App is suspended in
    evicted           \* history: the keys whose row the cache evicted

vars == <<server, rows, refreshes, epoch, deleted, confirmed, tasks, flips, token,
          next_generation, query, view, pending, op, evicted>>

mutations == <<deleted, confirmed>>
screen == <<query, view, pending>>
asked == <<token, next_generation>>

-----------------------------------------------------------------------------
Versions == 0 .. MaxVersion
Generations == 0 .. MaxGeneration
Epochs == 0 .. MaxEpoch

(* by and epoch say which request fetched a page, and in which context;    *)
(* they serve the properties only.                                         *)
Pages == [post: Versions, by: Generations, epoch: Epochs]
Rows == [page: Pages, stale: BOOLEAN]
Completions == [generation: Generations, ok: BOOLEAN]
Refreshes == [latest: Generations, completed: Completions \union {None}]
Tasks == [generation: Generations, epoch: Epochs, key: Keys, page: Pages \union {None}]
Flips == [generation: Generations, epoch: Epochs, key: Keys, previous: Keys,
          page: Pages \union {None},
          at: {"fetching", "writing", "answered", "failed", "orphan"}]
Ops == [at: {"miss", "hit", "write", "inline", "tick"}, key: Keys, generation: Generations,
        row: Rows \union {None}]

NoRefresh == [latest |-> 0, completed |-> None]
NoPage == [post |-> 0, by |-> 0, epoch |-> 0]
EmptyView == [page |-> NoPage, stale |-> FALSE, how |-> "cache"]

Init ==
    /\ server = 1
    /\ rows \in [Keys -> {None} \union
                    [page: {[post |-> 1, by |-> 0, epoch |-> 0]}, stale: BOOLEAN]]
    /\ refreshes = [k \in Keys |-> NoRefresh]
    /\ epoch = 0
    /\ deleted = FALSE
    /\ confirmed = 0
    /\ tasks = {}
    /\ flips = {}
    /\ token = None
    /\ next_generation = 0
    /\ query = home
    /\ view = EmptyView
    /\ pending = FALSE
    /\ op = None
    /\ evicted = {}

(* A page without the deleted posts and with the confirmed ones, which are *)
(* appended to a page that lacks them.                                     *)
ReconciledWith(page, gone, version) ==
    [page EXCEPT !.post = IF gone THEN 0 ELSE IF version # 0 THEN version ELSE @]

Reconcile(page) == ReconciledWith(page, deleted, confirmed)

(* cached_feed writes what it reconciled back, as stale as it was.         *)
Reread(k) ==
    rows' = IF rows[k] = None THEN rows
            ELSE [rows EXCEPT ![k].page = Reconcile(@)]

Register(k, g) ==
    refreshes' = [refreshes EXCEPT ![k] =
        IF g >= @.latest THEN [latest |-> g, completed |-> None] ELSE @]

(* Mutant of Current: a refresh that was superseded may still write.       *)
CurrentEpochOnly(k, g, e) == epoch = e

Current(k, g, e) == epoch = e /\ refreshes[k].latest = g

(* Mutant of WriteRefresh: the refresh writes whatever happened meanwhile. *)
WriteRefreshUnguarded(k, g, e, row) ==
    /\ rows' = [rows EXCEPT ![k] = row]
    /\ refreshes' = [refreshes EXCEPT ![k].completed = [generation |-> g, ok |-> TRUE]]

(* write_refresh_locked: the row and the completion, or nothing.           *)
WriteRefresh(k, g, e, row) ==
    IF Current(k, g, e)
    THEN /\ rows' = [rows EXCEPT ![k] = row]
         /\ refreshes' = [refreshes EXCEPT ![k].completed = [generation |-> g, ok |-> TRUE]]
    ELSE UNCHANGED <<rows, refreshes>>

Spawned(k, g) == [generation |-> g, epoch |-> epoch, key |-> k, page |-> None]

Fetched(g, e) == [post |-> server, by |-> g, epoch |-> e]

(* What an abort leaves of the flips: those that are past their last await, *)
(* and the writes that are with the blocking pool.                         *)
Surviving ==
    {{f \in flips : f.at \in {"answered", "failed", "orphan"}} \union written :
        written \in SUBSET {[f EXCEPT !.at = "orphan", !.page = Reconcile(@)] :
                                f \in {f \in flips : f.at = "writing"}}}

-----------------------------------------------------------------------------
(* The refresh of a feed: refresh_feed and what it calls.                  *)

(* The request is begun and the cache is looked at.                        *)
Refresh(k) ==
    /\ op = None
    /\ next_generation < MaxGeneration
    /\ next_generation' = next_generation + 1
    /\ token' = next_generation'
    /\ flips' \in Surviving
    /\ Reread(k)
    /\ query' = k
    /\ pending' = TRUE
    /\ op' = [at |-> IF rows[k] = None THEN "miss" ELSE "hit", key |-> k,
              generation |-> next_generation', row |-> None]
    /\ UNCHANGED <<server, refreshes, epoch, mutations, tasks, view, evicted>>

SpawnFeedMiss ==
    /\ op # None /\ op.at = "miss"
    /\ Register(op.key, op.generation)
    /\ tasks' = tasks \union {Spawned(op.key, op.generation)}
    /\ op' = None
    /\ UNCHANGED <<server, rows, epoch, mutations, flips, asked, screen, evicted>>

(* feed_with_generation registers, and reads the row before it takes the   *)
(* lock under which it is reconciled and written back.                     *)
HitRead ==
    /\ op # None /\ op.at = "hit"
    /\ Register(op.key, op.generation)
    /\ op' = IF rows[op.key] = None THEN [op EXCEPT !.at = "inline"]
             ELSE [op EXCEPT !.at = "write", !.row = rows[op.key]]
    /\ UNCHANGED <<server, rows, epoch, mutations, tasks, flips, asked, screen, evicted>>

HitWrite ==
    /\ op # None /\ op.at = "write"
    /\ LET page == Reconcile(op.row.page)
       IN  /\ WriteRefresh(op.key, op.generation, epoch, [page |-> page, stale |-> TRUE])
           /\ view' = [page |-> page, stale |-> TRUE, how |-> "cache"]
    /\ tasks' = tasks \union {Spawned(op.key, op.generation)}
    /\ op' = None
    /\ UNCHANGED <<server, epoch, mutations, flips, asked, query, pending, evicted>>

(* The row went between the two reads: the handler itself fetches.         *)
InlineFetch ==
    /\ op # None /\ op.at = "inline"
    /\ \/ LET page == Reconcile(Fetched(op.generation, epoch))
          IN  /\ WriteRefresh(op.key, op.generation, epoch, [page |-> page, stale |-> FALSE])
              /\ view' = [page |-> page, stale |-> FALSE, how |-> "cache"]
       \/ UNCHANGED <<rows, refreshes, view>>
    /\ pending' = FALSE
    /\ op' = None
    /\ UNCHANGED <<server, epoch, mutations, tasks, flips, asked, query, evicted>>

(* The background half: the server answers ...                             *)
Fetch(t) ==
    /\ t.page = None
    /\ tasks' = (tasks \ {t}) \union {[t EXCEPT !.page = Fetched(t.generation, t.epoch)]}
    /\ UNCHANGED <<server, rows, refreshes, epoch, mutations, flips, asked, screen, op, evicted>>

(* Mutant of LandRefresh: the page is written as the server sent it.       *)
LandRefreshRaw(t) ==
    /\ t.page # None
    /\ WriteRefresh(t.key, t.generation, t.epoch, [page |-> t.page, stale |-> FALSE])
    /\ tasks' = tasks \ {t}
    /\ UNCHANGED <<server, epoch, mutations, flips, asked, screen, op, evicted>>

(* ... and its page is reconciled and written.                             *)
LandRefresh(t) ==
    /\ t.page # None
    /\ WriteRefresh(t.key, t.generation, t.epoch,
                    [page |-> Reconcile(t.page), stale |-> FALSE])
    /\ tasks' = tasks \ {t}
    /\ UNCHANGED <<server, epoch, mutations, flips, asked, screen, op, evicted>>

(* Mutant of FailRefresh: the task ends and leaves no completion.          *)
FailRefreshSilently(t) ==
    /\ t.page = None
    /\ tasks' = tasks \ {t}
    /\ UNCHANGED <<server, rows, refreshes, epoch, mutations, flips, asked, screen, op, evicted>>

FailRefresh(t) ==
    /\ t.page = None
    /\ refreshes' = IF Current(t.key, t.generation, t.epoch)
                    THEN [refreshes EXCEPT ![t.key].completed =
                            [generation |-> t.generation, ok |-> FALSE]]
                    ELSE refreshes
    /\ tasks' = tasks \ {t}
    /\ UNCHANGED <<server, rows, epoch, mutations, flips, asked, screen, op, evicted>>

(* The Tick takes the completion of the feed on the screen ...             *)
TickTake ==
    /\ op = None
    /\ token # None
    /\ LET done == refreshes[query].completed
       IN  /\ done # None
           /\ IF done.ok
              THEN /\ op' = [at |-> "tick", key |-> query, generation |-> done.generation,
                             row |-> None]
                   /\ UNCHANGED pending
              ELSE /\ op' = None
                   /\ pending' = IF done.generation = token THEN FALSE ELSE pending
    /\ refreshes' = [refreshes EXCEPT ![query].completed = None]
    /\ UNCHANGED <<server, rows, epoch, mutations, tasks, flips, asked, query, view, evicted>>

(* Mutant of TickRead: the page is shown as it was before a reconciliation. *)
TickReadRaw ==
    /\ op # None /\ op.at = "tick"
    /\ LET row == rows[op.key]
       IN  IF row # None /\ ~ row.stale /\ op.generation = token
           THEN /\ view' = [page |-> row.page, stale |-> FALSE, how |-> "cache"]
                /\ pending' = FALSE
           ELSE UNCHANGED <<view, pending>>
    /\ op' = None
    /\ UNCHANGED <<server, rows, refreshes, epoch, mutations, tasks, flips, asked, query, evicted>>

(* ... and reads the row: gone or still stale, it is not shown.            *)
TickRead ==
    /\ op # None /\ op.at = "tick"
    /\ Reread(op.key)
    /\ LET row == rows[op.key]
       IN  IF row # None /\ ~ row.stale /\ op.generation = token
           THEN /\ view' = [page |-> Reconcile(row.page), stale |-> FALSE, how |-> "cache"]
                /\ pending' = FALSE
           ELSE UNCHANGED <<view, pending>>
    /\ op' = None
    /\ UNCHANGED <<server, refreshes, epoch, mutations, tasks, flips, asked, query, evicted>>

-----------------------------------------------------------------------------
(* The flips of App: next_page and previous_page.                          *)

Flip(k) ==
    /\ op = None
    /\ k # query
    /\ next_generation < MaxGeneration
    /\ next_generation' = next_generation + 1
    /\ token' = next_generation'
    /\ \E left \in Surviving :
          flips' = left \union
                {[generation |-> next_generation', epoch |-> epoch, key |-> k,
                  previous |-> query, page |-> None, at |-> "fetching"]}
    /\ Reread(k)
    /\ IF rows[k] = None
       THEN pending' = TRUE /\ UNCHANGED <<query, view>>
       ELSE /\ query' = k
            /\ view' = [page |-> Reconcile(rows[k].page), stale |-> rows[k].stale, how |-> "cache"]
            /\ pending' = rows[k].stale
    /\ UNCHANGED <<server, refreshes, epoch, mutations, tasks, op, evicted>>

Moves(f, place, page) ==
    flips' = (flips \ {f}) \union {[f EXCEPT !.at = place, !.page = page]}

FlipFetch(f) ==
    /\ f.at = "fetching"
    /\ \/ Moves(f, "writing", Fetched(f.generation, f.epoch))
       \/ Moves(f, "failed", None)
    /\ UNCHANGED <<server, rows, refreshes, epoch, mutations, tasks, asked, screen, op, evicted>>

(* record_fresh_feed_page looks at no generation and no epoch; the page    *)
(* that the answer carries is still the server's.                          *)
FlipWrite(f) ==
    /\ f.at = "writing"
    /\ rows' = [rows EXCEPT ![f.key] = [page |-> Reconcile(f.page), stale |-> FALSE]]
    /\ Moves(f, "answered", f.page)
    /\ UNCHANGED <<server, refreshes, epoch, mutations, tasks, asked, screen, op, evicted>>

OrphanWrite(f) ==
    /\ f.at = "orphan"
    /\ rows' = [rows EXCEPT ![f.key] = [page |-> f.page, stale |-> FALSE]]
    /\ flips' = flips \ {f}
    /\ UNCHANGED <<server, refreshes, epoch, mutations, tasks, asked, screen, op, evicted>>

(* The answer lands, if its token is still there.  A flip that failed      *)
(* restores the query it left (the next page), or keeps it (the previous). *)
FlipLand(f) ==
    /\ op = None
    /\ f.at \in {"answered", "failed"}
    /\ flips' = flips \ {f}
    /\ IF token # f.generation THEN UNCHANGED screen
       ELSE /\ pending' = FALSE
            /\ IF f.at = "answered"
               THEN /\ query' = f.key
                    /\ view' = [page |-> f.page, stale |-> FALSE, how |-> "fetched"]
               ELSE query' \in {query, f.previous} /\ UNCHANGED view
    /\ UNCHANGED <<server, rows, refreshes, epoch, mutations, tasks, asked, op, evicted>>

-----------------------------------------------------------------------------
(* Mutations, the end of a context, and the rest.                          *)

(* Every mutation that succeeds writes the home row again, no longer stale. *)
HomeIsPatched(gone, version) ==
    rows' = IF rows[home] = None THEN rows
            ELSE [rows EXCEPT ![home] =
                     [page |-> ReconciledWith(@.page, gone, version), stale |-> FALSE]]

(* What a confirmed mutation leaves: the sets that pages are reconciled    *)
(* with, the home row, and the post on the screen.                         *)
Confirmed(version) ==
    /\ deleted' = (version = 0)
    /\ confirmed' = version
    /\ HomeIsPatched(version = 0, version)
    /\ view' = IF view.page.post = 0 THEN view ELSE [view EXCEPT !.page.post = version]

(* The post is edited or deleted: confirmed; done, with an answer that     *)
(* brings no post; done but reported as an error (its answer was lost); or *)
(* refused.  A comment or a subscription leaves the post as it is and      *)
(* brings none either.  App waits for the answer, and a fetch in between   *)
(* sees what one before or after it would.                                 *)
Mutate(version) ==
    /\ op = None
    /\ server # 0
    /\ version \in {0, server + 1} \intersect Versions
    /\ \/ server' = version /\ Confirmed(version)
       \/ /\ server' \in {server, version} \ {0}
          /\ HomeIsPatched(deleted, confirmed)
          /\ UNCHANGED <<mutations, view>>
       \/ server' = version /\ UNCHANGED <<mutations, rows, view>>
       \/ UNCHANGED <<server, mutations, rows, view>>
    /\ pending' = FALSE
    /\ UNCHANGED <<refreshes, epoch, tasks, flips, asked, query, op, evicted>>

(* cancel_pending; a login, or a logout that fails, does as much here.     *)
Cancel ==
    /\ op = None
    /\ token' = None
    /\ flips' \in Surviving
    /\ pending' = FALSE
    /\ UNCHANGED <<server, rows, refreshes, epoch, mutations, tasks, next_generation, query,
                   view, op, evicted>>

(* The rows of the cache outlive the session they were fetched in.         *)
Logout ==
    /\ op = None
    /\ epoch < MaxEpoch
    /\ token' = None
    /\ flips' \in Surviving
    /\ epoch' = epoch + 1
    /\ refreshes' = [k \in Keys |-> NoRefresh]
    /\ deleted' = FALSE
    /\ confirmed' = 0
    /\ query' = home
    /\ view' = EmptyView
    /\ pending' = FALSE
    /\ UNCHANGED <<server, rows, tasks, next_generation, op, evicted>>

Evict(k) ==
    /\ rows[k] # None
    /\ rows' = [rows EXCEPT ![k] = None]
    /\ evicted' = evicted \union {k}
    /\ UNCHANGED <<server, refreshes, epoch, mutations, tasks, flips, asked, screen, op>>

UserAction ==
    \/ \E k \in Keys : Refresh(k)
    \/ \E k \in FlipKeys : Flip(k)
    \/ \E version \in Versions : Mutate(version)
    \/ Cancel \/ Logout

Handler == SpawnFeedMiss \/ HitRead \/ HitWrite \/ InlineFetch \/ TickRead

Tick == TickTake \/ \E f \in flips : FlipLand(f)

TaskStep(t) == Fetch(t) \/ LandRefresh(t) \/ FailRefresh(t)

FlipStep(f) == FlipFetch(f) \/ FlipWrite(f) \/ OrphanWrite(f)

Next ==
    \/ UserAction \/ Handler \/ Tick
    \/ \E t \in tasks : TaskStep(t)
    \/ \E f \in flips : FlipStep(f)
    \/ \E k \in Evictable : Evict(k)

(* The HTTP client's timeout ends every fetch, a handler goes on when what *)
(* it awaits is there, and the event loop ticks while App is idle.         *)
Fairness ==
    /\ WF_vars(Handler)
    /\ WF_vars(TickTake)
    /\ \A g \in 1 .. MaxGeneration :
          /\ WF_vars(\E t \in tasks : t.generation = g /\ TaskStep(t))
          /\ WF_vars(\E f \in flips : f.generation = g /\ FlipStep(f))
          /\ WF_vars(\E f \in flips : f.generation = g /\ FlipLand(f))

Spec == Init /\ [][Next]_vars

FairSpec == Spec /\ Fairness

-----------------------------------------------------------------------------
TypeOK ==
    /\ server \in Versions
    /\ rows \in [Keys -> Rows \union {None}]
    /\ refreshes \in [Keys -> Refreshes]
    /\ epoch \in Epochs
    /\ deleted \in BOOLEAN
    /\ confirmed \in Versions
    /\ tasks \subseteq Tasks
    /\ flips \subseteq Flips
    /\ token \in 1 .. next_generation \union {None}
    /\ next_generation \in Generations
    /\ query \in Keys
    /\ view \in [page: Pages, stale: BOOLEAN, how: {"cache", "fetched"}]
    /\ pending \in BOOLEAN
    /\ op \in Ops \union {None}
    /\ evicted \subseteq Keys

(* What the user changed or deleted is not undone by a page that was       *)
(* fetched before.                                                         *)
IsReconciled(page) == page.post # 0 => page.post = Reconcile(page).post

(* A feed that reaches the screen through the cache shows what was         *)
(* confirmed: the refresh that was in flight when a post was deleted does  *)
(* not bring it back (tests/application.rs:873).                           *)
FeedIsReconciled == view.how = "cache" => IsReconciled(view.page)

(* The same for a page that a flip fetched: "a mutation that landed after  *)
(* the fetch must not be overwritten by the fetch"                         *)
(* (src/src/app/repository.rs:469).                                        *)
FlipIsReconciled == view.how = "fetched" => IsReconciled(view.page)

(* The home row is reconciled at every moment, not only when it is read:   *)
(* mutate patches it, and no write that was under way brings back what it  *)
(* replaced.                                                               *)
HomeRowIsReconciled == rows[home] # None => IsReconciled(rows[home].page)

(* A refresh never replaces the page of a newer one, however late it is:   *)
(* "a stale background refresh can never clobber a newer one"              *)
(* (src/src/app/repository.rs:90).  A flip writes its page unconditionally. *)
NewerFetchStays ==
    [][\A k \in Keys \ FlipKeys : rows[k] # None /\ rows'[k] # None
            => rows'[k].page.by >= rows[k].page.by]_vars

(* After a logout no row is written with a page that was fetched for the   *)
(* session that ended (tests/application.rs:936); writing back a row that  *)
(* the cache held, or a handler has just read from it, is the exception.   *)
Held(k) == {rows[k], IF op # None /\ op.key = k THEN op.row ELSE None} \ {None}

RowsAreOfThisContext ==
    [][\A k \in Keys \ FlipKeys : rows'[k] # None /\ rows'[k].page.epoch # epoch'
            => \E row \in Held(k) : row.page.epoch = rows'[k].page.epoch]_vars

(* What take_completed_feed reports as the result of a refresh is what the *)
(* refresh fetched: "`None` until the refresh (if any) lands"              *)
(* (src/src/app/repository.rs:355).                                        *)
CompletionIsARefresh ==
    [][op # None /\ op.at = "tick" /\ view.stale /\ ~ view'.stale
            => view'.page.by = op.generation]_vars

(* Whatever is awaited arrives, or its failure does: no refresh is         *)
(* superseded, dropped or completed unseen with the screen still waiting   *)
(* (take_completed_feed, src/src/app/repository.rs:355).  A row that is    *)
(* evicted before the tick that would show it is the one exception.        *)
RefreshLands == pending ~> (~ pending \/ query \in evicted)
=============================================================================
