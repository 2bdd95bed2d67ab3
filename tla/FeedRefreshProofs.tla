-------------------------- MODULE FeedRefreshProofs --------------------------
(***************************************************************************)
(* Proofs about the feed of a profile, for any feeds, requests, edits and  *)
(* logouts: pages that come through the cache are reconciled, no refresh   *)
(* replaces the page of a newer one, and none is written for a session     *)
(* that ended.  The inductive invariant numbers what is under way: what a  *)
(* task fetched is of its generation, a row is of one that its feed has    *)
(* registered, and what a handler has read from a row is still its page.   *)
(***************************************************************************)
EXTENDS FeedRefresh, TLAPS

FlipOK(f) ==
    /\ f \in Flips
    /\ f.key \in FlipKeys
    /\ f.generation <= next_generation
    /\ f.at \in {"writing", "answered", "orphan"} =>
          f.page \in Pages /\ f.page.by <= next_generation

TaskOK(t) ==
    /\ t \in Tasks
    /\ t.generation \in 1 .. next_generation
    /\ t.page # None => t.page.by = t.generation /\ t.page.epoch = t.epoch

(* A handler of refresh_feed has the last generation, and no task has it.  *)
Refreshing == op # None /\ op.at # "tick"

RefreshIsTheLast ==
    Refreshing =>
        /\ op.generation = next_generation
        /\ next_generation >= 1
        /\ \A t \in tasks : t.generation # op.generation

(* From its registration on, no other refresh of the feed may write.       *)
RefreshIsRegistered ==
    op # None /\ op.at \in {"write", "inline"} => refreshes[op.key].latest = op.generation

ReadIsCurrent ==
    op # None /\ op.at = "write" =>
        /\ op.row \in Rows /\ op.row # None
        /\ op.row.page.by <= next_generation
        /\ op.key \notin FlipKeys /\ rows[op.key] # None =>
              rows[op.key].page.by = op.row.page.by

RowsAreNumbered ==
    \A k \in Keys :
        /\ rows[k] # None => rows[k].page.by <= next_generation
        /\ refreshes[k].latest <= next_generation

RowsAreRegistered ==
    \A k \in Keys \ FlipKeys :
        rows[k] # None /\ refreshes[k].latest # 0 => rows[k].page.by <= refreshes[k].latest

HomeIsReconciled == home \notin FlipKeys => HomeRowIsReconciled

IndInv ==
    /\ TypeOK
    /\ \A f \in flips : FlipOK(f)
    /\ \A t \in tasks : TaskOK(t)
    /\ RefreshIsTheLast
    /\ RefreshIsRegistered
    /\ ReadIsCurrent
    /\ RowsAreNumbered
    /\ RowsAreRegistered
    /\ FeedIsReconciled
    /\ HomeIsReconciled

(* What every step does to the rows that no flip writes.                   *)
RowsGoOn ==
    \A k \in Keys \ FlipKeys :
        rows'[k] # None =>
            /\ rows[k] # None => rows'[k].page.by >= rows[k].page.by
            /\ \/ rows'[k].page.epoch = epoch'
               \/ \E row \in Held(k) : row.page.epoch = rows'[k].page.epoch

-----------------------------------------------------------------------------
LEMMA Bounds ==
    /\ MaxGeneration \in Nat /\ MaxVersion \in Nat /\ MaxEpoch \in Nat
    /\ Generations \subseteq Nat /\ Epochs \subseteq Nat /\ Versions \subseteq Nat
    /\ 0 \in Generations /\ 0 \in Epochs /\ 0 \in Versions /\ 1 \in Versions
    /\ FlipKeys \subseteq Keys /\ home \in Keys /\ Evictable \subseteq Keys
    /\ None \notin Nat
  BY FeedConstants DEF Generations, Epochs, Versions

(* A reconciled page is of the same fetch, and reconciling it again does   *)
(* nothing.                                                                *)
LEMMA ReconciledPage ==
    ASSUME NEW page \in Pages, NEW gone \in BOOLEAN, NEW version \in Versions
    PROVE  /\ ReconciledWith(page, gone, version) \in Pages
           /\ ReconciledWith(page, gone, version).by = page.by
           /\ ReconciledWith(page, gone, version).epoch = page.epoch
           /\ ReconciledWith(page, gone, version).post =
                  IF gone THEN 0 ELSE IF version # 0 THEN version ELSE page.post
  BY Bounds DEF ReconciledWith, Pages

LEMMA ReconcilePage ==
    ASSUME NEW page \in Pages, deleted \in BOOLEAN, confirmed \in Versions
    PROVE  /\ Reconcile(page) \in Pages
           /\ Reconcile(page).by = page.by /\ Reconcile(page).epoch = page.epoch
           /\ IsReconciled(Reconcile(page))
  <1>1. /\ Reconcile(page) \in Pages
        /\ Reconcile(page).by = page.by /\ Reconcile(page).epoch = page.epoch
        /\ Reconcile(page).post =
              IF deleted THEN 0 ELSE IF confirmed # 0 THEN confirmed ELSE page.post
    BY ReconciledPage DEF Reconcile
  <1>2. Reconcile(Reconcile(page)).post =
              IF deleted THEN 0 ELSE IF confirmed # 0 THEN confirmed ELSE Reconcile(page).post
    BY <1>1, ReconciledPage DEF Reconcile
  <1> QED
    BY <1>1, <1>2 DEF IsReconciled

RowTypes == rows \in [Keys -> Rows \union {None}] /\ deleted \in BOOLEAN /\ confirmed \in Versions

LEMMA RereadRow ==
    ASSUME RowTypes, NEW k \in Keys, Reread(k)
    PROVE  /\ rows' \in [Keys -> Rows \union {None}]
           /\ \A j \in Keys :
                 /\ rows[j] = None => rows'[j] = None
                 /\ j # k => rows'[j] = rows[j]
                 /\ rows[j] # None =>
                       /\ rows'[j] \in Rows
                       /\ rows'[j].stale = rows[j].stale
                       /\ rows'[j].page.by = rows[j].page.by
                       /\ rows'[j].page.epoch = rows[j].page.epoch
           /\ rows[k] # None => IsReconciled(rows'[k].page)
  <1>1. CASE rows[k] = None
    BY <1>1, Bounds DEF Reread, RowTypes, Rows, Pages
  <1>2. CASE rows[k] # None
    <2>1. rows[k] \in Rows /\ rows[k].page \in Pages
      BY <1>2 DEF RowTypes, Rows
    <2> DEFINE row == [page |-> Reconcile(rows[k].page), stale |-> rows[k].stale]
    <2>2. rows' = [rows EXCEPT ![k] = row]
      <3>1. rows' = [rows EXCEPT ![k] = [rows[k] EXCEPT !.page = Reconcile(rows[k].page)]]
        BY <1>2 DEF Reread, RowTypes
      <3>2. [rows[k] EXCEPT !.page = Reconcile(rows[k].page)] = row
        BY <2>1 DEF Rows
      <3> QED
        BY <3>1, <3>2
    <2>3. /\ row \in Rows /\ row.page.by = rows[k].page.by
          /\ row.page.epoch = rows[k].page.epoch /\ IsReconciled(row.page)
          /\ row.stale = rows[k].stale
      BY <2>1, ReconcilePage DEF RowTypes, Rows
    <2> HIDE DEF row
    <2>4. rows'[k] = row /\ \A j \in Keys : j # k => rows'[j] = rows[j]
      BY <2>2 DEF RowTypes
    <2>5. rows' \in [Keys -> Rows \union {None}]
      BY <2>2, <2>3 DEF RowTypes
    <2> QED
      BY <1>2, <2>3, <2>4, <2>5 DEF RowTypes, Rows
  <1> QED
    BY <1>1, <1>2

LEMMA Registered ==
    ASSUME refreshes \in [Keys -> Refreshes], NEW k \in Keys, NEW g \in Generations,
           g >= refreshes[k].latest, Register(k, g)
    PROVE  /\ refreshes' \in [Keys -> Refreshes]
           /\ refreshes'[k].latest = g
           /\ \A j \in Keys : j # k => refreshes'[j] = refreshes[j]
  <1>1. [latest |-> g, completed |-> None] \in Refreshes
    BY DEF Refreshes
  <1>2. refreshes' = [refreshes EXCEPT ![k] = [latest |-> g, completed |-> None]]
    BY DEF Register
  <1> QED
    BY <1>1, <1>2

(* A refresh writes its row, if it is current, and registers nothing.      *)
LEMMA RefreshWritten ==
    ASSUME rows \in [Keys -> Rows \union {None}], refreshes \in [Keys -> Refreshes],
           NEW k \in Keys, NEW g \in Generations, NEW e \in Epochs, NEW row \in Rows,
           WriteRefresh(k, g, e, row)
    PROVE  /\ refreshes' \in [Keys -> Refreshes]
           /\ \A j \in Keys : refreshes'[j].latest = refreshes[j].latest
           /\ rows' \in [Keys -> Rows \union {None}]
           /\ \/ rows' = rows
              \/ Current(k, g, e) /\ rows' = [rows EXCEPT ![k] = row]
  <1>1. CASE Current(k, g, e)
    <2> DEFINE done == [generation |-> g, ok |-> TRUE]
    <2>1. /\ rows' = [rows EXCEPT ![k] = row]
          /\ refreshes' = [refreshes EXCEPT ![k].completed = done]
      BY <1>1 DEF WriteRefresh
    <2>2. done \in Completions
      BY DEF Completions
    <2> HIDE DEF done
    <2>3. /\ refreshes' \in [Keys -> Refreshes]
          /\ \A j \in Keys : refreshes'[j].latest = refreshes[j].latest
      BY <2>1, <2>2 DEF Refreshes
    <2> QED
      BY <1>1, <2>1, <2>3
  <1>2. CASE ~ Current(k, g, e)
    BY <1>2 DEF WriteRefresh
  <1> QED
    BY <1>1, <1>2

(* An abort leaves flips as they were, or their writes.                    *)
LEMMA Survivors ==
    ASSUME \A f \in flips : FlipOK(f), deleted \in BOOLEAN, confirmed \in Versions,
           NEW left \in Surviving
    PROVE  \A f \in left : FlipOK(f)
  <1> SUFFICES ASSUME NEW f \in left PROVE FlipOK(f)
    OBVIOUS
  <1>1. \/ f \in flips
        \/ \E g \in flips :
              /\ g.at = "writing"
              /\ f = [g EXCEPT !.at = "orphan", !.page = Reconcile(@)]
    BY DEF Surviving
  <1>2. CASE f \in flips
    BY <1>2
  <1>3. ASSUME NEW g \in flips, g.at = "writing",
               f = [g EXCEPT !.at = "orphan", !.page = Reconcile(@)]
        PROVE  FlipOK(f)
    <2>1. g \in Flips /\ g.page \in Pages /\ FlipOK(g)
      BY <1>3 DEF FlipOK
    <2>2. Reconcile(g.page) \in Pages /\ Reconcile(g.page).by = g.page.by
      BY <2>1, ReconcilePage
    <2>3. f.page = Reconcile(g.page) /\ f.at = "orphan" /\ f.key = g.key
          /\ f.generation = g.generation
      BY <1>3, <2>1 DEF Flips
    <2>4. f \in Flips
      BY <1>3, <2>1, <2>2 DEF Flips
    <2> QED
      BY <1>3, <2>1, <2>2, <2>3, <2>4 DEF FlipOK
  <1> QED
    BY <1>1, <1>2, <1>3

-----------------------------------------------------------------------------
(* What the steps have in common.                                          *)

Views == [page: Pages, stale: BOOLEAN, how: {"cache", "fetched"}]

LEMMA Facts ==
    ASSUME IndInv
    PROVE  /\ view \in Views /\ pending \in BOOLEAN
           /\ RowTypes /\ refreshes \in [Keys -> Refreshes]
           /\ next_generation \in Nat /\ next_generation <= MaxGeneration
           /\ epoch \in Epochs /\ server \in Versions /\ query \in Keys
           /\ \A k \in Keys : refreshes[k].latest \in Nat
           /\ \A k \in Keys : rows[k] # None =>
                 rows[k] \in Rows /\ rows[k].page \in Pages /\ rows[k].page.by \in Nat
           /\ op # None => op \in Ops
  <1>1. view \in Views /\ pending \in BOOLEAN
    BY DEF IndInv, TypeOK, Views
  <1> QED
    BY <1>1, Bounds DEF IndInv, TypeOK, RowTypes, Refreshes, Rows, Pages, Generations

LEMMA ShownView ==
    ASSUME NEW page \in Pages, NEW stale \in BOOLEAN, NEW how \in {"cache", "fetched"}
    PROVE  [page |-> page, stale |-> stale, how |-> how] \in Views
  BY DEF Views

LEMMA FlipStaysOK ==
    ASSUME NEW f, FlipOK(f), next_generation \in Nat, next_generation' \in Nat,
           next_generation' >= next_generation
    PROVE  FlipOK(f)'
  <1>1. f.generation \in Nat
    BY Bounds DEF FlipOK, Flips
  <1>2. f.page \in Pages => f.page.by \in Nat
    BY Bounds DEF Pages
  <1> QED
    BY <1>1, <1>2 DEF FlipOK

LEMMA TaskStaysOK ==
    ASSUME NEW t, TaskOK(t), next_generation \in Nat, next_generation' \in Nat,
           next_generation' >= next_generation
    PROVE  TaskOK(t)'
  BY DEF TaskOK

(* Rows that are what they were, or gone, or reconciled once more.         *)
RowsAreKept ==
    \A k \in Keys :
        rows'[k] # None =>
            /\ rows[k] # None
            /\ rows'[k].page.by = rows[k].page.by
            /\ rows'[k].page.epoch = rows[k].page.epoch

LEMMA KeptRowsGoOn ==
    ASSUME IndInv, RowsAreKept, next_generation' \in Nat, next_generation' >= next_generation,
           \A k \in Keys : refreshes'[k].latest \in {refreshes[k].latest, 0}
    PROVE  RowsAreNumbered' /\ RowsAreRegistered' /\ RowsGoOn
  <1>1. RowsAreNumbered'
    <2> SUFFICES ASSUME NEW k \in Keys
                 PROVE  /\ rows'[k] # None => rows'[k].page.by <= next_generation'
                        /\ refreshes'[k].latest <= next_generation'
      BY DEF RowsAreNumbered
    <2>1. rows'[k] # None => rows'[k].page.by <= next_generation'
      BY Facts DEF RowsAreKept, IndInv, RowsAreNumbered
    <2>2. refreshes'[k].latest <= next_generation'
      BY Facts DEF IndInv, RowsAreNumbered
    <2> QED
      BY <2>1, <2>2
  <1>2. RowsAreRegistered'
    BY Facts DEF RowsAreKept, IndInv, RowsAreRegistered
  <1>3. RowsGoOn
    <2> SUFFICES ASSUME NEW k \in Keys \ FlipKeys, rows'[k] # None
                 PROVE  /\ rows'[k].page.by >= rows[k].page.by
                        /\ \E row \in Held(k) : row.page.epoch = rows'[k].page.epoch
      BY DEF RowsGoOn
    <2>1. rows[k] \in Held(k)
      BY DEF RowsAreKept, Held
    <2> QED
      BY <2>1, Facts DEF RowsAreKept
  <1> QED
    BY <1>1, <1>2, <1>3

LEMMA UnchangedRowsAreKept == UNCHANGED rows => RowsAreKept
  BY DEF RowsAreKept

LEMMA RereadRowsAreKept ==
    ASSUME RowTypes, NEW k \in Keys, Reread(k)
    PROVE  RowsAreKept
  BY RereadRow DEF RowsAreKept

LEMMA HomeStaysReconciled ==
    ASSUME HomeIsReconciled, UNCHANGED <<deleted, confirmed>>,
           \/ rows'[home] \in {rows[home], None}
           \/ home \in FlipKeys
           \/ IsReconciled(rows'[home].page)
    PROVE  HomeIsReconciled'
  BY DEF HomeIsReconciled, HomeRowIsReconciled, IsReconciled, Reconcile

LEMMA ViewStaysReconciled ==
    ASSUME FeedIsReconciled, UNCHANGED <<deleted, confirmed>>,
           UNCHANGED view \/ view'.how # "cache" \/ IsReconciled(view'.page)
    PROVE  FeedIsReconciled'
  BY DEF FeedIsReconciled, IsReconciled, Reconcile

-----------------------------------------------------------------------------
(* The refresh of a feed.                                                  *)

LEMMA RefreshStep ==
    ASSUME IndInv, NEW k \in Keys, Refresh(k)
    PROVE  IndInv' /\ RowsGoOn
  <1> DEFINE g == next_generation + 1
  <1>1. /\ op = None /\ next_generation < MaxGeneration /\ next_generation' = g
        /\ token' = g /\ flips' \in Surviving /\ Reread(k) /\ query' = k /\ pending' = TRUE
        /\ op' = [at |-> IF rows[k] = None THEN "miss" ELSE "hit", key |-> k,
                  generation |-> g, row |-> None]
        /\ UNCHANGED <<server, refreshes, epoch, deleted, confirmed, tasks, view, evicted>>
    BY DEF Refresh, mutations
  <1>2. g \in Nat /\ g <= MaxGeneration /\ g >= 1 /\ g > next_generation
    BY <1>1, Facts, Bounds
  <1>3. /\ op' \in Ops /\ op'.at \in {"miss", "hit"} /\ op'.generation = g
        /\ g \in Generations
    BY <1>1, <1>2, Bounds DEF Ops, Generations
  <1> HIDE DEF g
  <1>4. RowsAreKept /\ rows' \in [Keys -> Rows \union {None}]
    BY <1>1, Facts, RereadRow, RereadRowsAreKept
  <1>5. RowsAreNumbered' /\ RowsAreRegistered' /\ RowsGoOn
    BY <1>1, <1>2, <1>4, Facts, KeptRowsGoOn
  <1>6. \A f \in flips' : FlipOK(f)'
    <2> SUFFICES ASSUME NEW f \in flips' PROVE FlipOK(f)'
      OBVIOUS
    <2>1. FlipOK(f)
      BY <1>1, Facts, Survivors DEF IndInv, RowTypes
    <2> QED
      BY <1>1, <1>2, <2>1, Facts, FlipStaysOK
  <1>7. flips' \subseteq Flips
    BY <1>6 DEF FlipOK
  <1>8. \A t \in tasks' : TaskOK(t)' /\ t.generation # g
    <2> SUFFICES ASSUME NEW t \in tasks PROVE TaskOK(t)' /\ t.generation # g
      BY <1>1
    <2>1. TaskOK(t)'
      BY <1>1, <1>2, Facts, TaskStaysOK DEF IndInv
    <2>2. t.generation \in 1 .. next_generation
      BY DEF IndInv, TaskOK
    <2> QED
      BY <1>2, <2>1, <2>2, Facts
  <1>9. TypeOK'
    BY <1>1, <1>2, <1>3, <1>4, <1>7 DEF IndInv, TypeOK
  <1>10. RefreshIsTheLast' /\ RefreshIsRegistered' /\ ReadIsCurrent'
    BY <1>1, <1>2, <1>3, <1>8
    DEF Refreshing, RefreshIsTheLast, RefreshIsRegistered, ReadIsCurrent
  <1>11. FeedIsReconciled'
    BY <1>1, ViewStaysReconciled DEF IndInv
  <1>12. HomeIsReconciled'
    BY <1>1, Facts, Bounds, RereadRow, HomeStaysReconciled DEF IndInv
  <1> QED
    BY <1>5, <1>6, <1>8, <1>9, <1>10, <1>11, <1>12 DEF IndInv

LEMMA SpawnedTask ==
    ASSUME IndInv, Refreshing, UNCHANGED next_generation,
           NEW t, t = Spawned(op.key, op.generation)
    PROVE  t \in Tasks /\ TaskOK(t)'
  <1>1. op.key \in Keys /\ op.generation \in Generations /\ epoch \in Epochs
    BY Facts DEF Refreshing, Ops
  <1>2. t \in Tasks /\ t.generation = op.generation /\ t.page = None
    BY <1>1 DEF Spawned, Tasks
  <1>3. op.generation \in 1 .. next_generation
    BY Facts DEF IndInv, RefreshIsTheLast
  <1> QED
    BY <1>2, <1>3 DEF TaskOK

LEMMA SpawnedTasks ==
    ASSUME IndInv, Refreshing, UNCHANGED next_generation,
           tasks' = tasks \union {Spawned(op.key, op.generation)}
    PROVE  tasks' \subseteq Tasks /\ \A t \in tasks' : TaskOK(t)'
  <1> SUFFICES ASSUME NEW t \in tasks' PROVE t \in Tasks /\ TaskOK(t)'
    OBVIOUS
  <1>1. CASE t \in tasks
    BY <1>1, Facts, TaskStaysOK DEF IndInv, TaskOK
  <1>2. CASE t = Spawned(op.key, op.generation)
    BY <1>2, SpawnedTask
  <1> QED
    BY <1>1, <1>2

LEMMA SpawnFeedMissStep ==
    ASSUME IndInv, SpawnFeedMiss
    PROVE  IndInv' /\ RowsGoOn
  <1> DEFINE k == op.key
             g == op.generation
  <1>1. /\ op # None /\ op.at = "miss" /\ Register(k, g)
        /\ tasks' = tasks \union {Spawned(k, g)} /\ op' = None
        /\ UNCHANGED <<server, rows, epoch, deleted, confirmed, flips, token, next_generation,
                       query, view, pending, evicted>>
    BY DEF SpawnFeedMiss, mutations, asked, screen
  <1>2. Refreshing
    BY <1>1 DEF Refreshing
  <1>3. tasks' \subseteq Tasks /\ \A t \in tasks' : TaskOK(t)'
    BY <1>1, <1>2, SpawnedTasks
  <1>4. k \in Keys /\ g \in Generations /\ g = next_generation
    BY <1>2, Facts DEF IndInv, Refreshing, RefreshIsTheLast, Ops
  <1> HIDE DEF k, g
  <1>5. /\ refreshes' \in [Keys -> Refreshes] /\ refreshes'[k].latest = g
        /\ \A j \in Keys : j # k => refreshes'[j] = refreshes[j]
    BY <1>1, <1>4, Facts, Registered DEF IndInv, RowsAreNumbered
  <1>6. RowsAreNumbered' /\ RowsAreRegistered'
    BY <1>1, <1>4, <1>5, Facts DEF IndInv, RowsAreNumbered, RowsAreRegistered
  <1>7. RowsGoOn
    BY <1>1, Facts DEF RowsGoOn, Held
  <1>9. \A f \in flips' : FlipOK(f)'
    BY <1>1 DEF IndInv, FlipOK
  <1>10. TypeOK'
    BY <1>1, <1>3, <1>5 DEF IndInv, TypeOK
  <1>11. FeedIsReconciled' /\ HomeIsReconciled'
    BY <1>1, ViewStaysReconciled, HomeStaysReconciled DEF IndInv
  <1> QED
    BY <1>1, <1>3, <1>6, <1>7, <1>9, <1>10, <1>11
    DEF IndInv, Refreshing, RefreshIsTheLast, RefreshIsRegistered, ReadIsCurrent

LEMMA HitReadStep ==
    ASSUME IndInv, HitRead
    PROVE  IndInv' /\ RowsGoOn
  <1> DEFINE k == op.key
             g == op.generation
  <1>1. /\ op # None /\ op.at = "hit" /\ Register(k, g)
        /\ op' = IF rows[k] = None THEN [op EXCEPT !.at = "inline"]
                 ELSE [op EXCEPT !.at = "write", !.row = rows[k]]
        /\ UNCHANGED <<server, rows, epoch, deleted, confirmed, tasks, flips, token,
                       next_generation, query, view, pending, evicted>>
    BY DEF HitRead, mutations, asked, screen
  <1>2. Refreshing
    BY <1>1 DEF Refreshing
  <1>3. op \in Ops /\ k \in Keys /\ g \in Generations /\ g = next_generation
    BY <1>1, <1>2, Facts DEF IndInv, Refreshing, RefreshIsTheLast, Ops
  <1>4. /\ op' \in Ops /\ op'.generation = g /\ op'.key = k
        /\ \/ op'.at = "inline"
           \/ op'.at = "write" /\ op'.row = rows[k] /\ rows[k] # None
    <2>1. CASE rows[k] = None
      BY <1>1, <1>3, <2>1 DEF Ops
    <2>2. CASE rows[k] # None
      <3>1. rows[k] \in Rows
        BY <1>3, <2>2, Facts
      <3> QED
        BY <1>1, <1>3, <2>2, <3>1 DEF Ops
    <2> QED
      BY <2>1, <2>2
  <1> HIDE DEF k, g
  <1>5. /\ refreshes' \in [Keys -> Refreshes] /\ refreshes'[k].latest = g
        /\ \A j \in Keys : j # k => refreshes'[j] = refreshes[j]
    BY <1>1, <1>3, Facts, Registered DEF IndInv, RowsAreNumbered
  <1>6. RowsAreNumbered' /\ RowsAreRegistered'
    BY <1>1, <1>3, <1>5, Facts DEF IndInv, RowsAreNumbered, RowsAreRegistered
  <1>7. RowsGoOn
    BY <1>1, Facts DEF RowsGoOn, Held
  <1>8. \A t \in tasks' : TaskOK(t)' /\ t.generation # g
    BY <1>1, <1>2 DEF IndInv, TaskOK, RefreshIsTheLast, g
  <1>9. \A f \in flips' : FlipOK(f)'
    BY <1>1 DEF IndInv, FlipOK
  <1>10. TypeOK'
    BY <1>1, <1>4, <1>5 DEF IndInv, TypeOK
  <1>11. FeedIsReconciled' /\ HomeIsReconciled'
    BY <1>1, ViewStaysReconciled, HomeStaysReconciled DEF IndInv
  <1>12. RefreshIsTheLast'
    BY <1>1, <1>2, <1>3, <1>4, <1>8 DEF IndInv, RefreshIsTheLast
  <1>13. RefreshIsRegistered'
    BY <1>4, <1>5 DEF RefreshIsRegistered
  <1>14. ReadIsCurrent'
    <2>1. rows[k] # None => rows[k] \in Rows /\ rows[k].page.by <= next_generation
      BY <1>3, Facts DEF IndInv, RowsAreNumbered
    <2> QED
      BY <1>1, <1>4, <2>1 DEF ReadIsCurrent
  <1> QED
    BY <1>6, <1>7, <1>8, <1>9, <1>10, <1>11, <1>12, <1>13, <1>14 DEF IndInv

(* What a current refresh writes is of its generation, or of the row that  *)
(* was read.                                                               *)
LEMMA WrittenRows ==
    ASSUME IndInv, NEW k \in Keys, NEW row \in Rows,
           rows' \in [Keys -> Rows \union {None}],
           \/ rows' = rows
           \/ rows' = [rows EXCEPT ![k] = row],
           UNCHANGED <<next_generation, epoch>>,
           \A j \in Keys : refreshes'[j].latest = refreshes[j].latest,
           row.page.by <= next_generation,
           k \notin FlipKeys =>
              /\ refreshes[k].latest # 0 => row.page.by <= refreshes[k].latest
              /\ rows[k] # None => row.page.by >= rows[k].page.by
              /\ \/ row.page.epoch = epoch
                 \/ \E held \in Held(k) : held.page.epoch = row.page.epoch
    PROVE  RowsAreNumbered' /\ RowsAreRegistered' /\ RowsGoOn
  <1>1. CASE rows' = rows
    BY <1>1, Facts, UnchangedRowsAreKept, KeptRowsGoOn
  <1>2. CASE rows' = [rows EXCEPT ![k] = row]
    <2>1. rows'[k] = row /\ \A j \in Keys : j # k => rows'[j] = rows[j]
      BY <1>2, Facts DEF RowTypes
    <2>2. RowsAreNumbered'
      BY <2>1 DEF IndInv, RowsAreNumbered
    <2>3. RowsAreRegistered'
      BY <2>1 DEF IndInv, RowsAreRegistered
    <2>4. RowsGoOn
      <3> SUFFICES ASSUME NEW j \in Keys \ FlipKeys, rows'[j] # None
                   PROVE  /\ rows[j] # None => rows'[j].page.by >= rows[j].page.by
                          /\ \/ rows'[j].page.epoch = epoch'
                             \/ \E held \in Held(j) : held.page.epoch = rows'[j].page.epoch
        BY DEF RowsGoOn
      <3>1. CASE j = k
        BY <2>1, <3>1
      <3>2. CASE j # k
        BY <2>1, <3>2, Facts DEF Held
      <3> QED
        BY <3>1, <3>2
    <2> QED
      BY <2>2, <2>3, <2>4
  <1> QED
    BY <1>1, <1>2

LEMMA HomeIsWritten ==
    ASSUME IndInv, NEW k \in Keys, NEW row \in Rows, UNCHANGED <<deleted, confirmed>>,
           \/ rows' = rows
           \/ rows' = [rows EXCEPT ![k] = row],
           IsReconciled(row.page) \/ k \in FlipKeys
    PROVE  HomeIsReconciled'
  <1>1. CASE rows'[home] = rows[home]
    BY <1>1, HomeStaysReconciled DEF IndInv
  <1>2. CASE rows'[home] # rows[home]
    <2>1. rows'[home] = row /\ k = home
      BY <1>2, Facts, Bounds DEF RowTypes
    <2> QED
      BY <2>1, HomeStaysReconciled DEF IndInv
  <1> QED
    BY <1>1, <1>2

LEMMA HitWriteStep ==
    ASSUME IndInv, HitWrite
    PROVE  IndInv' /\ RowsGoOn
  <1> DEFINE k == op.key
             g == op.generation
             page == Reconcile(op.row.page)
             row == [page |-> page, stale |-> TRUE]
  <1>1. /\ op # None /\ op.at = "write" /\ WriteRefresh(k, g, epoch, row)
        /\ view' = [page |-> page, stale |-> TRUE, how |-> "cache"]
        /\ tasks' = tasks \union {Spawned(k, g)} /\ op' = None
        /\ UNCHANGED <<server, epoch, deleted, confirmed, flips, token, next_generation,
                       query, pending, evicted>>
    BY DEF HitWrite, mutations, asked
  <1>2. Refreshing
    BY <1>1 DEF Refreshing
  <1>3. op \in Ops /\ k \in Keys /\ g \in Generations /\ g = next_generation
    BY <1>1, <1>2, Facts DEF IndInv, Refreshing, RefreshIsTheLast, Ops
  <1>4. /\ op.row \in Rows /\ op.row # None /\ op.row.page \in Pages
        /\ op.row.page.by <= next_generation
        /\ k \notin FlipKeys /\ rows[k] # None => rows[k].page.by = op.row.page.by
        /\ refreshes[k].latest = g
    BY <1>1 DEF IndInv, ReadIsCurrent, RefreshIsRegistered, Rows
  <1>5. /\ page \in Pages /\ page.by = op.row.page.by /\ page.epoch = op.row.page.epoch
        /\ IsReconciled(page)
    BY <1>4, Facts, ReconcilePage DEF RowTypes
  <1>6. row \in Rows /\ row.page = page
    BY <1>5 DEF Rows
  <1>7. op.row \in Held(k)
    BY <1>1, <1>4 DEF Held
  <1>8. tasks' \subseteq Tasks /\ \A t \in tasks' : TaskOK(t)'
    BY <1>1, <1>2, SpawnedTasks
  <1> HIDE DEF k, g, page, row
  <1>9. /\ refreshes' \in [Keys -> Refreshes]
        /\ \A j \in Keys : refreshes'[j].latest = refreshes[j].latest
        /\ rows' \in [Keys -> Rows \union {None}]
        /\ rows' = rows \/ rows' = [rows EXCEPT ![k] = row]
    BY <1>1, <1>3, <1>6, Facts, RefreshWritten DEF RowTypes
  <1>10. page.by \in Nat
    BY <1>5, Bounds DEF Pages
  <1>11. rows[k] # None /\ k \notin FlipKeys => page.by >= rows[k].page.by
    BY <1>4, <1>5, <1>10
  <1>12. RowsAreNumbered' /\ RowsAreRegistered' /\ RowsGoOn
    BY <1>1, <1>3, <1>4, <1>5, <1>6, <1>7, <1>9, <1>11, WrittenRows
  <1>13. HomeIsReconciled'
    BY <1>1, <1>3, <1>5, <1>6, <1>9, HomeIsWritten
  <1>14. FeedIsReconciled'
    BY <1>1, <1>5, ViewStaysReconciled DEF IndInv
  <1>15. \A f \in flips' : FlipOK(f)'
    BY <1>1 DEF IndInv, FlipOK
  <1>16. TypeOK'
    BY <1>1, <1>5, <1>8, <1>9 DEF IndInv, TypeOK
  <1> QED
    BY <1>1, <1>8, <1>12, <1>13, <1>14, <1>15, <1>16
    DEF IndInv, Refreshing, RefreshIsTheLast, RefreshIsRegistered, ReadIsCurrent

LEMMA FetchedPage ==
    ASSUME IndInv, NEW g \in Generations, NEW e \in Epochs
    PROVE  Fetched(g, e) \in Pages /\ Fetched(g, e).by = g /\ Fetched(g, e).epoch = e
  BY Facts DEF Fetched, Pages

LEMMA InlineFetchStep ==
    ASSUME IndInv, InlineFetch
    PROVE  IndInv' /\ RowsGoOn
  <1> DEFINE k == op.key
             g == op.generation
             page == Reconcile(Fetched(g, epoch))
             row == [page |-> page, stale |-> FALSE]
  <1>1. /\ op # None /\ op.at = "inline"
        /\ \/ /\ WriteRefresh(k, g, epoch, row)
              /\ view' = [page |-> page, stale |-> FALSE, how |-> "cache"]
           \/ UNCHANGED <<rows, refreshes, view>>
        /\ pending' = FALSE /\ op' = None
        /\ UNCHANGED <<server, epoch, deleted, confirmed, tasks, flips, token,
                       next_generation, query, evicted>>
    BY DEF InlineFetch, mutations, asked
  <1>2. Refreshing
    BY <1>1 DEF Refreshing
  <1>3. op \in Ops /\ k \in Keys /\ g \in Generations /\ g = next_generation
    BY <1>1, <1>2, Facts DEF IndInv, Refreshing, RefreshIsTheLast, Ops
  <1>4. refreshes[k].latest = g
    BY <1>1 DEF IndInv, RefreshIsRegistered
  <1>5. page \in Pages /\ page.by = g /\ page.epoch = epoch /\ IsReconciled(page)
    BY <1>3, Facts, FetchedPage, ReconcilePage DEF RowTypes
  <1>6. row \in Rows /\ row.page = page
    BY <1>5 DEF Rows
  <1> HIDE DEF k, g, page, row
  <1>7. /\ refreshes' \in [Keys -> Refreshes]
        /\ \A j \in Keys : refreshes'[j].latest = refreshes[j].latest
        /\ rows' \in [Keys -> Rows \union {None}]
        /\ rows' = rows \/ rows' = [rows EXCEPT ![k] = row]
    BY <1>1, <1>3, <1>6, Facts, RefreshWritten DEF RowTypes
  <1>8. page.by <= next_generation /\ page.by <= refreshes[k].latest
    BY <1>3, <1>4, <1>5, Facts
  <1>9. rows[k] # None => page.by >= rows[k].page.by
    BY <1>3, <1>5, Facts DEF IndInv, RowsAreNumbered
  <1>10. RowsAreNumbered' /\ RowsAreRegistered' /\ RowsGoOn
    BY <1>1, <1>3, <1>5, <1>6, <1>7, <1>8, <1>9, WrittenRows
  <1>11. HomeIsReconciled'
    BY <1>1, <1>3, <1>5, <1>6, <1>7, HomeIsWritten
  <1>12. FeedIsReconciled'
    BY <1>1, <1>5, ViewStaysReconciled DEF IndInv
  <1>13. /\ \A f \in flips' : FlipOK(f)'
         /\ \A t \in tasks' : TaskOK(t)'
    BY <1>1 DEF IndInv, FlipOK, TaskOK
  <1>14. TypeOK'
    <2>1. view' = view \/ view' = [page |-> page, stale |-> FALSE, how |-> "cache"]
      BY <1>1
    <2>2. view \in Views
      BY Facts
    <2>3. view' \in Views
      BY <1>5, <2>1, <2>2, ShownView
    <2> QED
      BY <1>1, <1>7, <2>3 DEF IndInv, TypeOK, Views
  <1> QED
    BY <1>1, <1>10, <1>11, <1>12, <1>13, <1>14
    DEF IndInv, Refreshing, RefreshIsTheLast, RefreshIsRegistered, ReadIsCurrent

(* The background half.                                                    *)

LEMMA QuietTaskStep ==
    ASSUME IndInv,
           UNCHANGED <<server, rows, epoch, deleted, confirmed, flips, token, next_generation,
                       query, view, pending, op, evicted>>,
           refreshes' \in [Keys -> Refreshes],
           \A k \in Keys : refreshes'[k].latest = refreshes[k].latest,
           \A t \in tasks' : TaskOK(t) /\ \E u \in tasks : t.generation = u.generation
    PROVE  IndInv' /\ RowsGoOn
  <1>1. RowsAreNumbered' /\ RowsAreRegistered' /\ RowsGoOn
    BY Facts, UnchangedRowsAreKept, KeptRowsGoOn
  <1>2. HomeIsReconciled' /\ FeedIsReconciled'
    BY ViewStaysReconciled, HomeStaysReconciled DEF IndInv
  <1>3. /\ \A f \in flips' : FlipOK(f)'
        /\ \A t \in tasks' : TaskOK(t)'
    BY DEF IndInv, FlipOK, TaskOK
  <1>4. tasks' \subseteq Tasks
    BY DEF TaskOK
  <1>5. TypeOK'
    BY <1>4 DEF IndInv, TypeOK
  <1>6. RefreshIsTheLast'
    BY DEF IndInv, Refreshing, RefreshIsTheLast
  <1>7. RefreshIsRegistered' /\ ReadIsCurrent'
    BY Facts DEF IndInv, RefreshIsRegistered, ReadIsCurrent, Ops
  <1> QED
    BY <1>1, <1>2, <1>3, <1>5, <1>6, <1>7 DEF IndInv

LEMMA FetchStep ==
    ASSUME IndInv, NEW t \in tasks, Fetch(t)
    PROVE  IndInv' /\ RowsGoOn
  <1> DEFINE page == Fetched(t.generation, t.epoch)
             u == [t EXCEPT !.page = page]
  <1>1. /\ tasks' = (tasks \ {t}) \union {u}
        /\ UNCHANGED <<server, rows, refreshes, epoch, deleted, confirmed, flips, token,
                       next_generation, query, view, pending, op, evicted>>
    BY DEF Fetch, mutations, asked, screen
  <1>2. t \in Tasks /\ TaskOK(t)
    BY DEF IndInv, TaskOK
  <1>3. page \in Pages /\ page.by = t.generation /\ page.epoch = t.epoch
    BY <1>2, FetchedPage DEF Tasks
  <1> HIDE DEF page
  <1>4. /\ u \in Tasks /\ u.generation = t.generation /\ u.page = page
        /\ u.epoch = t.epoch
    BY <1>2, <1>3 DEF Tasks
  <1>5. TaskOK(u)
    BY <1>2, <1>3, <1>4 DEF TaskOK
  <1> HIDE DEF u
  <1>6. \A v \in tasks' : TaskOK(v) /\ \E w \in tasks : v.generation = w.generation
    BY <1>1, <1>4, <1>5 DEF IndInv
  <1> QED
    BY <1>1, <1>6, Facts, QuietTaskStep

LEMMA FailRefreshStep ==
    ASSUME IndInv, NEW t \in tasks, FailRefresh(t)
    PROVE  IndInv' /\ RowsGoOn
  <1> DEFINE done == [generation |-> t.generation, ok |-> FALSE]
  <1>1. /\ tasks' = tasks \ {t}
        /\ \/ refreshes' = [refreshes EXCEPT ![t.key].completed = done]
           \/ refreshes' = refreshes
        /\ UNCHANGED <<server, rows, epoch, deleted, confirmed, flips, token,
                       next_generation, query, view, pending, op, evicted>>
    BY DEF FailRefresh, mutations, asked, screen
  <1>2. t.key \in Keys /\ done \in Completions
    BY DEF IndInv, TaskOK, Tasks, Completions
  <1> HIDE DEF done
  <1>3. /\ refreshes' \in [Keys -> Refreshes]
        /\ \A k \in Keys : refreshes'[k].latest = refreshes[k].latest
    BY <1>1, <1>2, Facts DEF Refreshes
  <1>4. \A v \in tasks' : TaskOK(v) /\ \E w \in tasks : v.generation = w.generation
    BY <1>1 DEF IndInv
  <1> QED
    BY <1>1, <1>3, <1>4, QuietTaskStep

LEMMA LandRefreshStep ==
    ASSUME IndInv, NEW t \in tasks, LandRefresh(t)
    PROVE  IndInv' /\ RowsGoOn
  <1> DEFINE k == t.key
             g == t.generation
             page == Reconcile(t.page)
             row == [page |-> page, stale |-> FALSE]
  <1>1. /\ t.page # None /\ WriteRefresh(k, g, t.epoch, row) /\ tasks' = tasks \ {t}
        /\ UNCHANGED <<server, epoch, deleted, confirmed, flips, token, next_generation,
                       query, view, pending, op, evicted>>
    BY DEF LandRefresh, mutations, asked, screen
  <1>2. /\ TaskOK(t) /\ k \in Keys /\ g \in Generations /\ t.epoch \in Epochs
        /\ t.page \in Pages /\ t.page.by = g /\ t.page.epoch = t.epoch
        /\ g \in 1 .. next_generation
    BY <1>1 DEF IndInv, TaskOK, Tasks
  <1>3. page \in Pages /\ page.by = g /\ page.epoch = t.epoch /\ IsReconciled(page)
    BY <1>2, Facts, ReconcilePage DEF RowTypes
  <1>4. row \in Rows /\ row.page = page
    BY <1>3 DEF Rows
  <1> HIDE DEF k, g, page, row
  <1>5. /\ refreshes' \in [Keys -> Refreshes]
        /\ \A j \in Keys : refreshes'[j].latest = refreshes[j].latest
        /\ rows' \in [Keys -> Rows \union {None}]
        /\ \/ rows' = rows
           \/ Current(k, g, t.epoch) /\ rows' = [rows EXCEPT ![k] = row]
    BY <1>1, <1>2, <1>4, Facts, RefreshWritten DEF RowTypes
  <1>6. CASE rows' = rows
    <2>1. \A v \in tasks' : TaskOK(v) /\ \E w \in tasks : v.generation = w.generation
      BY <1>1 DEF IndInv
    <2> QED
      BY <1>1, <1>5, <1>6, <2>1, QuietTaskStep
  <1>7. CASE Current(k, g, t.epoch) /\ rows' = [rows EXCEPT ![k] = row]
    <2>1. epoch = t.epoch /\ refreshes[k].latest = g
      BY <1>7 DEF Current
    <2>2. /\ page.by <= next_generation /\ page.by <= refreshes[k].latest
          /\ refreshes[k].latest # 0
      BY <1>2, <1>3, <2>1, Facts
    <2>3. k \notin FlipKeys /\ rows[k] # None => page.by >= rows[k].page.by
      BY <1>2, <1>3, <2>1, <2>2, Facts DEF IndInv, RowsAreRegistered
    <2>4. RowsAreNumbered' /\ RowsAreRegistered' /\ RowsGoOn
      BY <1>1, <1>2, <1>3, <1>4, <1>5, <1>7, <2>1, <2>2, <2>3, WrittenRows
    <2>5. HomeIsReconciled'
      BY <1>1, <1>2, <1>3, <1>4, <1>7, HomeIsWritten
    <2>6. FeedIsReconciled'
      BY <1>1, ViewStaysReconciled DEF IndInv
    <2>7. /\ \A f \in flips' : FlipOK(f)'
          /\ \A v \in tasks' : TaskOK(v)'
      BY <1>1 DEF IndInv, FlipOK, TaskOK
    <2>8. TypeOK'
      BY <1>1, <1>5 DEF IndInv, TypeOK
    <2>9. RefreshIsTheLast'
      BY <1>1 DEF IndInv, Refreshing, RefreshIsTheLast
    <2>10. RefreshIsRegistered'
      BY <1>1, <1>5, Facts DEF IndInv, RefreshIsRegistered, Ops
    <2>11. op # None /\ op.at = "write" => op.key # k
      BY <1>1, <2>1 DEF IndInv, Refreshing, RefreshIsTheLast, RefreshIsRegistered, g
    <2>12. \A j \in Keys : j # k => rows'[j] = rows[j]
      BY <1>7
    <2>13. ReadIsCurrent'
      BY <1>1, <2>11, <2>12, Facts DEF IndInv, ReadIsCurrent, Ops
    <2> QED
      BY <2>4, <2>5, <2>6, <2>7, <2>8, <2>9, <2>10, <2>13 DEF IndInv
  <1> QED
    BY <1>5, <1>6, <1>7

(* The Tick.                                                               *)

LEMMA TickTakeStep ==
    ASSUME IndInv, TickTake
    PROVE  IndInv' /\ RowsGoOn
  <1> DEFINE done == refreshes[query].completed
  <1>1. /\ op = None /\ done # None
        /\ \/ /\ op' = [at |-> "tick", key |-> query, generation |-> done.generation,
                        row |-> None]
              /\ UNCHANGED pending
           \/ op' = None /\ pending' \in {FALSE, pending}
        /\ refreshes' = [refreshes EXCEPT ![query].completed = None]
        /\ UNCHANGED <<server, rows, epoch, deleted, confirmed, tasks, flips, token,
                       next_generation, query, view, evicted>>
    BY DEF TickTake, mutations, asked
  <1>2. query \in Keys /\ done \in Completions
    BY <1>1, Facts DEF Refreshes
  <1>3. op' = None \/ (op' \in Ops /\ op'.at = "tick")
    <2>1. done.generation \in Generations
      BY <1>2 DEF Completions
    <2> HIDE DEF done
    <2>2. CASE op' = None
      BY <2>2
    <2>3. CASE op' = [at |-> "tick", key |-> query, generation |-> done.generation, row |-> None]
      BY <1>2, <2>1, <2>3 DEF Ops
    <2> QED
      BY <1>1, <2>2, <2>3
  <1> HIDE DEF done
  <1>4. /\ refreshes' \in [Keys -> Refreshes]
        /\ \A k \in Keys : refreshes'[k].latest = refreshes[k].latest
    BY <1>1, <1>2, Facts DEF Refreshes
  <1>5. RowsAreNumbered' /\ RowsAreRegistered' /\ RowsGoOn
    BY <1>1, <1>4, Facts, UnchangedRowsAreKept, KeptRowsGoOn
  <1>6. HomeIsReconciled' /\ FeedIsReconciled'
    BY <1>1, ViewStaysReconciled, HomeStaysReconciled DEF IndInv
  <1>7. /\ \A f \in flips' : FlipOK(f)'
        /\ \A t \in tasks' : TaskOK(t)'
    BY <1>1 DEF IndInv, FlipOK, TaskOK
  <1>8. TypeOK'
    <2>1. pending' \in BOOLEAN
      BY <1>1 DEF IndInv, TypeOK
    <2> QED
      BY <1>1, <1>3, <1>4, <2>1 DEF IndInv, TypeOK
  <1> QED
    BY <1>3, <1>5, <1>6, <1>7, <1>8
    DEF IndInv, Refreshing, RefreshIsTheLast, RefreshIsRegistered, ReadIsCurrent

LEMMA TickReadStep ==
    ASSUME IndInv, TickRead
    PROVE  IndInv' /\ RowsGoOn
  <1> DEFINE k == op.key
             page == Reconcile(rows[k].page)
  <1>1. /\ op # None /\ op.at = "tick" /\ Reread(k)
        /\ \/ /\ rows[k] # None
              /\ view' = [page |-> page, stale |-> FALSE, how |-> "cache"]
              /\ pending' = FALSE
           \/ UNCHANGED <<view, pending>>
        /\ op' = None
        /\ UNCHANGED <<server, refreshes, epoch, deleted, confirmed, tasks, flips, token,
                       next_generation, query, evicted>>
    BY DEF TickRead, mutations, asked
  <1>2. k \in Keys
    BY <1>1, Facts DEF Ops
  <1>3. rows[k] # None => page \in Pages /\ IsReconciled(page)
    BY <1>2, Facts, ReconcilePage DEF RowTypes
  <1> HIDE DEF k, page
  <1>4. RowsAreKept /\ rows' \in [Keys -> Rows \union {None}]
    BY <1>1, <1>2, Facts, RereadRow, RereadRowsAreKept
  <1>5. RowsAreNumbered' /\ RowsAreRegistered' /\ RowsGoOn
    BY <1>1, <1>4, Facts, KeptRowsGoOn
  <1>6. HomeIsReconciled'
    BY <1>1, <1>2, Facts, Bounds, RereadRow, HomeStaysReconciled DEF IndInv
  <1>7. FeedIsReconciled'
    BY <1>1, <1>3, ViewStaysReconciled DEF IndInv
  <1>8. /\ \A f \in flips' : FlipOK(f)'
        /\ \A t \in tasks' : TaskOK(t)'
    BY <1>1 DEF IndInv, FlipOK, TaskOK
  <1>9. TypeOK'
    <2>1. view' = view \/ (rows[k] # None
                            /\ view' = [page |-> page, stale |-> FALSE, how |-> "cache"])
      BY <1>1
    <2>2. view \in Views /\ pending \in BOOLEAN
      BY Facts
    <2>3. view' \in Views
      BY <1>3, <2>1, <2>2, ShownView
    <2>4. pending' \in BOOLEAN
      BY <1>1, <2>2
    <2> QED
      BY <1>1, <1>4, <2>3, <2>4 DEF IndInv, TypeOK, Views
  <1> QED
    BY <1>1, <1>5, <1>6, <1>7, <1>8, <1>9
    DEF IndInv, Refreshing, RefreshIsTheLast, RefreshIsRegistered, ReadIsCurrent

-----------------------------------------------------------------------------
(* The flips.                                                              *)

LEMMA FlipStarts ==
    ASSUME IndInv, NEW k \in Keys, k \in FlipKeys, Flip(k)
    PROVE  IndInv' /\ RowsGoOn
  <1> DEFINE g == next_generation + 1
             page == Reconcile(rows[k].page)
             flip == [generation |-> g, epoch |-> epoch, key |-> k,
                      previous |-> query, page |-> None, at |-> "fetching"]
  <1>1. /\ op = None /\ next_generation < MaxGeneration /\ next_generation' = g /\ token' = g
        /\ \E left \in Surviving : flips' = left \union {flip}
        /\ Reread(k)
        /\ \/ pending' = TRUE /\ UNCHANGED <<query, view>>
           \/ /\ rows[k] # None
              /\ query' = k /\ pending' = rows[k].stale
              /\ view' = [page |-> page, stale |-> rows[k].stale, how |-> "cache"]
        /\ UNCHANGED <<server, refreshes, epoch, deleted, confirmed, tasks, op, evicted>>
    BY DEF Flip, mutations
  <1>2. g \in Nat /\ g <= MaxGeneration /\ g >= 1 /\ g > next_generation /\ g \in Generations
    BY <1>1, Facts, Bounds DEF Generations
  <1>3. flip \in Flips /\ flip.key = k /\ flip.generation = g /\ flip.at = "fetching"
    BY <1>2, Facts DEF Flips
  <1>4. rows[k] # None =>
            page \in Pages /\ IsReconciled(page) /\ rows[k].stale \in BOOLEAN
    BY Facts, ReconcilePage DEF RowTypes, Rows
  <1> HIDE DEF g, page, flip
  <1>5. \A f \in flips' : FlipOK(f)'
    <2> SUFFICES ASSUME NEW f \in flips' PROVE FlipOK(f)'
      OBVIOUS
    <2>1. PICK left \in Surviving : flips' = left \union {flip}
      BY <1>1
    <2>2. CASE f \in left
      <3>1. FlipOK(f)
        BY <2>2, Facts, Survivors DEF IndInv, RowTypes
      <3> QED
        BY <1>1, <1>2, <3>1, Facts, FlipStaysOK
    <2>3. CASE f = flip
      BY <1>1, <1>2, <1>3, <2>3 DEF FlipOK
    <2> QED
      BY <2>1, <2>2, <2>3
  <1>6. flips' \subseteq Flips
    BY <1>5 DEF FlipOK
  <1>7. RowsAreKept /\ rows' \in [Keys -> Rows \union {None}]
    BY <1>1, Facts, RereadRow, RereadRowsAreKept
  <1>8. RowsAreNumbered' /\ RowsAreRegistered' /\ RowsGoOn
    BY <1>1, <1>2, <1>7, Facts, KeptRowsGoOn
  <1>9. HomeIsReconciled'
    BY <1>1, Facts, Bounds, RereadRow, HomeStaysReconciled DEF IndInv
  <1>10. FeedIsReconciled'
    BY <1>1, <1>4, ViewStaysReconciled DEF IndInv
  <1>11. \A t \in tasks' : TaskOK(t)'
    BY <1>1, <1>2, Facts, TaskStaysOK DEF IndInv
  <1>12. view' \in Views /\ pending' \in BOOLEAN /\ query' \in Keys
    <2>1. view \in Views /\ query \in Keys
      BY Facts
    <2>2. CASE UNCHANGED view
      BY <1>1, <1>4, <2>1, <2>2
    <2>3. CASE rows[k] # None /\ view' = [page |-> page, stale |-> rows[k].stale, how |-> "cache"]
      <3>1. view' \in Views
        BY <1>4, <2>3, ShownView
      <3> QED
        BY <1>1, <1>4, <2>1, <2>3, <3>1
    <2> QED
      BY <1>1, <2>2, <2>3
  <1>13. TypeOK'
    BY <1>1, <1>2, <1>6, <1>7, <1>12 DEF IndInv, TypeOK, Views
  <1> QED
    BY <1>1, <1>5, <1>8, <1>9, <1>10, <1>11, <1>13
    DEF IndInv, Refreshing, RefreshIsTheLast, RefreshIsRegistered, ReadIsCurrent

(* The steps of a flip that leave the rows, the tasks and the screen.      *)
LEMMA QuietFlipStep ==
    ASSUME IndInv,
           UNCHANGED <<server, rows, refreshes, epoch, deleted, confirmed, tasks, token,
                       next_generation, query, view, pending, op, evicted>>,
           \A f \in flips' : FlipOK(f)
    PROVE  IndInv' /\ RowsGoOn
  <1>1. RowsAreNumbered' /\ RowsAreRegistered' /\ RowsGoOn
    BY Facts, UnchangedRowsAreKept, KeptRowsGoOn
  <1>2. HomeIsReconciled' /\ FeedIsReconciled'
    BY ViewStaysReconciled, HomeStaysReconciled DEF IndInv
  <1>3. /\ \A f \in flips' : FlipOK(f)'
        /\ \A t \in tasks' : TaskOK(t)'
    BY DEF IndInv, FlipOK, TaskOK
  <1>4. flips' \subseteq Flips
    BY DEF FlipOK
  <1>5. TypeOK'
    BY <1>4 DEF IndInv, TypeOK
  <1>6. RefreshIsTheLast' /\ RefreshIsRegistered' /\ ReadIsCurrent'
    BY DEF IndInv, Refreshing, RefreshIsTheLast, RefreshIsRegistered, ReadIsCurrent
  <1> QED
    BY <1>1, <1>2, <1>3, <1>5, <1>6 DEF IndInv

LEMMA MovedFlip ==
    ASSUME IndInv, NEW f \in flips, NEW place \in {"writing", "answered", "failed"},
           NEW page \in Pages \union {None}, Moves(f, place, page),
           place # "failed" => page \in Pages /\ page.by <= next_generation
    PROVE  \A g \in flips' : FlipOK(g)
  <1> DEFINE moved == [f EXCEPT !.at = place, !.page = page]
  <1>1. flips' = (flips \ {f}) \union {moved}
    BY DEF Moves
  <1>2. f \in Flips /\ FlipOK(f)
    BY DEF IndInv, FlipOK
  <1>3. /\ moved \in Flips /\ moved.at = place /\ moved.page = page
        /\ moved.key = f.key /\ moved.generation = f.generation
    BY <1>2 DEF Flips
  <1> HIDE DEF moved
  <1>4. FlipOK(moved)
    BY <1>2, <1>3 DEF FlipOK
  <1> QED
    BY <1>1, <1>4 DEF IndInv

LEMMA FlipFetchStep ==
    ASSUME IndInv, NEW f \in flips, FlipFetch(f)
    PROVE  IndInv' /\ RowsGoOn
  <1> DEFINE page == Fetched(f.generation, f.epoch)
  <1>1. /\ Moves(f, "writing", page) \/ Moves(f, "failed", None)
        /\ UNCHANGED <<server, rows, refreshes, epoch, deleted, confirmed, tasks, token,
                       next_generation, query, view, pending, op, evicted>>
    BY DEF FlipFetch, mutations, asked, screen
  <1>2. f.generation \in Generations /\ f.epoch \in Epochs /\ f.generation <= next_generation
    BY DEF IndInv, FlipOK, Flips
  <1>3. page \in Pages /\ page.by <= next_generation
    BY <1>2, FetchedPage
  <1> HIDE DEF page
  <1>4. \A g \in flips' : FlipOK(g)
    BY <1>1, <1>3, MovedFlip
  <1> QED
    BY <1>1, <1>4, QuietFlipStep

(* A flip writes the row of its key, and no other.                         *)
LEMMA FlipWrites ==
    ASSUME IndInv, NEW f \in flips, NEW page \in Pages, page.by <= next_generation,
           rows' = [rows EXCEPT ![f.key] = [page |-> page, stale |-> FALSE]],
           UNCHANGED <<server, refreshes, epoch, deleted, confirmed, tasks, token,
                       next_generation, query, view, pending, op, evicted>>,
           \A g \in flips' : FlipOK(g)
    PROVE  IndInv' /\ RowsGoOn
  <1> DEFINE row == [page |-> page, stale |-> FALSE]
  <1>1. f.key \in FlipKeys /\ f.key \in Keys
    BY Bounds DEF IndInv, FlipOK
  <1>2. row \in Rows /\ row.page = page
    BY DEF Rows
  <1> HIDE DEF row
  <1>3. rows' = [rows EXCEPT ![f.key] = row]
    BY DEF row
  <1>4. rows' \in [Keys -> Rows \union {None}]
    BY <1>1, <1>2, <1>3, Facts DEF RowTypes
  <1>5. RowsAreNumbered' /\ RowsAreRegistered' /\ RowsGoOn
    BY <1>1, <1>2, <1>3, <1>4, WrittenRows
  <1>6. HomeIsReconciled'
    BY <1>1, <1>2, <1>3, HomeIsWritten
  <1>7. FeedIsReconciled'
    BY ViewStaysReconciled DEF IndInv
  <1>8. /\ \A g \in flips' : FlipOK(g)'
        /\ \A t \in tasks' : TaskOK(t)'
    BY DEF IndInv, FlipOK, TaskOK
  <1>9. flips' \subseteq Flips
    BY DEF FlipOK
  <1>10. TypeOK'
    BY <1>4, <1>9 DEF IndInv, TypeOK
  <1>11. RefreshIsTheLast' /\ RefreshIsRegistered'
    BY DEF IndInv, Refreshing, RefreshIsTheLast, RefreshIsRegistered
  <1>12. \A j \in Keys \ FlipKeys : rows'[j] = rows[j]
    BY <1>1, <1>3
  <1>13. ReadIsCurrent'
    BY <1>12, Facts DEF IndInv, ReadIsCurrent, Ops
  <1> QED
    BY <1>5, <1>6, <1>7, <1>8, <1>10, <1>11, <1>13 DEF IndInv

LEMMA FlipWriteStep ==
    ASSUME IndInv, NEW f \in flips, FlipWrite(f)
    PROVE  IndInv' /\ RowsGoOn
  <1>1. /\ rows' = [rows EXCEPT ![f.key] = [page |-> Reconcile(f.page), stale |-> FALSE]]
        /\ Moves(f, "answered", f.page)
        /\ UNCHANGED <<server, refreshes, epoch, deleted, confirmed, tasks, token,
                       next_generation, query, view, pending, op, evicted>>
    BY DEF FlipWrite, mutations, asked, screen
  <1>2. f.page \in Pages /\ f.page.by <= next_generation
    BY DEF FlipWrite, IndInv, FlipOK
  <1>3. Reconcile(f.page) \in Pages /\ Reconcile(f.page).by <= next_generation
    BY <1>2, Facts, ReconcilePage DEF RowTypes
  <1>4. \A g \in flips' : FlipOK(g)
    BY <1>1, <1>2, MovedFlip
  <1> QED
    BY <1>1, <1>3, <1>4, FlipWrites

LEMMA OrphanWriteStep ==
    ASSUME IndInv, NEW f \in flips, OrphanWrite(f)
    PROVE  IndInv' /\ RowsGoOn
  <1>1. /\ rows' = [rows EXCEPT ![f.key] = [page |-> f.page, stale |-> FALSE]]
        /\ flips' = flips \ {f}
        /\ UNCHANGED <<server, refreshes, epoch, deleted, confirmed, tasks, token,
                       next_generation, query, view, pending, op, evicted>>
    BY DEF OrphanWrite, mutations, asked, screen
  <1>2. f.page \in Pages /\ f.page.by <= next_generation
    BY DEF OrphanWrite, IndInv, FlipOK
  <1>3. \A g \in flips' : FlipOK(g)
    BY <1>1 DEF IndInv
  <1> QED
    BY <1>1, <1>2, <1>3, FlipWrites

LEMMA FlipLandStep ==
    ASSUME IndInv, NEW f \in flips, FlipLand(f)
    PROVE  IndInv' /\ RowsGoOn
  <1> DEFINE shown == [page |-> f.page, stale |-> FALSE, how |-> "fetched"]
  <1>1. /\ op = None /\ flips' = flips \ {f}
        /\ \/ UNCHANGED <<query, view, pending>>
           \/ /\ pending' = FALSE /\ f.at = "answered" /\ query' = f.key /\ view' = shown
           \/ /\ pending' = FALSE /\ query' \in {query, f.previous} /\ UNCHANGED view
        /\ UNCHANGED <<server, rows, refreshes, epoch, deleted, confirmed, tasks, token,
                       next_generation, op, evicted>>
    BY DEF FlipLand, mutations, asked, screen
  <1>2. /\ f.key \in Keys /\ f.previous \in Keys
        /\ f.at = "answered" => f.page \in Pages
    BY DEF IndInv, FlipOK, Flips
  <1>3. f.at = "answered" => shown \in Views /\ shown.how # "cache"
    BY <1>2, ShownView
  <1> HIDE DEF shown
  <1>4. view' \in Views /\ pending' \in BOOLEAN /\ query' \in Keys
    <2>1. view \in Views /\ query \in Keys /\ pending \in BOOLEAN
      BY Facts
    <2> QED
      BY <1>1, <1>2, <1>3, <2>1
  <1>5. RowsAreNumbered' /\ RowsAreRegistered' /\ RowsGoOn
    BY <1>1, Facts, UnchangedRowsAreKept, KeptRowsGoOn
  <1>6. HomeIsReconciled' /\ FeedIsReconciled'
    BY <1>1, <1>3, ViewStaysReconciled, HomeStaysReconciled DEF IndInv
  <1>7. /\ \A g \in flips' : FlipOK(g)'
        /\ \A t \in tasks' : TaskOK(t)'
    BY <1>1 DEF IndInv, FlipOK, TaskOK
  <1>8. TypeOK'
    BY <1>1, <1>4 DEF IndInv, TypeOK, Views
  <1> QED
    BY <1>1, <1>5, <1>6, <1>7, <1>8
    DEF IndInv, Refreshing, RefreshIsTheLast, RefreshIsRegistered, ReadIsCurrent

-----------------------------------------------------------------------------
(* Mutations, the end of a context, and the rest.                          *)

(* What is confirmed is at once in the home row and in the view.           *)
LEMMA ConfirmedStep ==
    ASSUME IndInv, NEW version \in Versions, Confirmed(version)
    PROVE  /\ RowsAreKept /\ rows' \in [Keys -> Rows \union {None}]
           /\ view' \in Views /\ deleted' \in BOOLEAN /\ confirmed' \in Versions
           /\ FeedIsReconciled' /\ HomeIsReconciled'
  <1>1. /\ deleted' = (version = 0) /\ confirmed' = version
        /\ rows' = IF rows[home] = None THEN rows
                   ELSE [rows EXCEPT ![home] =
                      [page |-> ReconciledWith(@.page, version = 0, version), stale |-> FALSE]]
        /\ view' = IF view.page.post = 0 THEN view ELSE [view EXCEPT !.page.post = version]
    BY DEF Confirmed, HomeIsPatched
  <1>2. ASSUME NEW page \in Pages, page.post \in {0, version}
        PROVE  IsReconciled(page)'
    BY <1>1, <1>2, Bounds DEF IsReconciled, Reconcile, ReconciledWith, Pages
  <1>3. view \in Views /\ view.page \in Pages
    BY Facts DEF Views
  <1>4. view' \in Views /\ view'.page \in Pages /\ view'.page.post \in {0, version}
    <2>1. CASE view.page.post = 0
      BY <1>1, <1>3, <2>1
    <2>2. CASE view.page.post # 0
      <3>1. view' = [view EXCEPT !.page = [view.page EXCEPT !.post = version]]
        BY <1>1, <2>2
      <3>2. [view.page EXCEPT !.post = version] \in Pages
            /\ [view.page EXCEPT !.post = version].post = version
        BY <1>3 DEF Pages
      <3> QED
        BY <1>3, <3>1, <3>2 DEF Views
    <2> QED
      BY <2>1, <2>2
  <1>5. FeedIsReconciled'
    <2>1. \A page \in Pages : page.post \in {0, version} => IsReconciled(page)'
      BY <1>2
    <2>2. PICK page \in Pages : page = view'.page
      BY <1>4
    <2>3. IsReconciled(page)'
      BY <1>4, <2>1, <2>2
    <2> QED
      BY <2>2, <2>3 DEF FeedIsReconciled, IsReconciled, Reconcile
  <1>6. CASE rows[home] = None
    <2>1. rows' = rows
      BY <1>1, <1>6
    <2>2. RowsAreKept /\ rows' \in [Keys -> Rows \union {None}]
      BY <2>1, Facts, UnchangedRowsAreKept DEF RowTypes
    <2> QED
      BY <1>1, <1>4, <1>5, <1>6, <2>1, <2>2 DEF HomeIsReconciled, HomeRowIsReconciled
  <1>7. CASE rows[home] # None
    <2> DEFINE patched == ReconciledWith(rows[home].page, version = 0, version)
               row == [page |-> patched, stale |-> FALSE]
    <2>1. rows' = [rows EXCEPT ![home] = row]
      BY <1>1, <1>7
    <2>2. rows[home].page \in Pages
      BY <1>7, Facts, Bounds
    <2>3. /\ patched \in Pages /\ patched.by = rows[home].page.by
          /\ patched.epoch = rows[home].page.epoch /\ patched.post \in {0, version}
      BY <2>2, ReconciledPage
    <2>4. row \in Rows /\ row.page = patched
      BY <2>3 DEF Rows
    <2> HIDE DEF patched, row
    <2>5. /\ rows' \in [Keys -> Rows \union {None}] /\ rows'[home] = row
          /\ \A k \in Keys : k # home => rows'[k] = rows[k]
      BY <2>1, <2>4, Facts, Bounds DEF RowTypes
    <2>6. RowsAreKept
      BY <1>7, <2>3, <2>4, <2>5 DEF RowsAreKept
    <2>7. HomeIsReconciled'
      <3>1. \A page \in Pages : page.post \in {0, version} => IsReconciled(page)'
        BY <1>2
      <3>2. PICK page \in Pages : page = rows'[home].page
        BY <2>3, <2>4, <2>5
      <3>3. IsReconciled(page)'
        BY <2>3, <2>4, <2>5, <3>1, <3>2
      <3> QED
        BY <3>2, <3>3 DEF HomeIsReconciled, HomeRowIsReconciled, IsReconciled, Reconcile
    <2> QED
      BY <1>1, <1>4, <1>5, <2>5, <2>6, <2>7
  <1> QED
    BY <1>6, <1>7

(* An answer without a post changes no more than the home row's staleness. *)
LEMMA WithoutPostStep ==
    ASSUME IndInv, HomeIsPatched(deleted, confirmed), UNCHANGED <<deleted, confirmed, view>>
    PROVE  /\ RowsAreKept /\ rows' \in [Keys -> Rows \union {None}]
           /\ FeedIsReconciled' /\ HomeIsReconciled'
  <1>1. FeedIsReconciled'
    BY ViewStaysReconciled DEF IndInv
  <1>2. CASE rows[home] = None
    <2>1. rows' = rows
      BY <1>2 DEF HomeIsPatched
    <2> QED
      BY <1>1, <2>1, Facts, UnchangedRowsAreKept, HomeStaysReconciled DEF IndInv, RowTypes
  <1>3. CASE rows[home] # None
    <2> DEFINE patched == ReconciledWith(rows[home].page, deleted, confirmed)
               row == [page |-> patched, stale |-> FALSE]
    <2>1. rows' = [rows EXCEPT ![home] = row]
      BY <1>3 DEF HomeIsPatched
    <2>2. rows[home].page \in Pages
      BY <1>3, Facts, Bounds
    <2>3. /\ patched \in Pages /\ patched.by = rows[home].page.by
          /\ patched.epoch = rows[home].page.epoch /\ IsReconciled(patched)
      BY <2>2, ReconcilePage DEF Reconcile, IndInv, TypeOK
    <2>4. row \in Rows /\ row.page = patched
      BY <2>3 DEF Rows
    <2> HIDE DEF patched, row
    <2>5. /\ rows' \in [Keys -> Rows \union {None}] /\ rows'[home] = row
          /\ \A k \in Keys : k # home => rows'[k] = rows[k]
      BY <2>1, <2>4, Facts, Bounds DEF RowTypes
    <2>6. RowsAreKept
      BY <1>3, <2>3, <2>4, <2>5 DEF RowsAreKept
    <2>7. HomeIsReconciled'
      <3>1. IsReconciled(rows'[home].page)
        BY <2>3, <2>4, <2>5
      <3> QED
        BY <3>1 DEF HomeIsReconciled, HomeRowIsReconciled, IsReconciled, Reconcile
    <2> QED
      BY <1>1, <2>5, <2>6, <2>7
  <1> QED
    BY <1>2, <1>3

LEMMA MutateStep ==
    ASSUME IndInv, NEW version \in Versions, Mutate(version)
    PROVE  IndInv' /\ RowsGoOn
  <1>1. /\ op = None /\ server' \in {server, version} /\ pending' = FALSE
        /\ \/ Confirmed(version)
           \/ HomeIsPatched(deleted, confirmed) /\ UNCHANGED <<deleted, confirmed, view>>
           \/ UNCHANGED <<deleted, confirmed, rows, view>>
        /\ UNCHANGED <<refreshes, epoch, tasks, flips, token, next_generation, query, op,
                       evicted>>
    BY DEF Mutate, mutations, asked
  <1>2. /\ RowsAreKept /\ rows' \in [Keys -> Rows \union {None}]
        /\ view' \in Views /\ deleted' \in BOOLEAN /\ confirmed' \in Versions
        /\ FeedIsReconciled' /\ HomeIsReconciled'
    <2>1. CASE Confirmed(version)
      BY <2>1, ConfirmedStep
    <2>2. CASE UNCHANGED <<deleted, confirmed, rows, view>>
      BY <2>2, Facts, UnchangedRowsAreKept, ViewStaysReconciled, HomeStaysReconciled
      DEF IndInv, RowTypes
    <2>3. CASE HomeIsPatched(deleted, confirmed) /\ UNCHANGED <<deleted, confirmed, view>>
      BY <2>3, Facts, WithoutPostStep DEF IndInv, RowTypes
    <2> QED
      BY <1>1, <2>1, <2>2, <2>3
  <1>3. RowsAreNumbered' /\ RowsAreRegistered' /\ RowsGoOn
    BY <1>1, <1>2, Facts, KeptRowsGoOn
  <1>4. /\ \A f \in flips' : FlipOK(f)'
        /\ \A t \in tasks' : TaskOK(t)'
    BY <1>1 DEF IndInv, FlipOK, TaskOK
  <1>5. server' \in Versions
    BY <1>1, Facts
  <1>6. TypeOK'
    BY <1>1, <1>2, <1>5 DEF IndInv, TypeOK, Views
  <1> QED
    BY <1>1, <1>2, <1>3, <1>4, <1>6
    DEF IndInv, Refreshing, RefreshIsTheLast, RefreshIsRegistered, ReadIsCurrent

LEMMA SurvivorsStayOK ==
    ASSUME IndInv, flips' \in Surviving, UNCHANGED next_generation
    PROVE  flips' \subseteq Flips /\ \A f \in flips' : FlipOK(f)'
  <1> SUFFICES ASSUME NEW f \in flips' PROVE f \in Flips /\ FlipOK(f)'
    OBVIOUS
  <1>1. FlipOK(f)
    BY Facts, Survivors DEF IndInv, RowTypes
  <1> QED
    BY <1>1 DEF FlipOK

LEMMA CancelStep ==
    ASSUME IndInv, Cancel
    PROVE  IndInv' /\ RowsGoOn
  <1>1. /\ op = None /\ token' = None /\ flips' \in Surviving /\ pending' = FALSE
        /\ UNCHANGED <<server, rows, refreshes, epoch, deleted, confirmed, tasks,
                       next_generation, query, view, op, evicted>>
    BY DEF Cancel, mutations
  <1>2. RowsAreNumbered' /\ RowsAreRegistered' /\ RowsGoOn
    BY <1>1, Facts, UnchangedRowsAreKept, KeptRowsGoOn
  <1>3. HomeIsReconciled' /\ FeedIsReconciled'
    BY <1>1, ViewStaysReconciled, HomeStaysReconciled DEF IndInv
  <1>4. flips' \subseteq Flips /\ \A f \in flips' : FlipOK(f)'
    BY <1>1, SurvivorsStayOK
  <1>5. \A t \in tasks' : TaskOK(t)'
    BY <1>1 DEF IndInv, TaskOK
  <1>6. TypeOK'
    BY <1>1, <1>4 DEF IndInv, TypeOK
  <1> QED
    BY <1>1, <1>2, <1>3, <1>4, <1>5, <1>6
    DEF IndInv, Refreshing, RefreshIsTheLast, RefreshIsRegistered, ReadIsCurrent

LEMMA LogoutStep ==
    ASSUME IndInv, Logout
    PROVE  IndInv' /\ RowsGoOn
  <1>1. /\ op = None /\ epoch < MaxEpoch /\ token' = None /\ flips' \in Surviving
        /\ epoch' = epoch + 1 /\ refreshes' = [k \in Keys |-> NoRefresh]
        /\ deleted' = FALSE /\ confirmed' = 0 /\ query' = home /\ view' = EmptyView
        /\ pending' = FALSE
        /\ UNCHANGED <<server, rows, tasks, next_generation, op, evicted>>
    BY DEF Logout
  <1>2. /\ refreshes' \in [Keys -> Refreshes]
        /\ \A k \in Keys : refreshes'[k].latest = 0
    BY <1>1, Bounds DEF NoRefresh, Refreshes
  <1>3. RowsAreNumbered' /\ RowsAreRegistered' /\ RowsGoOn
    BY <1>1, <1>2, Facts, UnchangedRowsAreKept, KeptRowsGoOn
  <1>4. flips' \subseteq Flips /\ \A f \in flips' : FlipOK(f)'
    BY <1>1, SurvivorsStayOK
  <1>5. \A t \in tasks' : TaskOK(t)'
    BY <1>1 DEF IndInv, TaskOK
  <1>6. epoch' \in Epochs
    BY <1>1, Facts, Bounds DEF Epochs
  <1>7. EmptyView \in Views /\ EmptyView.page.post = 0
    BY Bounds DEF EmptyView, NoPage, Views, Pages
  <1>8. TypeOK'
    BY <1>1, <1>2, <1>4, <1>6, <1>7, Bounds DEF IndInv, TypeOK, Views
  <1>9. FeedIsReconciled'
    BY <1>1, <1>7 DEF FeedIsReconciled, IsReconciled
  <1>10. HomeIsReconciled'
    <2>1. rows[home] # None => rows[home].page \in Pages
      BY Facts, Bounds
    <2> QED
      BY <1>1, <2>1
      DEF HomeIsReconciled, HomeRowIsReconciled, IsReconciled, Reconcile, ReconciledWith, Pages
  <1> QED
    BY <1>1, <1>3, <1>4, <1>5, <1>8, <1>9, <1>10
    DEF IndInv, Refreshing, RefreshIsTheLast, RefreshIsRegistered, ReadIsCurrent

LEMMA EvictStep ==
    ASSUME IndInv, NEW k \in Evictable, Evict(k)
    PROVE  IndInv' /\ RowsGoOn
  <1>1. /\ k \in Keys /\ rows' = [rows EXCEPT ![k] = None]
        /\ evicted' = evicted \union {k}
        /\ UNCHANGED <<server, refreshes, epoch, deleted, confirmed, tasks, flips, token,
                       next_generation, query, view, pending, op>>
    BY Bounds DEF Evict, mutations, asked, screen
  <1>2. rows' \in [Keys -> Rows \union {None}] /\ \A j \in Keys : rows'[j] \in {rows[j], None}
    BY <1>1, Facts DEF RowTypes
  <1>3. RowsAreKept
    BY <1>2 DEF RowsAreKept
  <1>4. RowsAreNumbered' /\ RowsAreRegistered' /\ RowsGoOn
    BY <1>1, <1>3, Facts, KeptRowsGoOn
  <1>5. HomeIsReconciled' /\ FeedIsReconciled'
    BY <1>1, <1>2, Bounds, ViewStaysReconciled, HomeStaysReconciled DEF IndInv
  <1>6. /\ \A f \in flips' : FlipOK(f)'
        /\ \A t \in tasks' : TaskOK(t)'
    BY <1>1 DEF IndInv, FlipOK, TaskOK
  <1>7. TypeOK'
    BY <1>1, <1>2 DEF IndInv, TypeOK
  <1>8. RefreshIsTheLast' /\ RefreshIsRegistered'
    BY <1>1 DEF IndInv, Refreshing, RefreshIsTheLast, RefreshIsRegistered
  <1>9. ReadIsCurrent'
    BY <1>1, <1>2, Facts DEF IndInv, ReadIsCurrent, Ops
  <1> QED
    BY <1>4, <1>5, <1>6, <1>7, <1>8, <1>9 DEF IndInv

LEMMA StutterStep ==
    ASSUME IndInv, UNCHANGED vars
    PROVE  IndInv' /\ RowsGoOn
  <1>1. RowsAreNumbered' /\ RowsAreRegistered' /\ RowsGoOn
    BY Facts, UnchangedRowsAreKept, KeptRowsGoOn DEF vars
  <1> QED
    BY <1>1
    DEF vars, IndInv, TypeOK, FlipOK, TaskOK, Refreshing, RefreshIsTheLast,
        RefreshIsRegistered, ReadIsCurrent, FeedIsReconciled, HomeIsReconciled,
        HomeRowIsReconciled, IsReconciled, Reconcile

-----------------------------------------------------------------------------
LEMMA InitInvariant == Init => IndInv
  <1> SUFFICES ASSUME Init PROVE IndInv
    OBVIOUS
  <1>1. /\ server = 1 /\ refreshes = [k \in Keys |-> NoRefresh] /\ epoch = 0
        /\ rows \in [Keys -> {None} \union
                        [page: {[post |-> 1, by |-> 0, epoch |-> 0]}, stale: BOOLEAN]]
        /\ deleted = FALSE /\ confirmed = 0 /\ tasks = {} /\ flips = {} /\ token = None
        /\ next_generation = 0 /\ query = home /\ view = EmptyView /\ pending = FALSE
        /\ op = None /\ evicted = {}
    BY DEF Init
  <1>2. ASSUME NEW k \in Keys, rows[k] # None
        PROVE  rows[k] \in Rows /\ rows[k].page.post = 1 /\ rows[k].page.by = 0
    <2>1. PICK stale \in BOOLEAN :
              rows[k] = [page |-> [post |-> 1, by |-> 0, epoch |-> 0], stale |-> stale]
      BY <1>1, <1>2
    <2>2. [post |-> 1, by |-> 0, epoch |-> 0] \in Pages
      BY Bounds DEF Pages
    <2> QED
      BY <2>1, <2>2 DEF Rows
  <1>3. rows \in [Keys -> Rows \union {None}]
    BY <1>1, <1>2
  <1>4. /\ refreshes \in [Keys -> Refreshes]
        /\ \A k \in Keys : refreshes[k].latest = 0
    BY <1>1, Bounds DEF NoRefresh, Refreshes
  <1>5. EmptyView \in Views /\ EmptyView.page.post = 0
    BY Bounds DEF EmptyView, NoPage, Views, Pages
  <1>6. TypeOK
    BY <1>1, <1>3, <1>4, <1>5, Bounds DEF TypeOK, Views
  <1>7. RowsAreNumbered /\ RowsAreRegistered
    BY <1>1, <1>2, <1>4 DEF RowsAreNumbered, RowsAreRegistered
  <1>8. FeedIsReconciled
    BY <1>1, <1>5 DEF FeedIsReconciled, IsReconciled
  <1>9. HomeIsReconciled
    <2> SUFFICES ASSUME rows[home] # None PROVE IsReconciled(rows[home].page)
      BY DEF HomeIsReconciled, HomeRowIsReconciled
    <2>1. rows[home].page \in Pages
      BY <1>2, Bounds DEF Rows
    <2> QED
      BY <1>1, <2>1 DEF IsReconciled, Reconcile, ReconciledWith, Pages
  <1> QED
    BY <1>1, <1>6, <1>7, <1>8, <1>9
    DEF IndInv, Refreshing, RefreshIsTheLast, RefreshIsRegistered, ReadIsCurrent

LEMMA NextInvariant == IndInv /\ [Next]_vars => IndInv' /\ RowsGoOn
  <1> SUFFICES ASSUME IndInv, [Next]_vars PROVE IndInv' /\ RowsGoOn
    OBVIOUS
  <1>1. CASE \E k \in Keys : Refresh(k)
    BY <1>1, RefreshStep
  <1>2. CASE \E k \in FlipKeys : Flip(k)
    BY <1>2, FlipStarts, Bounds
  <1>3. CASE \E version \in Versions : Mutate(version)
    BY <1>3, MutateStep
  <1>4. CASE Cancel \/ Logout
    BY <1>4, CancelStep, LogoutStep
  <1>5. CASE Handler
    BY <1>5, SpawnFeedMissStep, HitReadStep, HitWriteStep, InlineFetchStep, TickReadStep
    DEF Handler
  <1>6. CASE Tick
    BY <1>6, TickTakeStep, FlipLandStep DEF Tick
  <1>7. CASE \E t \in tasks : TaskStep(t)
    BY <1>7, FetchStep, LandRefreshStep, FailRefreshStep DEF TaskStep
  <1>8. CASE \E f \in flips : FlipStep(f)
    BY <1>8, FlipFetchStep, FlipWriteStep, OrphanWriteStep DEF FlipStep
  <1>9. CASE \E k \in Evictable : Evict(k)
    BY <1>9, EvictStep
  <1>10. CASE UNCHANGED vars
    BY <1>10, StutterStep
  <1> QED
    BY <1>1, <1>2, <1>3, <1>4, <1>5, <1>6, <1>7, <1>8, <1>9, <1>10 DEF Next, UserAction

-----------------------------------------------------------------------------
THEOREM Invariance == Spec => []IndInv
  BY InitInvariant, NextInvariant, PTL DEF Spec

(* What is kept of a feed, of its refreshes and of the pages on their way  *)
(* is what the code's types say, and no generation is beyond the counter.  *)
THEOREM TypeCorrect == Spec => []TypeOK
  <1>1. IndInv => TypeOK
    BY DEF IndInv
  <1> QED
    BY <1>1, Invariance, PTL

(* Whatever page of the cache reaches the screen, it shows what the user   *)
(* changed in this session, and nothing that was deleted (cached_feed,     *)
(* feed_with_generation and mutate in src/src/app/repository.rs).          *)
THEOREM FeedsAreAlwaysReconciled == Spec => []FeedIsReconciled
  <1>1. IndInv => FeedIsReconciled
    BY DEF IndInv
  <1> QED
    BY <1>1, Invariance, PTL

(* So does the row of the home feed at every moment, if no flip writes it: *)
(* mutate and every refresh reconcile what they write, under one lock.     *)
THEOREM HomeRowAlwaysReconciled ==
    ASSUME home \notin FlipKeys
    PROVE  Spec => []HomeRowIsReconciled
  <1>1. IndInv => HomeRowIsReconciled
    BY DEF IndInv, HomeIsReconciled
  <1> QED
    BY <1>1, Invariance, PTL

(* A refresh that is late writes nothing over the page of a newer one      *)
(* (write_refresh_locked).                                                 *)
THEOREM NewerFetchesStay == Spec => NewerFetchStays
  <1>1. RowsGoOn =>
            [\A k \in Keys \ FlipKeys : rows[k] # None /\ rows'[k] # None
                => rows'[k].page.by >= rows[k].page.by]_vars
    BY DEF RowsGoOn
  <1> QED
    BY <1>1, Invariance, NextInvariant, PTL DEF Spec, NewerFetchStays

(* Nor does one that was begun for a session that ended                    *)
(* (invalidate_profile_context).                                           *)
THEOREM RowsStayInTheirContext == Spec => RowsAreOfThisContext
  <1>1. RowsGoOn =>
            [\A k \in Keys \ FlipKeys : rows'[k] # None /\ rows'[k].page.epoch # epoch'
                => \E row \in Held(k) : row.page.epoch = rows'[k].page.epoch]_vars
    BY DEF RowsGoOn
  <1> QED
    BY <1>1, Invariance, NextInvariant, PTL DEF Spec, RowsAreOfThisContext
=============================================================================
