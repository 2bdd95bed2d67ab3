-------------------------- MODULE EntityRowsProofs --------------------------
(***************************************************************************)
(* Proofs about the rows of posts, comments and communities, for any       *)
(* listings, sizes, cap and numbers of reads.  The inductive invariant     *)
(* says who may write while a mutation has the lock (only writes that      *)
(* outlived their tasks), and that every way a row of the post can come to *)
(* be written carries what was promised: what was fetched, what waits for  *)
(* the pool, and what the mutation is about to write.                      *)
(***************************************************************************)
EXTENDS EntityRows, WellFoundedInduction, SequenceTheorems, TLAPS

Types ==
    /\ rows \in [Keys -> Rows \union {None}]
    /\ server \in [Keys -> Versions] /\ server[comments] \in {0, 1}
    /\ confirmed \in Versions
    /\ deleted \in BOOLEAN
    /\ reads \subseteq Reads
    /\ op \in Ops \union {None}
    /\ clock \in 0 .. MaxClock
    /\ promised \in Versions
    /\ spoiled \in BOOLEAN
    /\ overtaken \in BOOLEAN

ReadShape(r) ==
    /\ r.at = "queued" => r.row # None
    /\ r.at \in {"fetching", "fetched"} => ~ r.aborted

(* What a mutation has still to do.                                        *)
OpShape ==
    op # None =>
        /\ op.todo # <<>>
        /\ op.kind = "edit" => op.todo = <<post>>
        /\ op.kind \in {"delete", "comment"} => op.todo = <<comments>>
        /\ op.kind = "subscribe" => op.todo \in Seq(ListKeys)
        /\ op.kind = "delete" => op.at # "reading"
        /\ op.at = "queued" => op.row # None

(* While a mutation has the lock, only orphaned writes are with the pool.  *)
MutationHasTheLock ==
    op # None => \A r \in reads : r.at \in {"queued", "storing"} => r.aborted

SeenIsThere ==
    op # None /\ op.at = "queued" /\ op.kind # "delete" =>
        rows[Head(op.todo)] \in {op.seen, None} \/ overtaken

(* What was promised is what the server has, and what is confirmed.        *)
PromisesAreReal ==
    /\ promised <= server[post]
    /\ confirmed <= server[post]
    /\ confirmed # 0 => promised <= confirmed

(* What a read of the post is going to write.                              *)
ReadKeepsPromise(r) ==
    r.key = post =>
        /\ r.at = "fetched" /\ confirmed = 0 => r.got >= promised
        /\ r.at = "queued" /\ ~ r.aborted => r.row.entity >= promised

(* What the edit under way is going to promise.                            *)
EditGoesOn ==
    op # None /\ op.kind = "edit" =>
        /\ confirmed # 0
        /\ op.at = "queued" => op.row.entity = confirmed
        /\ op.at = "storing" /\ rows[post] # None => rows[post].entity = confirmed

IndInv ==
    /\ Types
    /\ \A r \in reads : ReadShape(r) /\ ReadKeepsPromise(r)
    /\ OpShape
    /\ MutationHasTheLock
    /\ SeenIsThere
    /\ PromisesAreReal
    /\ EditsOutliveTheSession
    /\ EditGoesOn

-----------------------------------------------------------------------------
LEMMA KeyFacts ==
    /\ post \in Keys /\ comments \in Keys /\ post # comments
    /\ ListKeys \subseteq Keys /\ post \notin ListKeys
    /\ MaxVersion \in Nat /\ MaxVersion > 0 /\ MaxClock \in Nat
    /\ 0 \in Versions /\ 1 \in Versions /\ Versions \subseteq Nat
    /\ Listings \in Seq(ListKeys) /\ Listings # <<>>
  <1>1. Listings \in Seq(ListKeys)
    BY EntityConstants DEF ListKeys
  <1> QED
    BY <1>1, EntityConstants DEF Versions

LEMMA InitInvariant == Init => IndInv
  <1> SUFFICES ASSUME Init PROVE IndInv
    OBVIOUS
  <1>1. /\ rows = [k \in Keys |-> None] /\ server = [k \in Keys |-> IF k = post THEN 1 ELSE 0]
        /\ confirmed = 0 /\ deleted = FALSE /\ reads = {} /\ op = None
        /\ clock = 0 /\ promised = 0 /\ spoiled = FALSE /\ overtaken = FALSE
    BY DEF Init, EmptyTable
  <1>2. server[post] = 1 /\ server[comments] = 0 /\ server \in [Keys -> Versions]
        /\ rows[post] = None
    BY <1>1, KeyFacts
  <1>3. Types
    <2>1. rows \in [Keys -> Rows \union {None}] /\ reads \subseteq Reads
      BY <1>1
    <2>2. confirmed \in Versions /\ promised \in Versions /\ clock \in 0 .. MaxClock
      BY <1>1, KeyFacts
    <2> QED
      BY <1>1, <1>2, <2>1, <2>2 DEF Types
  <1> QED
    BY <1>1, <1>2, <1>3
    DEF IndInv, OpShape, MutationHasTheLock, SeenIsThere, PromisesAreReal, EditsOutliveTheSession,
        EditGoesOn

(* What follows from a step that leaves the table, the mutation and the    *)
(* promises alone: only the reads have to be looked at.                    *)
LEMMA ReadsMove ==
    ASSUME IndInv,
           UNCHANGED <<table, server, mutations, op, history>>,
           clock' \in 0 .. MaxClock,
           reads' \subseteq Reads,
           \A r \in reads' : ReadShape(r) /\ ReadKeepsPromise(r),
           op # None => \A r \in reads' : r.at \in {"queued", "storing"} => r.aborted
    PROVE  IndInv'
  <1>1. UNCHANGED <<rows, server, confirmed, deleted, op, promised, spoiled, overtaken>>
    BY DEF table, mutations, history
  <1>2. \A r : (ReadShape(r) <=> ReadShape(r)') /\ (ReadKeepsPromise(r) <=> ReadKeepsPromise(r)')
    BY <1>1 DEF ReadShape, ReadKeepsPromise
  <1> QED
    BY <1>1, <1>2
    DEF IndInv, Types, OpShape, MutationHasTheLock, SeenIsThere,
        PromisesAreReal, EditsOutliveTheSession, EditGoesOn

(* The same of a step of one read, which becomes another.                  *)
LEMMA ReadMoves ==
    ASSUME IndInv, NEW r \in reads, NEW s \in Reads, Becomes(r, s),
           ReadShape(s), ReadKeepsPromise(s),
           op # None /\ s.at \in {"queued", "storing"} => s.aborted,
           UNCHANGED <<table, server, mutations, op, clock, history>>
    PROVE  IndInv'
  <1>1. reads' \subseteq Reads /\ clock' \in 0 .. MaxClock
    BY DEF IndInv, Types, Becomes
  <1>2. \A q \in reads' : q \in reads \/ q = s
    BY DEF Becomes
  <1> QED
    BY <1>1, <1>2, ReadsMove DEF IndInv, MutationHasTheLock

LEMMA ReadEnds ==
    ASSUME IndInv, NEW r \in reads, Ends(r),
           UNCHANGED <<table, server, mutations, op, clock, history>>
    PROVE  IndInv'
  <1>1. reads' \subseteq reads /\ clock' \in 0 .. MaxClock
    BY DEF IndInv, Types, Ends
  <1> QED
    BY <1>1, ReadsMove DEF IndInv, Types, MutationHasTheLock

LEMMA FetchedStep ==
    ASSUME IndInv, NEW r \in reads, Fetched(r)
    PROVE  IndInv'
  <1> DEFINE s == [r EXCEPT !.at = "fetched", !.got = server[r.key]]
  <1>1. CASE Ends(r)
    BY <1>1, ReadEnds DEF Fetched
  <1>2. CASE Becomes(r, s)
    <2>1. r \in Reads /\ r.key \in Keys /\ server[r.key] \in Versions /\ r.at = "fetching"
      BY DEF IndInv, Types, Reads, Fetched
    <2>2. s \in Reads /\ s.key = r.key /\ s.at = "fetched" /\ s.got = server[r.key]
          /\ s.aborted = r.aborted
      BY <2>1 DEF Reads
    <2>3. ReadShape(s)
      BY <2>1, <2>2 DEF IndInv, ReadShape
    <2>4. promised \in Nat /\ server[post] \in Nat /\ promised <= server[post]
      BY KeyFacts DEF IndInv, Types, PromisesAreReal
    <2>5. ReadKeepsPromise(s)
      BY <2>2, <2>4 DEF ReadKeepsPromise
    <2> QED
      BY <1>2, <2>2, <2>3, <2>5, ReadMoves DEF Fetched
  <1> QED
    BY <1>1, <1>2 DEF Fetched

LEMMA RecordStep ==
    ASSUME IndInv, NEW r \in reads, Record(r)
    PROVE  IndInv'
  <1> DEFINE row == Fresh(Reconciled(r))
             s == [r EXCEPT !.at = "queued", !.got = 0, !.row = row]
  <1>1. r \in Reads /\ r.at = "fetched" /\ op = None /\ Becomes(r, s)
        /\ UNCHANGED <<table, server, mutations, op, clock, history>>
    BY DEF IndInv, Types, Record, LockIsFree
  <1>2. Reconciled(r) \in Versions
    BY <1>1 DEF Reconciled, IndInv, Types, Reads
  <1>3. row \in Rows /\ row.entity = Reconciled(r) /\ row # None
    <2>1. clock \in 0 .. MaxClock
      BY DEF IndInv, Types
    <2>2. row \in Rows /\ row.entity = Reconciled(r)
      BY <1>2, <2>1 DEF Fresh, Rows
    <2> QED
      BY <2>2, NoneIsNothing
  <1>4. s \in Reads /\ s.key = r.key /\ s.at = "queued" /\ s.row = row
    BY <1>1, <1>3, KeyFacts DEF Reads
  <1>5. ReadShape(s)
    BY <1>3, <1>4 DEF ReadShape
  <1>6. r.key = post => Reconciled(r) >= promised
    <2>1. r.got \in Nat /\ confirmed \in Nat /\ promised \in Nat
      BY <1>1, KeyFacts DEF IndInv, Types, Reads
    <2> QED
      BY <1>1, <2>1 DEF Reconciled, IndInv, ReadKeepsPromise, PromisesAreReal
  <1>7. ReadKeepsPromise(s)
    BY <1>3, <1>4, <1>6 DEF ReadKeepsPromise
  <1> QED
    BY <1>1, <1>4, <1>5, <1>7, ReadMoves

(* An aborted write is a read like any other, and bound to nothing.        *)
LEMMA OrphanIsARead ==
    ASSUME IndInv, NEW r \in reads, r.at \in {"queued", "storing"}
    PROVE  LET s == [r EXCEPT !.aborted = TRUE]
           IN  s \in Reads /\ ReadShape(s) /\ ReadKeepsPromise(s) /\ s.aborted
  <1> DEFINE s == [r EXCEPT !.aborted = TRUE]
  <1>1. r \in Reads /\ ReadShape(r)
    BY DEF IndInv, Types
  <1>2. s \in Reads /\ s.at = r.at /\ s.row = r.row /\ s.aborted
    BY <1>1 DEF Reads
  <1> QED
    BY <1>1, <1>2 DEF ReadShape, ReadKeepsPromise

LEMMA AbortOfKey ==
    ASSUME IndInv, NEW k \in Keys, NEW s \in AfterAbort(ReadsOf(k))
    PROVE  s \in Reads /\ ReadShape(s) /\ ReadKeepsPromise(s) /\ (s \in reads \/ s.aborted)
  <1>1. CASE s \in reads
    BY <1>1 DEF IndInv, Types
  <1>2. CASE s \notin reads
    <2>1. PICK r \in reads : r.at \in {"queued", "storing"} /\ s = [r EXCEPT !.aborted = TRUE]
      BY <1>2 DEF AfterAbort, ReadsOf
    <2> QED
      BY <2>1, OrphanIsARead
  <1> QED
    BY <1>1, <1>2

LEMMA AbortOfAll ==
    ASSUME IndInv, NEW s \in AfterAbort(reads)
    PROVE  s \in Reads /\ ReadShape(s) /\ s.aborted /\ s.at \in {"queued", "storing"}
  <1>1. PICK r \in reads : r.at \in {"queued", "storing"} /\ s = [r EXCEPT !.aborted = TRUE]
    BY DEF AfterAbort, ReadsOf
  <1>2. r \in Reads
    BY DEF IndInv, Types
  <1> QED
    BY <1>1, <1>2, OrphanIsARead DEF Reads

LEMMA ReadBegins ==
    ASSUME IndInv, NEW k \in Keys, Read(k)
    PROVE  IndInv'
  <1> DEFINE left == AfterAbort(ReadsOf(k))
             s == [key |-> k, at |-> "fetching", got |-> 0, row |-> None, aborted |-> FALSE]
  <1>1. reads' = left \union {s} /\ op = None
        /\ UNCHANGED <<table, server, mutations, op, clock, history>>
    BY DEF Read, LockIsFree
  <1>2. s \in Reads /\ ReadShape(s) /\ ReadKeepsPromise(s)
    BY KeyFacts DEF Reads, ReadShape, ReadKeepsPromise
  <1>3. \A q \in left : q \in Reads /\ ReadShape(q) /\ ReadKeepsPromise(q)
    BY AbortOfKey
  <1>4. clock' \in 0 .. MaxClock
    BY <1>1 DEF IndInv, Types
  <1> HIDE DEF left, s
  <1> QED
    BY <1>1, <1>2, <1>3, <1>4, ReadsMove

LEMMA AbortStep ==
    ASSUME IndInv, NEW k \in Keys, Abort(k)
    PROVE  IndInv'
  <1> DEFINE left == AfterAbort(ReadsOf(k))
  <1>1. reads' = left /\ op = None
        /\ UNCHANGED <<table, server, mutations, op, clock, history>>
    BY DEF Abort
  <1>2. \A q \in left : q \in Reads /\ ReadShape(q) /\ ReadKeepsPromise(q)
    BY AbortOfKey
  <1>3. clock' \in 0 .. MaxClock
    BY <1>1 DEF IndInv, Types
  <1> HIDE DEF left
  <1> QED
    BY <1>1, <1>2, <1>3, ReadsMove

LEMMA OneIsNoMore == ~ (1 > 1)
  OBVIOUS

(* The mutation is at a key of the store, and at the post only in an edit. *)
LEMMA AtAKey ==
    ASSUME IndInv, op # None
    PROVE  /\ op \in Ops
           /\ op.todo \in Seq(Keys) /\ Len(op.todo) \in Nat \ {0}
           /\ Head(op.todo) \in Keys
           /\ op.kind = "edit" => Head(op.todo) = post /\ Len(op.todo) = 1
           /\ op.kind # "edit" => Head(op.todo) # post
           /\ Len(op.todo) > 1 => op.kind = "subscribe"
  <1>1. op \in Ops /\ op.todo \in Seq(Keys) /\ op.todo # <<>>
        /\ op.kind \in {"edit", "delete", "comment", "subscribe"}
    BY DEF IndInv, Types, OpShape, Ops
  <1>2. Len(op.todo) \in Nat \ {0} /\ Head(op.todo) \in Keys
    BY <1>1
  <1>3. op.kind = "subscribe" => Head(op.todo) \in ListKeys
    BY <1>1 DEF IndInv, OpShape
  <1>4. op.kind # "subscribe" => op.todo \in {<<post>>, <<comments>>}
    BY <1>1 DEF IndInv, OpShape
  <1>5. op.kind # "subscribe" => Len(op.todo) = 1
    BY <1>4
  <1>6. Len(op.todo) > 1 => op.kind = "subscribe"
    BY <1>5, OneIsNoMore
  <1>7. op.kind = "edit" => Head(op.todo) = post
    BY <1>1 DEF IndInv, OpShape
  <1>8. op.kind # "edit" => Head(op.todo) # post
    BY <1>1, <1>3, KeyFacts DEF IndInv, OpShape
  <1> QED
    BY <1>1, <1>2, <1>5, <1>6, <1>7, <1>8

LEMMA StoreStep ==
    ASSUME IndInv, NEW r \in reads, Store(r)
    PROVE  IndInv'
  <1> DEFINE s == [r EXCEPT !.at = "storing", !.row = None]
  <1>1. /\ r \in Reads /\ r.at = "queued" /\ r.key \in Keys /\ r.row \in Rows
        /\ op # None => op.at # "storing" /\ r.aborted
        /\ rows' = [rows EXCEPT ![r.key] = r.row]
        /\ reads' = (reads \ {r}) \union {s}
        /\ spoiled' = (IF r.key = post THEN r.aborted ELSE spoiled)
        /\ overtaken' = (overtaken \/ (r.aborted /\ Patching(r.key)))
        /\ UNCHANGED <<server, confirmed, deleted, op, clock, promised>>
    BY DEF IndInv, Types, ReadShape, MutationHasTheLock, Store, ConnectionIsFree, Upsert,
           Becomes, Reads, mutations
  <1>2. s \in Reads /\ s.at = "storing" /\ s.key = r.key /\ s.aborted = r.aborted
    BY <1>1 DEF Reads
  <1>3. Types'
    <2>1. spoiled' \in BOOLEAN /\ overtaken' \in BOOLEAN
      BY <1>1 DEF IndInv, Types, Reads, Patching
    <2>2. reads' \subseteq Reads /\ rows' \in [Keys -> Rows \union {None}]
      BY <1>1, <1>2 DEF IndInv, Types
    <2> QED
      BY <1>1, <2>1, <2>2 DEF IndInv, Types
  <1>4. (\A q \in reads : ReadShape(q) /\ ReadKeepsPromise(q))'
    BY <1>1, <1>2 DEF IndInv, ReadShape, ReadKeepsPromise
  <1>5. OpShape' /\ PromisesAreReal'
    BY <1>1 DEF IndInv, OpShape, PromisesAreReal
  <1>6. MutationHasTheLock'
    BY <1>1, <1>2 DEF IndInv, MutationHasTheLock
  <1>7. SeenIsThere'
    <2> SUFFICES ASSUME op # None, op.at = "queued", op.kind # "delete"
                 PROVE  rows'[Head(op.todo)] \in {op.seen, None} \/ overtaken'
      BY <1>1 DEF SeenIsThere
    <2>1. CASE Head(op.todo) = r.key
      BY <1>1, <2>1 DEF Patching
    <2>2. CASE Head(op.todo) # r.key
      <3>1. rows'[Head(op.todo)] = rows[Head(op.todo)]
        BY <1>1, <2>2, AtAKey DEF IndInv, Types
      <3> QED
        BY <1>1, <3>1 DEF IndInv, SeenIsThere
    <2> QED
      BY <2>1, <2>2
  <1>8. EditsOutliveTheSession'
    <2>1. CASE r.key = post
      <3>1. rows'[post] = r.row /\ spoiled' = r.aborted
        BY <1>1, <2>1 DEF IndInv, Types
      <3> QED
        BY <1>1, <2>1, <3>1 DEF IndInv, ReadKeepsPromise, EditsOutliveTheSession
    <2>2. CASE r.key # post
      <3>1. rows'[post] = rows[post] /\ spoiled' = spoiled
        BY <1>1, <2>2, KeyFacts DEF IndInv, Types
      <3> QED
        BY <1>1, <3>1 DEF IndInv, EditsOutliveTheSession
    <2> QED
      BY <2>1, <2>2
  <1>9. EditGoesOn'
    BY <1>1 DEF IndInv, EditGoesOn
  <1> QED
    BY <1>3, <1>4, <1>5, <1>6, <1>7, <1>8, <1>9 DEF IndInv

LEMMA EvictStep ==
    ASSUME IndInv, Evict
    PROVE  IndInv'
  <1>1. PICK k : rows' = [rows EXCEPT ![k] = None]
    BY DEF Evict, DeleteOldest
  <1>3. UNCHANGED <<server, confirmed, deleted, reads, op, clock, promised, spoiled, overtaken>>
    BY DEF Evict, mutations, history
  <1>4. \A j \in Keys : rows'[j] \in {rows[j], None}
    BY <1>1 DEF IndInv, Types
  <1>5. Types'
    BY <1>1, <1>3 DEF IndInv, Types
  <1>6. SeenIsThere'
    BY <1>3, <1>4, AtAKey DEF IndInv, SeenIsThere
  <1>7. EditsOutliveTheSession' /\ EditGoesOn'
    BY <1>3, <1>4, KeyFacts DEF IndInv, EditsOutliveTheSession, EditGoesOn
  <1>8. (\A q \in reads : ReadShape(q) /\ ReadKeepsPromise(q))'
    BY <1>3 DEF IndInv, ReadShape, ReadKeepsPromise
  <1> QED
    BY <1>3, <1>5, <1>6, <1>7, <1>8
    DEF IndInv, OpShape, MutationHasTheLock, PromisesAreReal

LEMMA LogoutStep ==
    ASSUME IndInv, Logout
    PROVE  IndInv'
  <1>1. /\ reads' = AfterAbort(reads) /\ confirmed' = 0 /\ deleted' = FALSE
        /\ op = None
        /\ UNCHANGED <<rows, server, op, clock, promised, spoiled, overtaken>>
    BY DEF Logout, table, history
  <1>2. \A s \in reads' : s \in Reads /\ ReadShape(s) /\ s.aborted /\ s.at \in {"queued", "storing"}
    BY <1>1, AbortOfAll
  <1>3. (\A s \in reads : ReadShape(s) /\ ReadKeepsPromise(s))'
    BY <1>2 DEF ReadShape, ReadKeepsPromise
  <1>4. Types'
    BY <1>1, <1>2, KeyFacts DEF IndInv, Types
  <1>5. PromisesAreReal'
    <2>1. server[post] \in Nat /\ promised <= server[post]
      BY KeyFacts DEF IndInv, Types, PromisesAreReal
    <2>2. server'[post] \in Nat /\ promised' <= server'[post] /\ confirmed' = 0
      BY <1>1, <2>1
    <2> QED
      BY <2>2 DEF PromisesAreReal
  <1>6. EditsOutliveTheSession'
    BY <1>1 DEF IndInv, EditsOutliveTheSession
  <1> QED
    BY <1>1, <1>3, <1>4, <1>5, <1>6
    DEF IndInv, OpShape, MutationHasTheLock, SeenIsThere, EditGoesOn

LEMMA RestartStep ==
    ASSUME IndInv, Restart
    PROVE  IndInv'
  <1>1. /\ reads' = {} /\ op' = None /\ confirmed' = 0 /\ deleted' = FALSE /\ overtaken' = FALSE
        /\ UNCHANGED <<rows, server, clock, promised, spoiled>>
    BY DEF Restart, table
  <1>2. Types'
    BY <1>1, KeyFacts DEF IndInv, Types
  <1>3. PromisesAreReal'
    <2>1. server[post] \in Nat
      BY KeyFacts DEF IndInv, Types
    <2> QED
      BY <1>1, <2>1 DEF IndInv, PromisesAreReal
  <1>4. EditsOutliveTheSession'
    BY <1>1 DEF IndInv, EditsOutliveTheSession
  <1> QED
    BY <1>1, <1>2, <1>3, <1>4 DEF IndInv, OpShape, MutationHasTheLock, SeenIsThere, EditGoesOn

(* What has to be shown of a step that leaves the reads and what is        *)
(* confirmed alone.                                                        *)
LEMMA MutationMoves ==
    ASSUME IndInv, op # None, UNCHANGED <<server, confirmed, deleted, reads, clock>>,
           Types', OpShape', SeenIsThere', EditsOutliveTheSession', EditGoesOn',
           promised' \in {promised, confirmed},
           promised' = confirmed => confirmed # 0 \/ promised' = promised
    PROVE  IndInv'
  <1>1. promised \in Nat /\ confirmed \in Nat /\ server[post] \in Nat
    BY KeyFacts DEF IndInv, Types
  <1>2. PromisesAreReal'
    BY <1>1 DEF IndInv, PromisesAreReal
  <1>3. \A r \in reads : r.at \in {"queued", "storing"} => r.aborted
    BY DEF IndInv, MutationHasTheLock
  <1>4. (\A r \in reads : ReadShape(r) /\ ReadKeepsPromise(r))'
    <2> SUFFICES ASSUME NEW r \in reads PROVE ReadShape(r)' /\ ReadKeepsPromise(r)'
      OBVIOUS
    <2>1. ReadShape(r)'
      BY DEF IndInv, ReadShape
    <2>2. r.at = "queued" => r.aborted
      BY <1>3
    <2>3. r.key = post /\ r.at = "fetched" /\ confirmed = 0 => r.got >= promised'
      BY DEF IndInv, ReadKeepsPromise
    <2> QED
      BY <2>1, <2>2, <2>3 DEF ReadKeepsPromise
  <1> QED
    BY <1>2, <1>3, <1>4 DEF IndInv, MutationHasTheLock

LEMMA TailOfTodo ==
    ASSUME NEW S, NEW todo \in Seq(S), Len(todo) > 1
    PROVE  Tail(todo) \in Seq(S) /\ Tail(todo) # <<>>
  <1>1. todo # <<>> /\ Len(todo) \in Nat
    OBVIOUS
  <1>2. Tail(todo) \in Seq(S) /\ Len(Tail(todo)) = Len(todo) - 1
    BY <1>1, HeadTailProperties
  <1>3. Len(Tail(todo)) # 0
    BY <1>1, <1>2
  <1> QED
    BY <1>2, <1>3

(* The mutation goes on with the next row, or ends and promises what it    *)
(* confirmed: by then the row of the post has it.                          *)
LEMMA GoesOnStep ==
    ASSUME IndInv, op # None, GoesOn,
           UNCHANGED <<rows, server, confirmed, deleted, reads, clock>>,
           spoiled' \in BOOLEAN, overtaken' \in BOOLEAN,
           op.kind = "edit" =>
               spoiled' = TRUE \/ rows[post] = None \/ rows[post].entity = confirmed,
           op.kind # "edit" /\ spoiled = TRUE => spoiled' = TRUE
    PROVE  IndInv'
  <1>1. CASE Len(op.todo) > 1
    <2>1. /\ op' = [op EXCEPT !.todo = Tail(op.todo), !.at = "reading", !.seen = None, !.row = None]
          /\ promised' = promised
      BY <1>1 DEF GoesOn
    <2>2. op.kind = "subscribe" /\ op \in Ops /\ op.todo \in Seq(Keys)
      BY <1>1, AtAKey
    <2>3. op.todo \in Seq(ListKeys)
      BY <2>2 DEF IndInv, OpShape
    <2>4. Tail(op.todo) \in Seq(Keys) /\ Tail(op.todo) \in Seq(ListKeys)
      BY <1>1, <2>2, <2>3, TailOfTodo
    <2>5. Tail(op.todo) # <<>>
      BY <1>1, <2>2, TailOfTodo
    <2>6. /\ op' \in Ops /\ op'.kind = "subscribe" /\ op'.at = "reading"
          /\ op'.todo = Tail(op.todo)
      BY <2>1, <2>2, <2>4 DEF Ops
    <2>7. Types'
      BY <2>1, <2>6 DEF IndInv, Types
    <2>8. OpShape' /\ SeenIsThere' /\ EditGoesOn'
      BY <2>4, <2>5, <2>6 DEF OpShape, SeenIsThere, EditGoesOn
    <2>9. EditsOutliveTheSession'
      BY <2>1, <2>2 DEF IndInv, EditsOutliveTheSession
    <2> QED
      BY <2>1, <2>7, <2>8, <2>9, MutationMoves
  <1>2. CASE ~ (Len(op.todo) > 1)
    <2>1. op' = None /\ promised' = IF op.kind = "edit" THEN confirmed ELSE promised
      BY <1>2 DEF GoesOn
    <2>2. Types'
      BY <2>1 DEF IndInv, Types
    <2>3. OpShape' /\ SeenIsThere' /\ EditGoesOn'
      BY <2>1 DEF OpShape, SeenIsThere, EditGoesOn
    <2>4. EditsOutliveTheSession'
      <3>1. confirmed \in Nat
        BY KeyFacts DEF IndInv, Types
      <3>2. CASE op.kind = "edit"
        BY <2>1, <3>1, <3>2 DEF EditsOutliveTheSession
      <3>3. CASE op.kind # "edit"
        BY <2>1, <3>3 DEF IndInv, EditsOutliveTheSession
      <3> QED
        BY <3>2, <3>3
    <2>5. op.kind = "edit" => confirmed # 0
      BY DEF IndInv, EditGoesOn
    <2> QED
      BY <2>1, <2>2, <2>3, <2>4, <2>5, MutationMoves
  <1> QED
    BY <1>1, <1>2

LEMMA PatchReadStep ==
    ASSUME IndInv, PatchRead
    PROVE  IndInv'
  <1> DEFINE k == Head(op.todo)
  <1>1. /\ op # None /\ op.at = "reading" /\ overtaken' = FALSE
        /\ UNCHANGED <<rows, server, confirmed, deleted, reads, clock, spoiled>>
    BY DEF PatchRead, table, mutations
  <1>2. spoiled' \in BOOLEAN /\ overtaken' \in BOOLEAN
    BY <1>1 DEF IndInv, Types
  <1>3. CASE rows[k] = None
    BY <1>1, <1>2, <1>3, AtAKey, GoesOnStep DEF PatchRead
  <1>4. CASE rows[k] # None
    <2>1. /\ op' = [op EXCEPT !.at = "queued", !.seen = rows[k], !.row = Patched(k)]
          /\ promised' = promised
      BY <1>4 DEF PatchRead
    <2>2. /\ op \in Ops /\ k \in Keys /\ rows[k] \in Rows
          /\ op.kind \in {"edit", "comment", "subscribe"}
      BY <1>1, <1>4, AtAKey DEF IndInv, Types, OpShape, Ops
    <2>3. confirmed \in Versions /\ server[comments] \in Versions
      BY KeyFacts DEF IndInv, Types
    <2>4. Patched(k) \in Rows /\ (op.kind = "edit" => Patched(k).entity = confirmed)
      BY <2>2, <2>3 DEF Patched, Rows
    <2>5. Patched(k) # None
      BY <2>4, NoneIsNothing
    <2>6. /\ op' \in Ops /\ op'.kind = op.kind /\ op'.todo = op.todo /\ op'.at = "queued"
          /\ op'.seen = rows[k] /\ op'.row = Patched(k)
      BY <2>1, <2>2, <2>4 DEF Ops
    <2> HIDE DEF k
    <2>7. Types'
      BY <1>1, <1>2, <2>1, <2>6 DEF IndInv, Types
    <2>8. op' # None
      BY <2>6, NoneIsNothing
    <2>9. OpShape'
      BY <1>1, <2>2, <2>5, <2>6 DEF IndInv, OpShape
    <2>10. SeenIsThere'
      BY <1>1, <2>6 DEF SeenIsThere, k
    <2>11. EditGoesOn'
      BY <1>1, <2>4, <2>6 DEF IndInv, EditGoesOn
    <2>12. EditsOutliveTheSession'
      BY <1>1, <2>1 DEF IndInv, EditsOutliveTheSession
    <2> QED
      BY <1>1, <2>1, <2>7, <2>9, <2>10, <2>11, <2>12, MutationMoves
  <1> QED
    BY <1>3, <1>4

LEMMA PatchWriteStep ==
    ASSUME IndInv, PatchWrite
    PROVE  IndInv'
  <1> DEFINE k == Head(op.todo)
  <1>1. /\ op # None /\ op.at = "queued" /\ overtaken' = FALSE
        /\ rows' = [rows EXCEPT ![k] = op.row]
        /\ op' = [op EXCEPT !.at = "storing", !.seen = None, !.row = None]
        /\ spoiled' = (spoiled /\ k # post)
        /\ UNCHANGED <<server, confirmed, deleted, reads, clock, promised>>
    BY DEF PatchWrite, Upsert, mutations
  <1>2. k \in Keys /\ op \in Ops /\ op.row \in Rows /\ (op.kind = "edit" <=> k = post)
    BY <1>1, AtAKey DEF IndInv, OpShape, Ops
  <1>3. op' \in Ops /\ op'.kind = op.kind /\ op'.todo = op.todo /\ op'.at = "storing"
    BY <1>1, <1>2 DEF Ops
  <1>4. rows' \in [Keys -> Rows \union {None}] /\ spoiled' \in BOOLEAN
    BY <1>1, <1>2 DEF IndInv, Types
  <1>5. rows'[post] = IF k = post THEN op.row ELSE rows[post]
    BY <1>1, <1>2, KeyFacts DEF IndInv, Types
  <1> HIDE DEF k
  <1>6. Types'
    BY <1>1, <1>3, <1>4 DEF IndInv, Types
  <1>7. op' # None
    BY <1>3, NoneIsNothing
  <1>8. OpShape' /\ SeenIsThere'
    BY <1>1, <1>3 DEF IndInv, OpShape, SeenIsThere
  <1>9. op.kind = "edit" => op.row.entity = confirmed /\ confirmed # 0
    BY <1>1 DEF IndInv, EditGoesOn
  <1>10. EditGoesOn'
    BY <1>1, <1>2, <1>3, <1>5, <1>9 DEF EditGoesOn
  <1>11. EditsOutliveTheSession'
    <2>1. confirmed # 0 => confirmed >= promised
      <3>1. confirmed \in Nat /\ promised \in Nat
        BY KeyFacts DEF IndInv, Types
      <3> QED
        BY <3>1 DEF IndInv, PromisesAreReal
    <2>2. CASE k = post
      BY <1>1, <1>2, <1>5, <1>9, <2>1, <2>2 DEF EditsOutliveTheSession
    <2>3. CASE k # post
      BY <1>1, <1>5, <2>3 DEF IndInv, EditsOutliveTheSession
    <2> QED
      BY <2>2, <2>3
  <1> QED
    BY <1>1, <1>6, <1>8, <1>10, <1>11, MutationMoves

LEMMA PatchEnds ==
    ASSUME IndInv, PatchFails \/ PatchReturns
    PROVE  IndInv'
  <1>1. CASE PatchFails
    <2>1. /\ op # None /\ GoesOn /\ overtaken' = FALSE
          /\ spoiled' = (spoiled \/ Head(op.todo) = post)
          /\ UNCHANGED <<rows, server, confirmed, deleted, reads, clock>>
      BY <1>1 DEF PatchFails, table, mutations
    <2>2. spoiled' \in BOOLEAN /\ overtaken' \in BOOLEAN
      BY <2>1 DEF IndInv, Types
    <2> QED
      BY <2>1, <2>2, AtAKey, GoesOnStep
  <1>2. CASE PatchReturns
    <2>1. /\ op # None /\ op.at = "storing" /\ GoesOn
          /\ UNCHANGED <<rows, server, confirmed, deleted, reads, clock, spoiled, overtaken>>
      BY <1>2 DEF PatchReturns, table, mutations
    <2>2. spoiled' \in BOOLEAN /\ overtaken' \in BOOLEAN
      BY <2>1 DEF IndInv, Types
    <2>3. op.kind = "edit" => rows[post] = None \/ rows[post].entity = confirmed
      BY <2>1 DEF IndInv, EditGoesOn
    <2> QED
      BY <2>1, <2>2, <2>3, GoesOnStep
  <1> QED
    BY <1>1, <1>2

-----------------------------------------------------------------------------
(* A mutation that was done takes the lock, under which no read writes any *)
(* more.                                                                   *)
LEMMA MutationBegins ==
    ASSUME IndInv, LockIsFree, UNCHANGED <<rows, reads, clock, spoiled, overtaken>>,
           NEW mutation \in Ops, Begins(mutation),
           server' \in [Keys -> Versions], server'[comments] \in {0, 1},
           confirmed' \in Versions, deleted' \in BOOLEAN,
           PromisesAreReal',
           \/ promised' = promised /\ (confirmed' # 0 \/ confirmed' = confirmed)
           \/ promised' = 0,
           mutation.todo # <<>>,
           mutation.kind = "edit" =>
               mutation.todo = <<post>> /\ mutation.at = "reading" /\ confirmed' # 0,
           mutation.kind \in {"delete", "comment"} => mutation.todo = <<comments>>,
           mutation.kind = "subscribe" => mutation.todo \in Seq(ListKeys),
           mutation.kind = "delete" => mutation.at # "reading",
           mutation.at = "queued" => mutation.kind = "delete" /\ mutation.row # None
    PROVE  IndInv'
  <1>1. op' \in {mutation, None} /\ op = None
    BY DEF Begins, LockIsFree
  <1>2. \A r \in reads : r.at \in {"queued", "storing"} => r.aborted
    BY DEF LockIsFree
  <1>3. promised \in Nat /\ (rows[post] # None => rows[post].entity \in Nat)
    BY KeyFacts DEF IndInv, Types, Rows
  <1>4. \A r \in reads : r.got \in Nat
    BY KeyFacts DEF IndInv, Types, Reads
  <1>5. Types'
    <2>1. promised' \in Versions
      BY KeyFacts DEF IndInv, Types
    <2> QED
      BY <1>1, <2>1 DEF IndInv, Types
  <1>6. (\A r \in reads : ReadShape(r) /\ ReadKeepsPromise(r))'
    <2> SUFFICES ASSUME NEW r \in reads PROVE ReadShape(r)' /\ ReadKeepsPromise(r)'
      OBVIOUS
    <2>1. ReadShape(r)'
      BY DEF IndInv, ReadShape
    <2>2. r.at = "queued" => r.aborted
      BY <1>2
    <2>3. r.key = post /\ r.at = "fetched" /\ confirmed' = 0 => r.got >= promised'
      BY <1>3, <1>4 DEF IndInv, ReadKeepsPromise
    <2> QED
      BY <2>1, <2>2, <2>3 DEF ReadKeepsPromise
  <1>7. OpShape' /\ SeenIsThere' /\ EditGoesOn'
    BY <1>1 DEF OpShape, SeenIsThere, EditGoesOn
  <1>8. MutationHasTheLock'
    BY <1>2 DEF MutationHasTheLock
  <1>9. EditsOutliveTheSession'
    BY <1>3 DEF IndInv, EditsOutliveTheSession
  <1> QED
    BY <1>5, <1>6, <1>7, <1>8, <1>9 DEF IndInv

LEMMA ServerFacts ==
    ASSUME IndInv
    PROVE  /\ server \in [Keys -> Versions] /\ server[comments] \in {0, 1}
           /\ server[post] \in Nat /\ confirmed \in Nat /\ promised \in Nat
           /\ promised <= server[post] /\ confirmed <= server[post]
           /\ confirmed \in Versions /\ deleted \in BOOLEAN
           /\ clock \in 0 .. MaxClock
  BY KeyFacts DEF IndInv, Types, PromisesAreReal

(* What Patches makes is a mutation that begins by reading.                *)
LEMMA PatchesAreOps ==
    ASSUME NEW kind \in {"edit", "comment", "subscribe"}, NEW todo \in Seq(Keys)
    PROVE  /\ Patches(kind, todo) \in Ops
           /\ Patches(kind, todo).kind = kind /\ Patches(kind, todo).todo = todo
           /\ Patches(kind, todo).at = "reading"
  BY DEF Patches, Ops

(* The server alone has done something.                                    *)
LEMMA ServerMoves ==
    ASSUME IndInv,
           UNCHANGED <<rows, confirmed, deleted, reads, op, clock, promised, spoiled, overtaken>>,
           server' \in [Keys -> Versions], server'[comments] \in {0, 1}, PromisesAreReal'
    PROVE  IndInv'
  <1>1. Types'
    BY DEF IndInv, Types
  <1>2. (\A r \in reads : ReadShape(r) /\ ReadKeepsPromise(r))'
    BY DEF IndInv, ReadShape, ReadKeepsPromise
  <1> QED
    BY <1>1, <1>2
    DEF IndInv, OpShape, MutationHasTheLock, SeenIsThere, EditsOutliveTheSession, EditGoesOn

LEMMA MutateStep ==
    ASSUME IndInv, Mutate
    PROVE  IndInv'
  <1>1. LockIsFree /\ UNCHANGED <<rows, reads, clock, spoiled, overtaken>>
    BY DEF Mutate, table
  <1>2. <<post>> \in Seq(Keys) /\ <<comments>> \in Seq(Keys) /\ Listings \in Seq(Keys)
    BY KeyFacts, EntityConstants
  <1>3. CASE EditPost
    <2> DEFINE v == server[post] + 1
               mutation == Patches("edit", <<post>>)
    <2>1. /\ server[post] \in 1 .. MaxVersion - 1
          /\ server' = [server EXCEPT ![post] = v]
          /\ UNCHANGED <<deleted, promised>>
      BY <1>3 DEF EditPost
    <2>2. v \in Versions /\ v # 0
      BY <2>1, KeyFacts DEF Versions
    <2>3. /\ server' \in [Keys -> Versions] /\ server'[comments] = server[comments]
          /\ server'[post] = v
      BY <2>1, <2>2, ServerFacts, KeyFacts
    <2>4. mutation \in Ops /\ mutation.kind = "edit" /\ mutation.todo = <<post>>
          /\ mutation.at = "reading"
      BY <1>2, PatchesAreOps
    <2> HIDE DEF mutation
    <2>5. mutation.todo # <<>>
      BY <2>4
    <2>6. server'[comments] \in {0, 1} /\ deleted' \in BOOLEAN
      BY <2>1, <2>3, ServerFacts
    <2>7. CASE confirmed' = server'[post] /\ Begins(mutation)
      <3>1. PromisesAreReal'
        BY <2>1, <2>3, <2>7, ServerFacts DEF PromisesAreReal
      <3>2. confirmed' # 0 /\ promised' = promised /\ confirmed' \in Versions
        BY <2>1, <2>2, <2>3, <2>7
      <3> HIDE DEF v
      <3> QED
        BY <1>1, <2>3, <2>4, <2>5, <2>6, <2>7, <3>1, <3>2, MutationBegins
    <2>8. CASE UNCHANGED <<confirmed, op>>
      <3>1. PromisesAreReal'
        BY <2>1, <2>3, <2>8, ServerFacts DEF IndInv, PromisesAreReal
      <3> QED
        BY <1>1, <2>1, <2>3, <2>6, <2>8, <3>1, ServerMoves
    <2> QED
      BY <1>3, <2>7, <2>8 DEF EditPost, mutation
  <1>4. CASE DeletePost
    <2> DEFINE mutation ==
                   [Patches("delete", <<comments>>) EXCEPT !.at = "queued", !.row = Fresh(0)]
    <2>1. /\ server' = [server EXCEPT ![post] = 0, ![comments] = 0]
          /\ confirmed' = 0 /\ deleted' = TRUE /\ promised' = 0 /\ Begins(mutation)
      BY <1>4 DEF DeletePost
    <2>2. server' \in [Keys -> Versions] /\ server'[comments] = 0 /\ server'[post] = 0
      BY <2>1, ServerFacts, KeyFacts
    <2>3. PromisesAreReal'
      BY <2>1, <2>2 DEF PromisesAreReal
    <2>4. Fresh(0) \in Rows
      BY ServerFacts, KeyFacts DEF Fresh, Rows
    <2>5. Fresh(0) # None
      BY <2>4, NoneIsNothing
    <2>6. /\ mutation \in Ops /\ mutation.kind = "delete" /\ mutation.todo = <<comments>>
          /\ mutation.at = "queued" /\ mutation.row = Fresh(0)
      BY <1>2, <2>4 DEF Patches, Ops
    <2> HIDE DEF mutation
    <2> QED
      BY <1>1, <2>1, <2>2, <2>3, <2>5, <2>6, KeyFacts, MutationBegins
  <1>5. CASE MutateComment
    <2> DEFINE mutation == Patches("comment", <<comments>>)
    <2>1. /\ server' = [server EXCEPT ![comments] = 1 - server[comments]]
          /\ UNCHANGED <<confirmed, deleted, promised>> /\ Begins(mutation)
      BY <1>5 DEF MutateComment, mutations
    <2>2. 1 - server[comments] \in {0, 1}
      BY ServerFacts
    <2>3. /\ server' \in [Keys -> Versions] /\ server'[comments] \in {0, 1}
          /\ server'[post] = server[post]
      BY <2>1, <2>2, ServerFacts, KeyFacts
    <2>4. PromisesAreReal'
      BY <2>1, <2>3 DEF IndInv, PromisesAreReal
    <2>5. mutation \in Ops /\ mutation.kind = "comment" /\ mutation.todo = <<comments>>
          /\ mutation.at = "reading"
      BY <1>2, PatchesAreOps
    <2>6. server' \in [Keys -> Versions] /\ server'[comments] \in {0, 1}
      BY <2>3
    <2>7. confirmed' \in Versions /\ deleted' \in BOOLEAN
      BY <2>1, ServerFacts
    <2>8. mutation.todo # <<>>
      BY <2>5
    <2> HIDE DEF mutation
    <2> QED
      BY <1>1, <2>1, <2>4, <2>5, <2>6, <2>7, <2>8, MutationBegins
  <1>6. CASE Subscribe
    <2> DEFINE mutation == Patches("subscribe", Listings)
    <2>1. UNCHANGED <<server, confirmed, deleted, promised>> /\ Begins(mutation)
      BY <1>6 DEF Subscribe, mutations
    <2>2. PromisesAreReal'
      BY <2>1 DEF IndInv, PromisesAreReal
    <2>3. mutation \in Ops /\ mutation.kind = "subscribe" /\ mutation.todo = Listings
          /\ mutation.at = "reading"
      BY <1>2, PatchesAreOps
    <2> HIDE DEF mutation
    <2> QED
      BY <1>1, <2>1, <2>2, <2>3, ServerFacts, KeyFacts, MutationBegins
  <1> QED
    BY <1>3, <1>4, <1>5, <1>6 DEF Mutate

LEMMA UnconfirmedStep ==
    ASSUME IndInv, MutateUnconfirmed
    PROVE  IndInv'
  <1> DEFINE v == server[post] + 1
  <1>1. /\ server[post] \in 1 .. MaxVersion - 1
        /\ server' = [server EXCEPT ![post] = v]
        /\ UNCHANGED <<rows, confirmed, deleted, reads, op, clock, promised, spoiled, overtaken>>
    BY DEF MutateUnconfirmed, table, mutations, history
  <1>2. v \in Versions
    BY <1>1, KeyFacts DEF Versions
  <1>3. /\ server' \in [Keys -> Versions] /\ server'[comments] = server[comments]
        /\ server'[post] = v
    BY <1>1, <1>2, ServerFacts, KeyFacts
  <1>4. PromisesAreReal'
    BY <1>1, <1>3, ServerFacts DEF IndInv, PromisesAreReal
  <1> QED
    BY <1>1, <1>3, <1>4, ServerFacts, ServerMoves

LEMMA NextInvariant == IndInv /\ [Next]_vars => IndInv'
  <1> SUFFICES ASSUME IndInv, [Next]_vars PROVE IndInv'
    OBVIOUS
  <1>1. ASSUME NEW r \in reads, ReadStep(r) PROVE IndInv'
    <2>1. CASE FetchFails(r) \/ StoreFails(r) \/ StoreReturns(r)
      BY <2>1, ReadEnds DEF FetchFails, StoreFails, StoreReturns
    <2> QED
      BY <1>1, <2>1, FetchedStep, RecordStep, StoreStep DEF ReadStep
  <1>2. CASE App
    BY <1>2, ReadBegins, AbortStep, MutateStep, UnconfirmedStep, LogoutStep DEF App
  <1>3. CASE PatchStep
    BY <1>3, PatchReadStep, PatchWriteStep, PatchEnds DEF PatchStep
  <1>4. CASE TimePasses
    <2>1. /\ clock' = clock + 1 /\ clock < MaxClock
          /\ UNCHANGED <<table, server, mutations, reads, op, history>>
      BY <1>4 DEF TimePasses
    <2>2. clock' \in 0 .. MaxClock
      BY <2>1, ServerFacts, KeyFacts
    <2> QED
      BY <2>1, <2>2, ReadsMove DEF IndInv, Types, MutationHasTheLock
  <1>5. CASE UNCHANGED vars
    <2>1. UNCHANGED <<table, server, mutations, reads, op, clock, history>>
      BY <1>5 DEF vars
    <2>2. clock' \in 0 .. MaxClock
      BY <2>1, ServerFacts
    <2> QED
      BY <2>1, <2>2, ReadsMove DEF IndInv, Types, MutationHasTheLock
  <1> QED
    BY <1>1, <1>2, <1>3, <1>4, <1>5, EvictStep, RestartStep DEF Next

-----------------------------------------------------------------------------
THEOREM Invariance == Spec => []IndInv
  BY InitInvariant, NextInvariant, PTL DEF Spec

(* Every row of the post that is written, by a read, by a mutation or by   *)
(* the eviction, keeps what the user was told was done, whatever is        *)
(* aborted, fails or is restarted (record_fresh_post and mutate in         *)
(* src/src/app/repository.rs).                                             *)
THEOREM EditsAlwaysOutlive == Spec => []EditsOutliveTheSession
  <1>1. IndInv => EditsOutliveTheSession
    BY DEF IndInv
  <1> QED
    BY <1>1, Invariance, PTL

(* No mutation writes over a row it did not read, but for what an orphaned *)
(* write put there (reconcile_entity_rows under cache_writes).             *)
THEOREM UpdatesAreNeverLost == Spec => NoUpdateIsLost
  <1>1. IndInv /\ PatchWrite /\ op.kind # "delete" =>
            rows[Head(op.todo)] \in {op.seen, None} \/ overtaken
    BY DEF IndInv, SeenIsThere, PatchWrite
  <1>2. IndInv /\ [Next]_vars =>
            [PatchWrite /\ op.kind # "delete" =>
                LET k == Head(op.todo) IN rows[k] \in {op.seen, None} \/ overtaken]_vars
    BY <1>1
  <1> QED
    BY <1>2, Invariance, PTL DEF Spec, NoUpdateIsLost
-----------------------------------------------------------------------------
(* The table: order lists each key that has a row once.  Without it the    *)
(* eviction might find no row to delete, or delete one that stays listed.  *)

Listed ==
    /\ order \in Seq(Keys)
    /\ \A k \in Keys : rows[k] # None <=> \E n \in 1 .. Len(order) : order[n] = k
    /\ \A m, n \in 1 .. Len(order) : order[m] = order[n] => m = n

LEMMA UpsertKeepsTheList ==
    ASSUME IndInv, Listed, NEW k \in Keys, NEW row \in Rows, Upsert(k, row)
    PROVE  Listed'
  <1>1. row # None /\ rows' = [rows EXCEPT ![k] = row] /\ rows \in [Keys -> Rows \union {None}]
    BY NoneIsNothing DEF Upsert, IndInv, Types
  <1>2. \A j \in Keys : rows'[j] = IF j = k THEN row ELSE rows[j]
    BY <1>1
  <1>3. CASE rows[k] # None
    <2>1. order' = order
      BY <1>3 DEF Upsert
    <2> QED
      BY <1>1, <1>2, <1>3, <2>1 DEF Listed
  <1>4. CASE rows[k] = None
    <2>1. order' = Append(order, k) /\ order \in Seq(Keys) /\ Len(order) \in Nat
      BY <1>4 DEF Upsert, Listed
    <2>2. /\ order' \in Seq(Keys) /\ Len(order') = Len(order) + 1
          /\ \A n \in 1 .. Len(order) : order'[n] = order[n]
          /\ order'[Len(order) + 1] = k
      BY <2>1
    <2>3. \A n \in 1 .. Len(order) : order[n] # k
      BY <1>4 DEF Listed
    <2>4. \A n \in 1 .. Len(order') : n = Len(order) + 1 \/ n \in 1 .. Len(order)
      BY <2>1, <2>2
    <2>5. \A n \in 1 .. Len(order) : n \in 1 .. Len(order')
      BY <2>1, <2>2
    <2>6. ASSUME NEW j \in Keys
          PROVE  rows'[j] # None <=> \E n \in 1 .. Len(order') : order'[n] = j
      <3>1. CASE j = k
        <4>1. Len(order) + 1 \in 1 .. Len(order')
          BY <2>1, <2>2
        <4> QED
          BY <1>1, <1>2, <2>2, <3>1, <4>1
      <3>2. CASE j # k
        BY <1>2, <2>2, <2>4, <2>5, <3>2 DEF Listed
      <3> QED
        BY <3>1, <3>2
    <2>7. \A m, n \in 1 .. Len(order') : order'[m] = order'[n] => m = n
      BY <2>2, <2>3, <2>4 DEF Listed
    <2> QED
      BY <2>2, <2>6, <2>7 DEF Listed
  <1> QED
    BY <1>3, <1>4

LEMMA RemoveAtPlaces ==
    ASSUME NEW S, NEW s \in Seq(S), NEW n \in 1 .. Len(s)
    PROVE  /\ RemoveAt(s, n) \in Seq(S) /\ Len(RemoveAt(s, n)) = Len(s) - 1
           /\ \A i \in 1 .. Len(s) - 1 : RemoveAt(s, n)[i] = IF i < n THEN s[i] ELSE s[i + 1]
  <1> DEFINE a == SubSeq(s, 1, n - 1)
             b == SubSeq(s, n + 1, Len(s))
  <1>1. Len(s) \in Nat /\ n \in Nat /\ 1 <= n /\ n <= Len(s)
    OBVIOUS
  <1>2. a \in Seq(S) /\ Len(a) = n - 1 /\ \A i \in 1 .. n - 1 : a[i] = s[i]
    <2>1. \A i \in 1 .. n - 1 : i \in 1 .. Len(s)
      BY <1>1
    <2>2. (n - 1) - 1 + 1 = n - 1 /\ (1 <= n - 1 \/ n - 1 = 0)
      BY <1>1
    <2>3. \A i \in 1 .. n - 1 : 1 + i - 1 = i
      BY <1>1
    <2>4. \A i \in 1 .. n - 1 : s[i] \in S
      BY <2>1
    <2> QED
      BY <1>1, <2>2, <2>3, <2>4, SubSeqProperties
  <1>3. b \in Seq(S) /\ Len(b) = Len(s) - n /\ \A i \in 1 .. Len(s) - n : b[i] = s[n + i]
    <2>1. \A i \in n + 1 .. Len(s) : s[i] \in S
      BY <1>1
    <2>2. Len(s) - (n + 1) + 1 = Len(s) - n /\ (n + 1 <= Len(s) \/ Len(s) - n = 0)
      BY <1>1
    <2>3. \A i \in 1 .. Len(s) - n : (n + 1) + i - 1 = n + i
      BY <1>1
    <2>4. n + 1 \in Nat \ {0} /\ Len(s) \in Nat
      BY <1>1
    <2>5. /\ b \in Seq(S) /\ Len(b) = IF n + 1 <= Len(s) THEN Len(s) - (n + 1) + 1 ELSE 0
          /\ \A i \in 1 .. Len(s) - (n + 1) + 1 : b[i] = s[(n + 1) + i - 1]
      BY <2>1, <2>4, SubSeqProperties
    <2> HIDE DEF b
    <2> QED
      BY <1>1, <2>2, <2>3, <2>5
  <1>4. RemoveAt(s, n) = a \o b
    BY DEF RemoveAt
  <1> HIDE DEF a, b
  <1>5. /\ a \o b \in Seq(S) /\ Len(a \o b) = Len(a) + Len(b)
        /\ \A i \in 1 .. Len(a) + Len(b) :
              (a \o b)[i] = IF i <= Len(a) THEN a[i] ELSE b[i - Len(a)]
    BY <1>2, <1>3, ConcatProperties
  <1>6. Len(a) + Len(b) = Len(s) - 1
    BY <1>1, <1>2, <1>3
  <1>7. ASSUME NEW i \in 1 .. Len(s) - 1
        PROVE  (a \o b)[i] = IF i < n THEN s[i] ELSE s[i + 1]
    <2>1. CASE i < n
      <3>1. i \in 1 .. n - 1 /\ i <= Len(a) /\ i \in 1 .. Len(a) + Len(b)
        BY <1>1, <1>2, <1>6, <2>1
      <3> QED
        BY <1>2, <1>5, <2>1, <3>1
    <2>2. CASE ~ (i < n)
      <3>1. i - (n - 1) \in 1 .. Len(s) - n /\ ~ (i <= Len(a)) /\ i \in 1 .. Len(a) + Len(b)
        BY <1>1, <1>2, <1>6, <2>2
      <3>2. n + (i - (n - 1)) = i + 1
        BY <1>1
      <3> QED
        BY <1>2, <1>3, <1>5, <2>2, <3>1, <3>2
    <2> QED
      BY <2>1, <2>2
  <1> QED
    BY <1>4, <1>5, <1>6, <1>7

LEMMA DeletionKeepsTheList ==
    ASSUME IndInv, Listed, DeleteOldest
    PROVE  Listed'
  <1>1. PICK n \in DOMAIN order : /\ rows' = [rows EXCEPT ![order[n]] = None]
                                  /\ order' = RemoveAt(order, n)
    BY DEF DeleteOldest
  <1>2. /\ order \in Seq(Keys) /\ Len(order) \in Nat /\ n \in 1 .. Len(order)
        /\ order[n] \in Keys
    BY <1>1 DEF Listed
  <1>3. /\ order' \in Seq(Keys) /\ Len(order') = Len(order) - 1
        /\ \A i \in 1 .. Len(order) - 1 : order'[i] = IF i < n THEN order[i] ELSE order[i + 1]
    BY <1>1, <1>2, RemoveAtPlaces
  <1>4. \A j \in Keys : rows'[j] = IF j = order[n] THEN None ELSE rows[j]
    BY <1>1 DEF IndInv, Types
  <1>5. \A i \in 1 .. Len(order) - 1 : i \in 1 .. Len(order) /\ i + 1 \in 1 .. Len(order)
    BY <1>2
  <1>6. ASSUME NEW i \in 1 .. Len(order) - 1
        PROVE  order'[i] # order[n]
    <2>1. i # n \/ ~ (i < n)
      BY <1>2
    <2>2. i + 1 # n \/ i < n
      BY <1>2
    <2>3. i < n => i # n
      BY <1>2
    <2> QED
      BY <1>2, <1>3, <1>5, <2>2, <2>3 DEF Listed
  <1>7. ASSUME NEW j \in Keys, rows'[j] # None
        PROVE  \E i \in 1 .. Len(order') : order'[i] = j
    <2>1. j # order[n] /\ rows[j] # None
      BY <1>4, <1>7
    <2>2. PICK m \in 1 .. Len(order) : order[m] = j
      BY <2>1 DEF Listed
    <2>3. CASE m < n
      <3>1. m \in 1 .. Len(order) - 1
        BY <1>2, <2>3
      <3> QED
        BY <1>3, <2>2, <2>3, <3>1
    <2>4. CASE ~ (m < n)
      <3>1. m # n
        BY <2>1, <2>2
      <3>2. m - 1 \in 1 .. Len(order) - 1 /\ ~ (m - 1 < n) /\ (m - 1) + 1 = m
        BY <1>2, <2>4, <3>1
      <3> QED
        BY <1>3, <2>2, <3>2
    <2> QED
      BY <2>3, <2>4
  <1>8. ASSUME NEW j \in Keys, NEW i \in 1 .. Len(order'), order'[i] = j
        PROVE  rows'[j] # None
    <2>1. i \in 1 .. Len(order) - 1
      BY <1>2, <1>3
    <2>2. j # order[n]
      BY <1>6, <1>8, <2>1
    <2>3. \E m \in 1 .. Len(order) : order[m] = j
      BY <1>3, <1>5, <1>8, <2>1
    <2> QED
      BY <1>4, <2>2, <2>3 DEF Listed
  <1>9. ASSUME NEW l \in 1 .. Len(order'), NEW m \in 1 .. Len(order'), order'[l] = order'[m]
        PROVE  l = m
    <2>1. l \in 1 .. Len(order) - 1 /\ m \in 1 .. Len(order) - 1
      BY <1>2, <1>3
    <2> DEFINE place(i) == IF i < n THEN i ELSE i + 1
    <2>2. place(l) \in 1 .. Len(order) /\ place(m) \in 1 .. Len(order)
      BY <1>5, <2>1
    <2>3. order[place(l)] = order[place(m)]
      BY <1>3, <1>9, <2>1
    <2>4. place(l) = place(m)
      BY <2>2, <2>3 DEF Listed
    <2> QED
      BY <1>2, <2>1, <2>4
  <1> QED
    BY <1>3, <1>7, <1>8, <1>9 DEF Listed

(* The steps that write the table.                                         *)
LEMMA TableSteps ==
    ASSUME IndInv, [Next]_vars
    PROVE  \/ UNCHANGED <<rows, order>>
           \/ \E k \in Keys, row \in Rows : Upsert(k, row)
           \/ DeleteOldest
  <1>1. ASSUME NEW r \in reads, Store(r)  PROVE \E k \in Keys, row \in Rows : Upsert(k, row)
    <2>1. r.key \in Keys /\ r.row \in Rows /\ Upsert(r.key, r.row)
      BY <1>1 DEF Store, IndInv, Types, ReadShape, Reads
    <2> QED
      BY <2>1
  <1>2. CASE PatchWrite
    <2>1. Head(op.todo) \in Keys /\ op.row \in Rows /\ Upsert(Head(op.todo), op.row)
      BY <1>2, AtAKey DEF PatchWrite, IndInv, OpShape, Ops
    <2> QED
      BY <2>1
  <1>3. CASE App
    BY <1>3 DEF App, Read, Abort, Mutate, MutateUnconfirmed, Logout, table
  <1>4. ASSUME NEW r \in reads, ReadStep(r), ~ Store(r)  PROVE UNCHANGED <<rows, order>>
    BY <1>4 DEF ReadStep, Fetched, FetchFails, Record, StoreFails, StoreReturns, table
  <1>5. CASE PatchStep /\ ~ PatchWrite
    BY <1>5 DEF PatchStep, PatchRead, PatchFails, PatchReturns, table
  <1>6. CASE Restart \/ TimePasses \/ UNCHANGED vars
    BY <1>6 DEF Restart, TimePasses, vars, table
  <1> QED
    BY <1>1, <1>2, <1>3, <1>4, <1>5, <1>6 DEF Next, Evict

LEMMA ListedInvariant ==
    /\ Init => Listed
    /\ IndInv /\ Listed /\ [Next]_vars => Listed'
  <1>1. ASSUME Init PROVE Listed
    BY <1>1, KeyFacts DEF Init, EmptyTable, Listed
  <1>2. ASSUME IndInv, Listed, [Next]_vars  PROVE Listed'
    <2>1. CASE UNCHANGED <<rows, order>>
      BY <1>2, <2>1 DEF Listed
    <2> QED
      BY <1>2, <2>1, TableSteps, UpsertKeepsTheList, DeletionKeepsTheList
  <1> QED
    BY <1>1, <1>2

(* The state of the store, of the server, and of what is under way.        *)
THEOREM TypeCorrect == Spec => []TypeOK
  <1>1. IndInv /\ Listed => TypeOK
    BY DEF IndInv, Types, Listed, TypeOK
  <1> QED
    BY <1>1, Invariance, ListedInvariant, InitInvariant, NextInvariant, PTL DEF Spec
-----------------------------------------------------------------------------
(* The payload of a table with one row is its size.                        *)
LEMMA PayloadOfOne ==
    ASSUME NEW k \in Keys, Stored = {k}, Bytes(k, rows[k].entity) \in Nat
    PROVE  Payload = Bytes(k, rows[k].entity)
  <1> DEFINE size(j) == Bytes(j, rows[j].entity)
             Sums(sum) == sum = [D \in SUBSET {k} |->
                             IF D = {} THEN 0
                             ELSE LET x == CHOOSE x \in D : TRUE
                                  IN  size(x) + sum[D \ {x}]]
             sum == CHOOSE sum : Sums(sum)
  <1>1. Payload = sum[{k}]
    BY DEF Payload, MapThenSumSet, MapThenFoldSet
  <1>2. SUBSET {k} = {{}, {k}} /\ (CHOOSE x \in {k} : TRUE) = k
    OBVIOUS
  <1>3. Sums([D \in SUBSET {k} |-> IF D = {} THEN 0 ELSE size(k) + 0])
    <2> DEFINE one == [D \in SUBSET {k} |-> IF D = {} THEN 0 ELSE size(k) + 0]
    <2>1. one[{}] = 0
      OBVIOUS
    <2>2. ASSUME NEW D \in SUBSET {k}
          PROVE  one[D] = IF D = {} THEN 0
                          ELSE LET x == CHOOSE x \in D : TRUE IN size(x) + one[D \ {x}]
      <3>1. CASE D = {}
        BY <3>1
      <3>2. CASE D = {k}
        <4>1. D \ {CHOOSE x \in D : TRUE} = {} /\ (CHOOSE x \in D : TRUE) = k
          BY <1>2, <3>2
        <4>2. one[D] = size(k) + 0 /\ D # {}
          BY <3>2
        <4> HIDE DEF one, size
        <4> QED
          BY <2>1, <4>1, <4>2
      <3> QED
        BY <1>2, <3>1, <3>2
    <2> QED
      BY <2>2
  <1>4. Sums(sum)
    BY <1>3
  <1> HIDE DEF sum
  <1>5. sum[{}] = 0
    BY <1>4
  <1>6. sum[{k}] = size(k) + sum[{}]
    <2>1. {k} \ {k} = {} /\ {k} # {} /\ {k} \in SUBSET {k}
      OBVIOUS
    <2>2. sum[{k}] = LET x == CHOOSE x \in {k} : TRUE IN size(x) + sum[{k} \ {x}]
      BY <1>4, <2>1
    <2> HIDE DEF size
    <2> QED
      BY <1>2, <2>1, <2>2
  <1> QED
    BY <1>1, <1>5, <1>6

-----------------------------------------------------------------------------
(* The times of the rows.  What is recorded under the lock is stored       *)
(* before anything later can be recorded, so that nothing in the table,    *)
(* and nothing an orphaned write may still bring there, is later than it.  *)

NothingAfter(at) ==
    /\ \A k \in Keys : rows[k] # None => rows[k].at <= at
    /\ \A q \in reads : q.at = "queued" => q.row.at <= at

TimesInv ==
    /\ NothingAfter(clock)
    /\ op # None /\ op.at = "queued" => op.row.at <= clock
    /\ \A r \in reads : r.at = "queued" /\ ~ r.aborted => NothingAfter(r.row.at)
    /\ op # None /\ op.kind = "delete" /\ op.at = "queued" => NothingAfter(op.row.at)
    /\ \A k \in Keys : FreshBy(k) /\ rows[k] # None =>
          \A j \in Stored : rows[j].at <= rows[k].at

LEMMA TimesAreNumbers ==
    ASSUME IndInv
    PROVE  /\ clock \in Nat
           /\ \A k \in Keys : rows[k] # None => rows[k] \in Rows /\ rows[k].at \in Nat
           /\ \A r \in reads : r.at = "queued" =>
                 r.row \in Rows /\ r.row # None /\ r.row.at \in Nat /\ r.key \in Keys
           /\ op # None /\ op.at = "queued" =>
                 op.row \in Rows /\ op.row # None /\ op.row.at \in Nat
           /\ op # None => Head(op.todo) \in Keys
  <1>1. \A row \in Rows : row.at \in Nat
    BY KeyFacts DEF Rows
  <1>2. clock \in Nat
    BY KeyFacts DEF IndInv, Types
  <1>3. \A k \in Keys : rows[k] # None => rows[k] \in Rows
    BY DEF IndInv, Types
  <1>4. \A r \in reads : r.at = "queued" => r.row \in Rows /\ r.row # None /\ r.key \in Keys
    BY DEF IndInv, Types, ReadShape, Reads
  <1>5. op # None /\ op.at = "queued" => op.row \in Rows /\ op.row # None
    BY DEF IndInv, Types, OpShape, Ops
  <1> QED
    BY <1>1, <1>2, <1>3, <1>4, <1>5, AtAKey

(* A step that stores nothing and records nothing: rows may go, reads may  *)
(* end, be aborted or begin, time may pass, and the mutation may end or    *)
(* turn to the next row.                                                   *)
LEMMA TimesStay ==
    ASSUME IndInv, TimesInv,
           \A k \in Keys : rows'[k] \in {rows[k], None},
           clock' = clock \/ clock' = clock + 1,
           \A s \in reads' : s.at = "queued" =>
               \E r \in reads : r.at = "queued" /\ r.row = s.row /\ (r.aborted => s.aborted),
           \A s \in reads' : s.at = "storing" /\ ~ s.aborted =>
               \E r \in reads : r.at = "storing" /\ ~ r.aborted /\ r.key = s.key,
           op' = op \/ op' = None \/ op'.at = "reading"
    PROVE  TimesInv'
  <1>1. clock <= clock' /\ clock \in Nat /\ clock' \in Nat
    BY TimesAreNumbers
  <1>2. \A at : NothingAfter(at) => NothingAfter(at)'
    BY DEF NothingAfter
  <1>3. NothingAfter(clock)'
    <2>1. \A k \in Keys : rows[k] # None => rows[k].at <= clock /\ rows[k].at \in Nat
      BY TimesAreNumbers DEF TimesInv, NothingAfter
    <2>2. \A r \in reads : r.at = "queued" => r.row.at <= clock /\ r.row.at \in Nat
      BY TimesAreNumbers DEF TimesInv, NothingAfter
    <2>3. \A k \in Keys : rows'[k] # None => rows'[k].at <= clock'
      BY <1>1, <2>1
    <2>4. \A s \in reads' : s.at = "queued" => s.row.at <= clock'
      BY <1>1, <2>2
    <2> QED
      BY <2>3, <2>4 DEF NothingAfter
  <1>4. (op # None /\ op.at = "queued" => op.row.at <= clock)'
    BY <1>1, TimesAreNumbers DEF TimesInv
  <1>5. (\A r \in reads : r.at = "queued" /\ ~ r.aborted => NothingAfter(r.row.at))'
    BY <1>2 DEF TimesInv
  <1>6. (op # None /\ op.kind = "delete" /\ op.at = "queued" => NothingAfter(op.row.at))'
    BY <1>2 DEF TimesInv
  <1>7. \A k \in Keys : FreshBy(k)' => FreshBy(k)
    BY DEF FreshBy
  <1>8. (\A k \in Keys : FreshBy(k) /\ rows[k] # None =>
            \A j \in Stored : rows[j].at <= rows[k].at)'
    BY <1>7 DEF TimesInv, Stored
  <1> QED
    BY <1>3, <1>4, <1>5, <1>6, <1>8 DEF TimesInv

(* Under the lock the only writes of reads are orphans.                    *)
LEMMA RecordTimes ==
    ASSUME IndInv, TimesInv, NEW r \in reads, Record(r)
    PROVE  TimesInv'
  <1> DEFINE row == Fresh(Reconciled(r))
             s == [r EXCEPT !.at = "queued", !.got = 0, !.row = row]
  <1>1. /\ op = None /\ reads' = (reads \ {r}) \union {s}
        /\ \A q \in reads : q.at \in {"queued", "storing"} => q.aborted
        /\ UNCHANGED <<rows, op, clock>>
    BY DEF Record, LockIsFree, Becomes, table
  <1>2. s.at = "queued" /\ s.row = row /\ row.at = clock /\ clock \in Nat
    BY TimesAreNumbers DEF IndInv, Types, Reads, Fresh
  <1> HIDE DEF s, row
  <1>3. \A q \in reads' : q = s \/ q \in reads
    BY <1>1
  <1>4. NothingAfter(clock)'
    BY <1>1, <1>2, <1>3 DEF TimesInv, NothingAfter
  <1>5. (\A q \in reads : q.at = "queued" /\ ~ q.aborted => NothingAfter(q.row.at))'
    BY <1>1, <1>2, <1>3, <1>4 DEF NothingAfter
  <1>6. \A k : ~ FreshBy(k)'
    BY <1>1, <1>2, <1>3 DEF FreshBy
  <1> QED
    BY <1>1, <1>4, <1>5, <1>6 DEF TimesInv

(* What a read stores while it has the lock is as late as anything else.   *)
LEMMA StoreTimes ==
    ASSUME IndInv, TimesInv, NEW r \in reads, Store(r)
    PROVE  TimesInv'
  <1> DEFINE s == [r EXCEPT !.at = "storing", !.row = None]
             at == r.row.at
  <1>1. /\ r.at = "queued" /\ reads' = (reads \ {r}) \union {s}
        /\ rows' = [rows EXCEPT ![r.key] = r.row]
        /\ op # None => op.at # "storing"
        /\ \A q \in reads : q.at # "storing"
        /\ UNCHANGED <<op, clock>>
    BY DEF Store, ConnectionIsFree, Becomes, Upsert
  <1>2. s.at = "storing" /\ s.key = r.key /\ s.aborted = r.aborted
    BY DEF IndInv, Types, Reads
  <1>3. r.row # None /\ at \in Nat /\ r.key \in Keys
    BY <1>1, TimesAreNumbers
  <1>4. \A k \in Keys : rows'[k] = IF k = r.key THEN r.row ELSE rows[k]
    BY <1>1 DEF IndInv, Types
  <1> HIDE DEF s
  <1>5. \A q \in reads' : q = s \/ q \in reads
    BY <1>1
  <1>6. \A n : NothingAfter(n) => NothingAfter(n)'
    BY <1>1, <1>2, <1>4, <1>5 DEF NothingAfter
  <1>7. (\A q \in reads : q.at = "queued" /\ ~ q.aborted => NothingAfter(q.row.at))'
    BY <1>2, <1>5, <1>6 DEF TimesInv
  <1>8. ASSUME NEW k \in Keys, FreshBy(k)', NEW j \in Keys, rows'[j] # None
        PROVE  rows'[j].at <= rows'[k].at
    <2>1. k = r.key /\ ~ r.aborted
      BY <1>1, <1>2, <1>5, <1>8 DEF FreshBy
    <2>2. NothingAfter(at)
      BY <1>1, <2>1 DEF TimesInv
    <2> QED
      BY <1>3, <1>4, <1>8, <2>1, <2>2 DEF NothingAfter
  <1>9. NothingAfter(clock)' /\ (op # None /\ op.at = "queued" => op.row.at <= clock)'
    BY <1>1, <1>6 DEF TimesInv
  <1>10. (op # None /\ op.kind = "delete" /\ op.at = "queued" => NothingAfter(op.row.at))'
    BY <1>1, <1>6 DEF TimesInv
  <1> QED
    BY <1>7, <1>8, <1>9, <1>10 DEF TimesInv, Stored

LEMMA PatchWriteTimes ==
    ASSUME IndInv, TimesInv, PatchWrite
    PROVE  TimesInv'
  <1> DEFINE k == Head(op.todo)
             at == op.row.at
  <1>1. /\ op # None /\ op.at = "queued"
        /\ rows' = [rows EXCEPT ![k] = op.row]
        /\ op' = [op EXCEPT !.at = "storing", !.seen = None, !.row = None]
        /\ UNCHANGED <<reads, clock>>
    BY DEF PatchWrite, Upsert
  <1>2. op'.at = "storing" /\ op'.kind = op.kind /\ op'.todo = op.todo
    BY <1>1 DEF IndInv, Types, Ops
  <1>3. k \in Keys /\ op.row # None /\ at \in Nat /\ at <= clock
    BY <1>1, TimesAreNumbers DEF TimesInv
  <1>4. \A j \in Keys : rows'[j] = IF j = k THEN op.row ELSE rows[j]
    BY <1>1 DEF IndInv, Types
  <1>5. \A q \in reads : q.at \in {"queued", "storing"} => q.aborted
    BY <1>1 DEF IndInv, MutationHasTheLock
  <1> HIDE DEF k
  <1>6. NothingAfter(clock)'
    BY <1>1, <1>3, <1>4 DEF TimesInv, NothingAfter
  <1>7. ASSUME NEW i \in Keys, FreshBy(i)', NEW j \in Keys, rows'[j] # None
        PROVE  rows'[j].at <= rows'[i].at
    <2>1. i = k /\ op.kind = "delete"
      BY <1>1, <1>2, <1>5, <1>7 DEF FreshBy, k
    <2>2. NothingAfter(at)
      BY <1>1, <2>1 DEF TimesInv
    <2> QED
      BY <1>3, <1>4, <1>7, <2>1, <2>2 DEF NothingAfter
  <1> QED
    BY <1>1, <1>2, <1>5, <1>6, <1>7 DEF TimesInv, Stored

LEMMA PatchReadTimes ==
    ASSUME IndInv, TimesInv, PatchRead
    PROVE  TimesInv'
  <1> DEFINE k == Head(op.todo)
  <1>1. op # None /\ op.at = "reading" /\ UNCHANGED <<rows, reads, clock>>
    BY DEF PatchRead, table
  <1>2. CASE rows[k] = None
    <2>1. op' = None \/ op' = [op EXCEPT !.todo = Tail(@), !.at = "reading", !.seen = None, !.row = None]
      BY <1>2 DEF PatchRead, GoesOn
    <2>2. op' = None \/ op'.at = "reading"
      BY <1>1, <2>1 DEF IndInv, Types, Ops
    <2> QED
      BY <1>1, <2>2, TimesStay
  <1>3. CASE rows[k] # None
    <2>1. op' = [op EXCEPT !.at = "queued", !.seen = rows[k], !.row = Patched(k)]
      BY <1>3 DEF PatchRead
    <2>2. /\ op \in Ops /\ op.kind \in {"edit", "comment", "subscribe"}
          /\ k \in Keys /\ rows[k] \in Rows
      BY <1>1, <1>3, AtAKey DEF IndInv, Types, OpShape, Ops
    <2>3. Patched(k).at = rows[k].at
      BY <2>2 DEF Patched, Rows
    <2>4. op'.kind = op.kind /\ op'.at = "queued" /\ op'.row = Patched(k)
      BY <2>1, <2>2 DEF Ops
    <2> HIDE DEF k
    <2>5. op'.row.at <= clock'
      BY <1>1, <1>3, <2>2, <2>3, <2>4 DEF TimesInv, NothingAfter
    <2>6. \A j : FreshBy(j)' => FreshBy(j)
      BY <1>1, <2>4 DEF FreshBy
    <2>7. \A n : NothingAfter(n) => NothingAfter(n)'
      BY <1>1 DEF NothingAfter
    <2> QED
      BY <1>1, <2>2, <2>4, <2>5, <2>6, <2>7 DEF TimesInv, Stored
  <1> QED
    BY <1>2, <1>3

LEMMA MutateTimes ==
    ASSUME IndInv, TimesInv, Mutate
    PROVE  TimesInv'
  <1>1. /\ op = None /\ UNCHANGED <<rows, reads, clock>>
        /\ \A r \in reads : r.at \in {"queued", "storing"} => r.aborted
    BY DEF Mutate, LockIsFree, table
  <1>2. CASE EditPost \/ MutateComment \/ Subscribe
    <2>1. op' = op \/ op' = None \/ op'.at = "reading"
      BY <1>2 DEF EditPost, MutateComment, Subscribe, Begins, Patches
    <2> QED
      BY <1>1, <2>1, TimesStay
  <1>3. CASE DeletePost
    <2> DEFINE mutation ==
                   [Patches("delete", <<comments>>) EXCEPT !.at = "queued", !.row = Fresh(0)]
    <2>1. op' = mutation \/ op' = None
      BY <1>3 DEF DeletePost, Begins
    <2>2. /\ mutation.at = "queued" /\ mutation.row.at = clock /\ clock \in Nat
      BY TimesAreNumbers DEF Patches, Fresh
    <2> HIDE DEF mutation
    <2>3. \A n : NothingAfter(n) => NothingAfter(n)'
      BY <1>1 DEF NothingAfter
    <2>4. \A k : ~ FreshBy(k)'
      BY <1>1, <2>1, <2>2 DEF FreshBy
    <2> QED
      BY <1>1, <2>1, <2>2, <2>3, <2>4 DEF TimesInv
  <1> QED
    BY <1>2, <1>3 DEF Mutate

LEMMA AbortTimes ==
    ASSUME IndInv, NEW aborted \in SUBSET reads, NEW s \in AfterAbort(aborted)
    PROVE  /\ s.at = "queued" =>
                 \E r \in reads : r.at = "queued" /\ r.row = s.row /\ (r.aborted => s.aborted)
           /\ s.at = "storing" /\ ~ s.aborted =>
                 \E r \in reads : r.at = "storing" /\ ~ r.aborted /\ r.key = s.key
  <1>1. CASE s \in reads
    BY <1>1
  <1>2. CASE s \notin reads
    <2>1. PICK r \in reads : s = [r EXCEPT !.aborted = TRUE]
      BY <1>2 DEF AfterAbort
    <2>2. s.at = r.at /\ s.row = r.row /\ s.aborted
      BY <2>1 DEF IndInv, Types, Reads
    <2> QED
      BY <2>2
  <1> QED
    BY <1>1, <1>2

LEMMA TimesInvariant ==
    /\ Init => TimesInv
    /\ IndInv /\ TimesInv /\ [Next]_vars => TimesInv'
  <1>1. ASSUME Init PROVE TimesInv
    <2>1. /\ \A k \in Keys : rows[k] = None
          /\ reads = {} /\ op = None
      BY <1>1 DEF Init, EmptyTable
    <2> QED
      BY <2>1 DEF TimesInv, NothingAfter, FreshBy
  <1>2. ASSUME IndInv, TimesInv, [Next]_vars  PROVE TimesInv'
    <2>1. ASSUME NEW r \in reads, ReadStep(r)  PROVE TimesInv'
      <3>1. CASE Record(r) \/ Store(r)
        BY <1>2, <3>1, RecordTimes, StoreTimes
      <3>2. CASE Fetched(r) \/ FetchFails(r) \/ StoreFails(r) \/ StoreReturns(r)
        <4>1. UNCHANGED <<rows, op, clock>>
          BY <3>2 DEF Fetched, FetchFails, StoreFails, StoreReturns, table
        <4>2. CASE Ends(r)
          <5>1. reads' \subseteq reads
            BY <4>2 DEF Ends
          <5> QED
            BY <1>2, <4>1, <5>1, TimesStay
        <4>3. CASE ~ Ends(r)
          <5>1. \A s \in reads' : s \in reads \/ s.at = "fetched"
            BY <1>2, <3>2, <4>3 DEF Fetched, FetchFails, StoreFails, StoreReturns, Becomes,
                                    IndInv, Types, Reads
          <5> QED
            BY <1>2, <4>1, <5>1, TimesStay
        <4> QED
          BY <4>2, <4>3
      <3> QED
        BY <2>1, <3>1, <3>2 DEF ReadStep
    <2>2. ASSUME NEW k \in Keys, Read(k) \/ Abort(k)  PROVE TimesInv'
      <3>1. ReadsOf(k) \in SUBSET reads
        BY DEF ReadsOf
      <3>2. /\ UNCHANGED <<rows, op, clock>>
            /\ \A s \in reads' : s \in AfterAbort(ReadsOf(k)) \/ s.at = "fetching"
        BY <2>2 DEF Read, Abort, table
      <3> QED
        BY <1>2, <3>1, <3>2, AbortTimes, TimesStay
    <2>3. CASE Logout
      <3>1. UNCHANGED <<rows, op, clock>> /\ reads' = AfterAbort(reads)
        BY <2>3 DEF Logout, table
      <3> QED
        BY <1>2, <3>1, AbortTimes, TimesStay
    <2>4. CASE MutateUnconfirmed \/ TimePasses \/ UNCHANGED vars
      <3>1. UNCHANGED <<rows, reads, op>> /\ (clock' = clock \/ clock' = clock + 1)
        BY <2>4 DEF MutateUnconfirmed, TimePasses, vars, table
      <3> QED
        BY <1>2, <3>1, TimesStay
    <2>5. CASE Restart
      <3>1. reads' = {} /\ op' = None /\ UNCHANGED <<rows, clock>>
        BY <2>5 DEF Restart, table
      <3> QED
        BY <1>2, <3>1, TimesStay
    <2>6. CASE Evict
      <3>1. PICK k : rows' = [rows EXCEPT ![k] = None]
        BY <2>6 DEF Evict, DeleteOldest
      <3>2. \A j \in Keys : rows'[j] \in {rows[j], None}
        BY <1>2, <3>1 DEF IndInv, Types
      <3>3. UNCHANGED <<reads, op, clock>>
        BY <2>6 DEF Evict
      <3> QED
        BY <1>2, <3>2, <3>3, TimesStay
    <2>7. CASE PatchFails \/ PatchReturns
      <3>1. op # None /\ GoesOn /\ UNCHANGED <<rows, reads, clock>>
        BY <2>7 DEF PatchFails, PatchReturns, table
      <3>2. op' = None \/ op'.at = "reading"
        BY <1>2, <3>1 DEF GoesOn, IndInv, Types, Ops
      <3> QED
        BY <1>2, <3>1, <3>2, TimesStay
    <2> QED
      BY <1>2, <2>1, <2>2, <2>3, <2>4, <2>5, <2>6, <2>7, MutateTimes, PatchReadTimes,
         PatchWriteTimes DEF Next, App, PatchStep
  <1> QED
    BY <1>1, <1>2

(* The row that was just recorded under the lock is evicted by its own     *)
(* write only when another is of the same second, or when it alone exceeds *)
(* the cap (record_fresh_post and its like in src/src/app/repository.rs,   *)
(* evict_oldest_locked in src/src/cache/store.rs): none is later than it,  *)
(* and a row with no other is all of the payload.                          *)
THEOREM FreshRowsSurvive == Spec => FreshRowSurvives
  <1>1. ASSUME IndInv, TimesInv, [Next]_vars, NEW k \in Keys, FreshBy(k),
               rows[k] # None, rows'[k] = None,
               \A j \in Stored \ {k} : rows[j].at # rows[k].at
        PROVE  Bytes(k, rows[k].entity) > Cap
    <2>1. rows \in [Keys -> Rows \union {None}]
      BY <1>1 DEF IndInv, Types
    <2>2. DeleteOldest
      <3>1. ~ UNCHANGED <<rows, order>>
        BY <1>1
      <3>2. ASSUME NEW j \in Keys, NEW row \in Rows, Upsert(j, row)  PROVE FALSE
        <4>1. rows'[k] = IF k = j THEN row ELSE rows[k]
          BY <2>1, <3>2 DEF Upsert
        <4> QED
          BY <1>1, <4>1, NoneIsNothing
      <3> QED
        BY <1>1, <3>1, <3>2, TableSteps
    <2>3. IsOldest(k) /\ ~ Fits
      <3>1. PICK n \in DOMAIN order : IsOldest(order[n]) /\ rows' = [rows EXCEPT ![order[n]] = None]
        BY <2>2 DEF DeleteOldest
      <3>2. order[n] = k
        BY <1>1, <2>1, <3>1
      <3> QED
        BY <2>2, <3>1, <3>2 DEF DeleteOldest
    <2>4. \A j \in Stored : rows[j] \in Rows /\ rows[j].at \in Nat
      BY <2>1, KeyFacts DEF Stored, Rows
    <2>5. k \in Stored
      BY <1>1 DEF Stored
    <2>6. Stored = {k}
      <3>1. ASSUME NEW j \in Stored \ {k}  PROVE FALSE
        <4>1. rows[k].at < rows[j].at \/ rows[k].at = rows[j].at
          BY <2>3 DEF IsOldest
        <4>2. rows[j].at <= rows[k].at
          BY <1>1 DEF TimesInv
        <4> QED
          BY <1>1, <2>4, <2>5, <4>1, <4>2
      <3> QED
        BY <2>5, <3>1
    <2>7. Bytes(k, rows[k].entity) \in Nat
      <3>1. rows[k].entity \in Versions
        BY <2>4, <2>5 DEF Rows
      <3> QED
        BY <3>1, SizeConstants
    <2>8. Cap # None /\ ~ (Bytes(k, rows[k].entity) <= Cap)
      BY <2>3, <2>6, <2>7, PayloadOfOne DEF Fits
    <2> QED
      BY <2>7, <2>8, SizeConstants
  <1>2. IndInv /\ TimesInv /\ [Next]_vars =>
            [\A k \in Keys : FreshBy(k) /\ rows[k] # None /\ rows'[k] = None =>
                \/ Bytes(k, rows[k].entity) > Cap
                \/ \E j \in Stored \ {k} : rows[j].at = rows[k].at]_vars
    BY <1>1
  <1> QED
    BY <1>2, InitInvariant, NextInvariant, TimesInvariant, PTL DEF Spec, FreshRowSurvives

-----------------------------------------------------------------------------
LEMMA LeastNumber ==
    ASSUME NEW T \in SUBSET Nat, T # {}
    PROVE  \E n \in T : \A m \in T : n <= m
  <1>1. \E x \in T : \A y \in T : ~ (<<y, x>> \in OpToRel(<, Nat))
    BY WFMin, NatLessThanWellFounded DEF OpToRel
  <1>2. PICK n \in T : \A m \in T : ~ (m < n)
    BY <1>1 DEF OpToRel
  <1> QED
    BY <1>2

(* Which row the eviction deletes is determined, and there is one.         *)
OneIsOldest ==
    Stored # {} => \E k \in Stored : \A j \in Stored : IsOldest(j) <=> j = k

(* As long as there are rows, exactly one of them is the next to be        *)
(* deleted: evict_oldest_locked, whose query names one row by its time and *)
(* its rowid, goes on until the payload fits or the table is empty.        *)
THEOREM OneIsAlwaysOldest == Spec => []OneIsOldest
  <1>1. ASSUME IndInv, Listed, Stored # {}
        PROVE  \E k \in Stored : \A j \in Stored : IsOldest(j) <=> j = k
    <2> DEFINE ats == {rows[k].at : k \in Stored}
    <2>1. \A k \in Stored : rows[k].at \in Nat
      BY <1>1, KeyFacts DEF IndInv, Types, Stored, Rows
    <2>2. PICK at \in ats : \A other \in ats : at <= other
      BY <1>1, <2>1, LeastNumber
    <2> DEFINE places == {n \in 1 .. Len(order) : order[n] \in Stored /\ rows[order[n]].at = at}
    <2>3. Len(order) \in Nat
      BY <1>1 DEF Listed
    <2>4. \A k \in Stored : \E n \in 1 .. Len(order) : order[n] = k
      BY <1>1 DEF Listed, Stored
    <2>5. places # {}
      <3>1. PICK k \in Stored : rows[k].at = at
        BY <2>2
      <3> QED
        BY <2>4, <3>1
    <2>6. PICK first \in places : \A n \in places : first <= n
      <3>1. places \in SUBSET Nat
        BY <2>3
      <3> HIDE DEF places
      <3> QED
        BY <2>5, <3>1, LeastNumber
    <2> DEFINE k == order[first]
    <2>7. k \in Stored /\ rows[k].at = at /\ \A j \in Stored : rows[k].at <= rows[j].at
      BY <2>2, <2>6
    <2>8. ASSUME NEW j \in Stored, j # k
          PROVE  rows[k].at < rows[j].at \/ (rows[k].at = rows[j].at /\ Before(k, j))
      <3>1. PICK n \in 1 .. Len(order) : order[n] = j
        BY <2>4
      <3>2. CASE rows[j].at = at
        <4>1. first <= n /\ first # n /\ first \in 1 .. Len(order)
          BY <2>6, <2>8, <3>1, <3>2
        <4>2. first < n
          BY <2>3, <4>1
        <4> QED
          BY <2>7, <3>1, <3>2, <4>1, <4>2 DEF Before
      <3>3. CASE rows[j].at # at
        BY <2>1, <2>7, <3>3
      <3> QED
        BY <3>2, <3>3
    <2>9. IsOldest(k)
      BY <2>8 DEF IsOldest
    <2>10. ASSUME NEW j \in Stored, IsOldest(j), j # k
           PROVE  FALSE
      <3>1. rows[j].at < rows[k].at \/ (rows[j].at = rows[k].at /\ Before(j, k))
        BY <2>7, <2>10 DEF IsOldest
      <3>2. Before(k, j) /\ Before(j, k)
        BY <2>1, <2>7, <2>8, <2>10, <3>1
      <3>3. PICK m \in 1 .. Len(order), n \in 1 .. Len(order) :
                m < n /\ order[m] = k /\ order[n] = j
        BY <3>2 DEF Before
      <3>4. PICK l \in 1 .. Len(order), o \in 1 .. Len(order) :
                l < o /\ order[l] = j /\ order[o] = k
        BY <3>2 DEF Before
      <3>5. m = o /\ n = l
        BY <1>1, <3>3, <3>4 DEF Listed
      <3> QED
        BY <2>3, <3>3, <3>4, <3>5
    <2> HIDE DEF k
    <2> QED
      BY <2>7, <2>9, <2>10
  <1>2. IndInv /\ Listed => OneIsOldest
    BY <1>1 DEF OneIsOldest
  <1> QED
    BY <1>2, Invariance, ListedInvariant, InitInvariant, NextInvariant, PTL DEF Spec
=============================================================================
