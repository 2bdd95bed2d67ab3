----------------------------- MODULE ReadsProofs -----------------------------
(***************************************************************************)
(* Proofs about what App asks of an instance, from the screen to the wire: *)
(* the request pipeline (Requests), the screen that drives it (Reads), one *)
(* call of the HTTP adapter (HttpCall), and what the thread on top of the  *)
(* screen makes of the comments it was sent (ThreadView), each for every   *)
(* value of its constants.                                                 *)
(*                                                                         *)
(* The invariant of the pipeline says three things besides the types: no   *)
(* read is ahead of the generation counter, two identities never keep the  *)
(* same handle, and the two properties that TLC checks.  The first makes a *)
(* fresh generation really fresh, the second keeps an abort from hitting   *)
(* the task of another identity.                                           *)
(***************************************************************************)
EXTENDS Reads, HttpCall, ThreadView, FiniteSetTheorems, WellFoundedInduction, SequenceTheorems,
        TLAPS


ReadsAreNumbered ==
    /\ \A t \in tasks : t.read.generation \in 1 .. next_generation
    /\ \A k \in DOMAIN completed : completed[k].generation \in 1 .. next_generation

HandlesAreDistinct ==
    \A i, j \in Identities :
        in_flight[i] # None /\ in_flight[i] = in_flight[j] => i = j

IndInv ==
    /\ TypeOK
    /\ ReadsAreNumbered
    /\ HandlesAreDistinct
    /\ HandleMeansComing
    /\ LiveReadsAreOfThisContext

-----------------------------------------------------------------------------
(* The mailbox after the oldest result is taken holds the other results,   *)
(* each one place earlier.                                                 *)
LEMMA TailOfMailbox ==
    ASSUME completed \in Seq(Reads), completed # <<>>
    PROVE  /\ Head(completed) = completed[1]
           /\ Head(completed) \in Reads
           /\ 1 \in DOMAIN completed
           /\ Tail(completed) \in Seq(Reads)
           /\ \A k \in DOMAIN Tail(completed) :
                 k + 1 \in DOMAIN completed /\ Tail(completed)[k] = completed[k + 1]
           /\ \A k \in DOMAIN completed :
                 k # 1 => k - 1 \in DOMAIN Tail(completed)
                          /\ Tail(completed)[k - 1] = completed[k]
  OBVIOUS

(* The mailbox after a delivery holds what it held and the new result.     *)
LEMMA AppendToMailbox ==
    ASSUME completed \in Seq(Reads), NEW read \in Reads
    PROVE  /\ Append(completed, read) \in Seq(Reads)
           /\ \A k \in DOMAIN completed :
                 k \in DOMAIN Append(completed, read) /\ Append(completed, read)[k] = completed[k]
           /\ Len(completed) + 1 \in DOMAIN Append(completed, read)
           /\ Append(completed, read)[Len(completed) + 1] = read
           /\ \A k \in DOMAIN Append(completed, read) :
                 \/ k \in DOMAIN completed /\ Append(completed, read)[k] = completed[k]
                 \/ Append(completed, read)[k] = read
  OBVIOUS

LEMMA InitInvariant == Init => IndInv
  BY ConstantsAssumption
  DEF Init, IndInv, TypeOK, ReadsAreNumbered, HandlesAreDistinct, HandleMeansComing,
      LiveReadsAreOfThisContext, Reads, Tasks

(* A table of generations stays one when an entry becomes the next one or  *)
(* None and the counter moves on.                                          *)
LEMMA TablesGrow ==
    ASSUME NEW n \in Nat, NEW table \in [Identities -> (1 .. n) \union {None}],
           NEW i \in Identities, NEW entry \in {n + 1, None}
    PROVE  [table EXCEPT ![i] = entry] \in [Identities -> (1 .. n + 1) \union {None}]
  <1>1. (1 .. n) \union {None} \subseteq (1 .. n + 1) \union {None}
    OBVIOUS
  <1>2. entry \in (1 .. n + 1) \union {None}
    OBVIOUS
  <1> QED BY <1>1, <1>2

(* begin_request hands out a generation no read has.                       *)
LEMMA BeginReadStep ==
    ASSUME IndInv, NEW i \in Identities, BeginRead(i)
    PROVE  IndInv'
  <1> USE DEF IndInv, BeginRead, BeginRequest
  <1> DEFINE g == next_generation + 1
             read == [identity |-> i, generation |-> g,
                      profile |-> profile, epoch |-> epoch]
             task == [read |-> read, at |-> "fetching"]
  <1>1. /\ g \in Nat
        /\ next_generation' = g
        /\ read \in Reads
        /\ task \in Tasks
        /\ tasks' = (tasks \ Aborted({in_flight[i]})) \union {task}
        /\ g \notin 1 .. next_generation
        /\ g # None
    BY ConstantsAssumption DEF TypeOK, Reads, Tasks
  <1> HIDE DEF read, task, g
  <1>2. TypeOK'
    <2>1. next_generation \in Nat /\ g = next_generation + 1
      BY DEF TypeOK, g
    <2>2. next_generation' \in 0 .. MaxGeneration
      BY <1>1, <2>1, ConstantsAssumption
    <2>3. requests' \in [Identities -> (1 .. next_generation') \union {None}]
      BY <1>1, <2>1, TablesGrow DEF TypeOK
    <2>4. in_flight' \in [Identities -> (1 .. next_generation') \union {None}]
      BY <1>1, <2>1, TablesGrow DEF TypeOK
    <2> QED
      BY <1>1, <2>2, <2>3, <2>4 DEF TypeOK
  <1>3. ReadsAreNumbered'
    BY <1>1 DEF ReadsAreNumbered, TypeOK, task, read, g
  <1>4. HandlesAreDistinct'
    BY <1>1 DEF HandlesAreDistinct, TypeOK, g
  <1>5. HandleMeansComing'
    <2> SUFFICES ASSUME NEW j \in Identities, in_flight'[j] # None
                 PROVE  Coming(j, in_flight[j])'
      BY DEF HandleMeansComing
    <2>1. CASE j = i
      BY <2>1, <1>1 DEF Coming, TypeOK, task, read
    <2>2. CASE j # i
      <3>1. in_flight'[j] = in_flight[j]
        BY <2>2 DEF TypeOK
      <3>2. Coming(j, in_flight[j])
        BY <3>1 DEF HandleMeansComing
      <3>3. in_flight[j] # in_flight[i]
        BY <3>1, <2>2 DEF HandlesAreDistinct
      <3> QED
        BY <3>1, <3>2, <3>3, <1>1 DEF Coming, Aborted
    <2> QED BY <2>1, <2>2
  <1>6. LiveReadsAreOfThisContext'
    <2> SUFFICES ASSUME NEW j \in Identities
                 PROVE  /\ \A t \in tasks' :
                             t.read.identity = j /\ t.read.generation = requests'[j]
                                => t.read.epoch = epoch /\ t.read.profile = profile
                        /\ \A k \in DOMAIN completed :
                             completed[k].identity = j /\ completed[k].generation = requests'[j]
                                => completed[k].epoch = epoch /\ completed[k].profile = profile
      BY DEF LiveReadsAreOfThisContext
    <2>1. CASE j = i
      BY <2>1, <1>1 DEF TypeOK, ReadsAreNumbered, task, read
    <2>2. CASE j # i
      BY <2>2, <1>1 DEF TypeOK, LiveReadsAreOfThisContext, task, read
    <2> QED BY <2>1, <2>2
  <1> QED BY <1>2, <1>3, <1>4, <1>5, <1>6

LEMMA BeginInlineStep ==
    ASSUME IndInv, NEW i \in Identities, BeginInline(i)
    PROVE  IndInv'
  <1> USE DEF IndInv, BeginInline, BeginRequest
  <1>1. /\ next_generation + 1 \in Nat
        /\ next_generation' = next_generation + 1
        /\ next_generation + 1 \notin 1 .. next_generation
    BY DEF TypeOK
  <1>2. TypeOK'
    <2>1. next_generation \in Nat
      BY DEF TypeOK
    <2>2. next_generation' \in 0 .. MaxGeneration
      BY <1>1, <2>1, ConstantsAssumption
    <2>3. requests' \in [Identities -> (1 .. next_generation') \union {None}]
      BY <1>1, <2>1, TablesGrow DEF TypeOK
    <2>4. in_flight' \in [Identities -> (1 .. next_generation') \union {None}]
      BY <1>1, <2>1, TablesGrow DEF TypeOK
    <2> QED
      BY <2>2, <2>3, <2>4 DEF TypeOK
  <1>3. ReadsAreNumbered'
    BY <1>1 DEF ReadsAreNumbered, TypeOK
  <1>4. HandlesAreDistinct'
    BY <1>1 DEF HandlesAreDistinct, TypeOK
  <1>5. HandleMeansComing'
    BY DEF HandleMeansComing, HandlesAreDistinct, Coming, Aborted, TypeOK
  <1>6. LiveReadsAreOfThisContext'
    <2>1. \A j \in Identities : j # i => requests'[j] = requests[j]
      BY DEF TypeOK
    <2>2. requests'[i] = next_generation + 1
      BY DEF TypeOK
    <2> QED
      BY <1>1, <2>1, <2>2 DEF LiveReadsAreOfThisContext, ReadsAreNumbered, TypeOK
  <1> QED BY <1>2, <1>3, <1>4, <1>5, <1>6

LEMMA AnswerStep ==
    ASSUME IndInv, NEW t \in tasks, Answer(t)
    PROVE  IndInv'
  <1> USE DEF IndInv, Answer
  <1> DEFINE u == [t EXCEPT !.at = "finishing"]
  <1>1. t \in Tasks /\ u \in Tasks /\ u.read = t.read
    BY DEF TypeOK, Tasks
  <1>2. tasks' = (tasks \ {t}) \union {u}
    OBVIOUS
  <1> HIDE DEF u
  <1>3. TypeOK'
    BY <1>1, <1>2 DEF TypeOK
  <1>4. ReadsAreNumbered' /\ HandlesAreDistinct'
    BY <1>1, <1>2 DEF ReadsAreNumbered, HandlesAreDistinct
  <1>5. HandleMeansComing'
    BY <1>1, <1>2 DEF HandleMeansComing, Coming
  <1>6. LiveReadsAreOfThisContext'
    BY <1>1, <1>2 DEF LiveReadsAreOfThisContext
  <1> QED BY <1>3, <1>4, <1>5, <1>6

LEMMA DeliverStep ==
    ASSUME IndInv, NEW t \in tasks, Deliver(t)
    PROVE  IndInv'
  <1> USE DEF IndInv, Deliver
  <1>1. t.read \in Reads
    BY DEF TypeOK, Tasks
  <1>2. completed \in Seq(Reads)
    BY DEF TypeOK
  <1>3. TypeOK'
    BY <1>1, <1>2, AppendToMailbox DEF TypeOK
  <1>4. ReadsAreNumbered'
    BY <1>1, <1>2, AppendToMailbox DEF ReadsAreNumbered
  <1>5. HandlesAreDistinct'
    BY DEF HandlesAreDistinct
  <1>6. HandleMeansComing'
    <2> SUFFICES ASSUME NEW i \in Identities, in_flight[i] # None
                 PROVE  Coming(i, in_flight[i])'
      BY DEF HandleMeansComing
    <2>1. Coming(i, in_flight[i])
      BY DEF HandleMeansComing
    <2>2. CASE t.read.identity = i /\ t.read.generation = in_flight[i]
      BY <2>2, <1>1, <1>2, AppendToMailbox DEF Coming
    <2>3. CASE ~ (t.read.identity = i /\ t.read.generation = in_flight[i])
      BY <2>1, <2>3, <1>1, <1>2, AppendToMailbox DEF Coming
    <2> QED BY <2>2, <2>3
  <1>7. LiveReadsAreOfThisContext'
    BY <1>1, <1>2, AppendToMailbox DEF LiveReadsAreOfThisContext
  <1> QED BY <1>3, <1>4, <1>5, <1>6, <1>7

(* Taking a straggler retires the handle of its identity and nobody else's. *)
LEMMA PollCompletedStep ==
    ASSUME IndInv, PollCompleted
    PROVE  IndInv'
  <1> USE DEF IndInv, PollCompleted
  <1> DEFINE head == Head(completed)
  <1>1. completed \in Seq(Reads) /\ completed # <<>>
    BY DEF TypeOK
  <1>2. head \in Reads /\ head = completed[1]
    BY <1>1, TailOfMailbox
  <1>3. head.identity \in Identities
    BY <1>2 DEF Reads
  <1>4. TypeOK'
    BY <1>1, <1>2, <1>3, TailOfMailbox DEF TypeOK
  <1>5. ReadsAreNumbered'
    BY <1>1, TailOfMailbox DEF ReadsAreNumbered
  <1>6. HandlesAreDistinct'
    BY <1>3 DEF HandlesAreDistinct, TypeOK
  <1>7. HandleMeansComing'
    <2> SUFFICES ASSUME NEW i \in Identities, in_flight'[i] # None
                 PROVE  Coming(i, in_flight[i])'
      BY DEF HandleMeansComing
    <2>1. i # head.identity /\ in_flight'[i] = in_flight[i]
      BY <1>3 DEF TypeOK
    <2>2. Coming(i, in_flight[i])
      BY <2>1 DEF HandleMeansComing
    <2>3. CASE \E t \in tasks : t.read.identity = i /\ t.read.generation = in_flight[i]
      BY <2>3, <2>1 DEF Coming
    <2>4. CASE \E k \in DOMAIN completed :
                  completed[k].identity = i /\ completed[k].generation = in_flight[i]
      <3> PICK k \in DOMAIN completed :
                  completed[k].identity = i /\ completed[k].generation = in_flight[i]
        BY <2>4
      <3>1. k # 1
        BY <2>1, <1>2
      <3>2. k - 1 \in DOMAIN Tail(completed) /\ Tail(completed)[k - 1] = completed[k]
        BY <3>1, <1>1, TailOfMailbox
      <3> QED
        BY <3>2, <2>1 DEF Coming
    <2> QED BY <2>2, <2>3, <2>4 DEF Coming
  <1>8. LiveReadsAreOfThisContext'
    BY <1>1, TailOfMailbox DEF LiveReadsAreOfThisContext
  <1> QED BY <1>4, <1>5, <1>6, <1>7, <1>8

LEMMA DropStep ==
    ASSUME IndInv, NEW S \in SUBSET Identities, Drop(S)
    PROVE  IndInv'
  <1> USE DEF IndInv, Drop
  <1>1. TypeOK'
    BY DEF TypeOK
  <1>2. ReadsAreNumbered'
    BY DEF ReadsAreNumbered
  <1>3. HandlesAreDistinct'
    BY DEF HandlesAreDistinct, TypeOK
  <1>4. HandleMeansComing'
    <2> SUFFICES ASSUME NEW i \in Identities, in_flight'[i] # None
                 PROVE  Coming(i, in_flight[i])'
      BY DEF HandleMeansComing
    <2>1. i \notin S /\ in_flight'[i] = in_flight[i] /\ in_flight[i] # None
      OBVIOUS
    <2>2. in_flight[i] \notin {in_flight[j] : j \in S}
      BY <2>1 DEF HandlesAreDistinct
    <2> QED
      BY <2>1, <2>2 DEF HandleMeansComing, Coming, Aborted
  <1>5. LiveReadsAreOfThisContext'
    BY ConstantsAssumption
    DEF LiveReadsAreOfThisContext, TypeOK, ReadsAreNumbered
  <1> QED BY <1>1, <1>2, <1>3, <1>4, <1>5

LEMMA ForgetStep ==
    ASSUME IndInv, NEW S \in SUBSET Identities, Forget(S)
    PROVE  IndInv'
  <1> USE DEF IndInv, Forget
  <1>1. TypeOK' /\ ReadsAreNumbered' /\ HandlesAreDistinct'
    BY DEF TypeOK, ReadsAreNumbered, HandlesAreDistinct
  <1>2. HandleMeansComing'
    BY DEF HandleMeansComing, Coming
  <1>3. LiveReadsAreOfThisContext'
    BY ConstantsAssumption
    DEF LiveReadsAreOfThisContext, TypeOK, ReadsAreNumbered
  <1> QED BY <1>1, <1>2, <1>3

(* No token survives cancel_in_flight, so the context may change with it.  *)
LEMMA CancelStep ==
    ASSUME IndInv, CancelInFlight, profile' \in Profiles, epoch' \in 0 .. MaxEpoch
    PROVE  IndInv'
  <1> USE DEF IndInv, CancelInFlight
  <1>1. TypeOK'
    BY DEF TypeOK
  <1>2. ReadsAreNumbered' /\ HandlesAreDistinct' /\ HandleMeansComing'
    BY DEF ReadsAreNumbered, HandlesAreDistinct, HandleMeansComing
  <1>3. LiveReadsAreOfThisContext'
    BY ConstantsAssumption
    DEF LiveReadsAreOfThisContext, TypeOK, ReadsAreNumbered
  <1> QED BY <1>1, <1>2, <1>3

LEMMA NextInvariant == IndInv /\ [Next]_vars => IndInv'
  <1> SUFFICES ASSUME IndInv, [Next]_vars
               PROVE  IndInv'
    OBVIOUS
  <1>1. CASE UserAction
    <2>1. ASSUME NEW i \in Identities, BeginInline(i) PROVE IndInv'
      BY <2>1, BeginInlineStep
    <2>2. ASSUME NEW i \in Identities, BeginRead(i) PROVE IndInv'
      BY <2>2, BeginReadStep
    <2>3. ASSUME NEW S \in Groups, Drop(S) PROVE IndInv'
      BY <2>3, DropStep, ConstantsAssumption
    <2>4. ASSUME NEW S \in Groups, Forget(S) PROVE IndInv'
      BY <2>4, ForgetStep, ConstantsAssumption
    <2>5. CASE Cancel
      BY <2>5, CancelStep DEF Cancel, IndInv, TypeOK
    <2>6. ASSUME NEW p \in Profiles, ChangeContext(p) PROVE IndInv'
      <3>1. profile' \in Profiles /\ epoch' \in 0 .. MaxEpoch
        BY <2>6, ConstantsAssumption DEF ChangeContext, IndInv, TypeOK
      <3> QED BY <2>6, <3>1, CancelStep DEF ChangeContext
    <2> QED BY <1>1, <2>1, <2>2, <2>3, <2>4, <2>5, <2>6 DEF UserAction
  <1>2. CASE TaskStep
    BY <1>2, AnswerStep, DeliverStep DEF TaskStep
  <1>3. CASE PollCompleted
    BY <1>3, PollCompletedStep
  <1>4. CASE UNCHANGED vars
    BY <1>4 DEF vars, IndInv, TypeOK, ReadsAreNumbered, HandlesAreDistinct,
                HandleMeansComing, Coming, LiveReadsAreOfThisContext
  <1> QED BY <1>1, <1>2, <1>3, <1>4 DEF Next

THEOREM InvariantTheorem == Spec => []IndInv
  BY InitInvariant, NextInvariant, PTL DEF Spec

-----------------------------------------------------------------------------
(* The tables of App hold what their types say, and every token and handle *)
(* is a generation that begin_request has handed out.                      *)
THEOREM TypeCorrect == Spec => []TypeOK
  <1>1. IndInv => TypeOK
    BY DEF IndInv
  <1> QED BY <1>1, InvariantTheorem, PTL

(* A handle in in_flight always stands for an answer still to be applied.  *)
THEOREM HandlesAreTruthful == Spec => []HandleMeansComing
  <1>1. IndInv => HandleMeansComing
    BY DEF IndInv
  <1> QED BY <1>1, InvariantTheorem, PTL

(* No result begun before a login, logout or profile switch can pass the   *)
(* guard of apply_api_result after it.                                     *)
THEOREM ContextsAreIsolated == Spec => []LiveReadsAreOfThisContext
  <1>1. IndInv => LiveReadsAreOfThisContext
    BY DEF IndInv
  <1> QED BY <1>1, InvariantTheorem, PTL

(* A step of the pipeline is a step of the contract or changes nothing the *)
(* contract can see.                                                       *)
LEMMA StepImplementsContract ==
    ASSUME IndInv, [Next]_vars
    PROVE  [Contract!Next]_(Contract!vars)
  <1> DEFINE shown == IF landed = None THEN None
                      ELSE [identity |-> landed.identity, number |-> landed.generation,
                            epoch |-> landed.epoch]
  <1>1. CASE UserAction
    <2>1. ASSUME NEW i \in Identities, BeginInline(i) \/ BeginRead(i)
          PROVE  Contract!Ask(i)
      BY <2>1 DEF BeginInline, BeginRead, BeginRequest, Contract!Ask
    <2>2. ASSUME NEW S \in Groups, Drop(S) \/ Forget(S)
          PROVE  Contract!GiveUp(S) /\ S \in SUBSET Identities
      BY <2>2, ConstantsAssumption DEF Drop, Forget, Contract!GiveUp
    <2>3. CASE Cancel
      <3>1. Contract!GiveUp(Identities)
        BY <2>3 DEF Cancel, CancelInFlight, Contract!GiveUp
      <3> QED BY <3>1 DEF Contract!Next
    <2>4. ASSUME NEW p \in Profiles, ChangeContext(p)
          PROVE  Contract!NewContext
      BY <2>4 DEF ChangeContext, CancelInFlight, Contract!NewContext
    <2> QED BY <1>1, <2>1, <2>2, <2>3, <2>4 DEF UserAction, Contract!Next
  <1>2. CASE TaskStep
    BY <1>2 DEF TaskStep, Answer, Deliver, Contract!vars
  <1>3. CASE PollCompleted
    <2> DEFINE head == Head(completed)
    <2>1. completed \in Seq(Reads) /\ completed # <<>>
      BY <1>3 DEF PollCompleted, IndInv, TypeOK
    <2>2. head \in Reads /\ head = completed[1] /\ 1 \in DOMAIN completed
      BY <2>1, TailOfMailbox
    <2>3. head.identity \in Identities /\ head.generation \in Nat /\ head # None
      BY <2>2, ConstantsAssumption DEF Reads
    <2>4. CASE Accepts(head)
      <3>1. requests[head.identity] = head.generation /\ head.generation # None
        BY <2>4, <2>3, ConstantsAssumption DEF Accepts
      <3>2. head.epoch = epoch
        BY <3>1, <2>2, <2>3 DEF IndInv, LiveReadsAreOfThisContext
      <3>3. landed' = head
        BY <1>3, <2>4 DEF PollCompleted
      <3>4. Contract!Show(head.identity)
        BY <1>3, <2>3, <3>1, <3>2, <3>3 DEF PollCompleted, Contract!Show
      <3> QED BY <3>4, <2>3 DEF Contract!Next
    <2>5. CASE ~ Accepts(head)
      BY <1>3, <2>5 DEF PollCompleted, Contract!vars
    <2> QED BY <2>4, <2>5
  <1>4. CASE UNCHANGED vars
    BY <1>4 DEF vars, Contract!vars
  <1> QED BY <1>1, <1>2, <1>3, <1>4 DEF Next

(* The pipeline of tasks, handles and mailbox keeps the promise of         *)
(* ReadContract: what lands is the latest request for its identity, not    *)
(* given up, in the context it was begun in.                               *)
THEOREM PipelineImplementsContract == Spec => ImplementsContract
  <1>1. Init => Contract!Init
    BY DEF Init, Contract!Init
  <1>2. IndInv /\ [Next]_vars => [Contract!Next]_(Contract!vars)
    BY StepImplementsContract
  <1> QED BY <1>1, <1>2, InvariantTheorem, PTL DEF Spec, Contract!Spec, ImplementsContract

-----------------------------------------------------------------------------
(* The screen.  Induction over the numbers, stated of a set: its instances *)
(* then need no operator, which the provers could not be given.            *)

LEMMA LeastNumber ==
    ASSUME NEW T \in SUBSET Nat, T # {}
    PROVE  \E n \in T : \A m \in T : ~ (m < n)
  <1>1. \E x \in T : \A y \in T : ~ (<<y, x>> \in OpToRel(<, Nat))
    BY WFMin, NatLessThanWellFounded DEF OpToRel
  <1> QED
    BY <1>1 DEF OpToRel

LEMMA Induction ==
    ASSUME NEW T, 0 \in T, \A n \in Nat : n \in T => n + 1 \in T
    PROVE  Nat \subseteq T
  <1> SUFFICES ASSUME Nat \ T # {}  PROVE FALSE
    OBVIOUS
  <1>1. PICK n \in Nat \ T : \A m \in Nat \ T : ~ (m < n)
    BY LeastNumber
  <1> QED
    BY <1>1

-----------------------------------------------------------------------------
(* What flattening and retaining make of a vector.                         *)

(* The function in the definition of FlattenSeq, up to the place n.        *)
Flattens(f, seqs, n) ==
    f = [i \in 1 .. n |-> IF i = 1 THEN seqs[i] ELSE f[i - 1] \o seqs[i]]

LEMMA FlattensExists ==
    ASSUME NEW seqs
    PROVE  \A n \in Nat : \E f : Flattens(f, seqs, n)
  <1> DEFINE T == {n \in Nat : \E f : Flattens(f, seqs, n)}
  <1>1. 0 \in T
    <2> DEFINE f == [i \in 1 .. 0 |-> <<>>]
    <2>1. Flattens(f, seqs, 0)
      BY DEF Flattens
    <2> QED
      BY <2>1
  <1>2. ASSUME NEW n \in Nat, n \in T  PROVE n + 1 \in T
    <2>1. PICK f : Flattens(f, seqs, n)
      BY <1>2
    <2> DEFINE g == [i \in 1 .. n + 1 |-> IF i = 1 THEN seqs[i] ELSE f[i - 1] \o seqs[i]]
    <2>2. \A i \in 1 .. n : f[i] = IF i = 1 THEN seqs[i] ELSE f[i - 1] \o seqs[i]
      BY <2>1 DEF Flattens
    <2>3. \A i \in 1 .. n : g[i] = f[i]
      BY <2>2
    <2>4. \A i \in 1 .. n + 1 : i # 1 => i - 1 \in 1 .. n
      OBVIOUS
    <2>5. \A i \in 1 .. n + 1 : i # 1 => g[i - 1] = f[i - 1]
      BY <2>3, <2>4
    <2>6. Flattens(g, seqs, n + 1)
      BY <2>5 DEF Flattens
    <2> QED
      BY <2>6
  <1> HIDE DEF T
  <1>3. Nat \subseteq T
    BY <1>1, <1>2, Induction
  <1> QED
    BY <1>3 DEF T

(* The flattened sequence is what n sequences after one another end in.    *)
LEMMA FlattenTrace ==
    ASSUME NEW S, NEW seqs \in Seq(Seq(S))
    PROVE  \E f : /\ f \in [0 .. Len(seqs) -> Seq(S)]
                  /\ f[0] = <<>>
                  /\ \A i \in 1 .. Len(seqs) : f[i] = f[i - 1] \o seqs[i]
                  /\ FlattenSeq(seqs) = f[Len(seqs)]
  <1> DEFINE N == Len(seqs)
  <1>1. N \in Nat /\ \A i \in 1 .. N : seqs[i] \in Seq(S)
    OBVIOUS
  <1>2. CASE N = 0
    <2> DEFINE f == [i \in 0 .. N |-> <<>>]
    <2>1. FlattenSeq(seqs) = seqs /\ seqs = <<>>
      BY <1>2 DEF FlattenSeq
    <2>2. f \in [0 .. N -> Seq(S)] /\ f[0] = <<>> /\ f[N] = <<>>
      BY <1>2
    <2>3. \A i \in 1 .. N : FALSE
      BY <1>2
    <2> QED
      BY <2>1, <2>2, <2>3
  <1>3. CASE N # 0
    <2> DEFINE g == CHOOSE g : Flattens(g, seqs, N)
    <2>1. FlattenSeq(seqs) = g[N]
      BY <1>3 DEF FlattenSeq, Flattens
    <2>2. Flattens(g, seqs, N)
      BY <1>1, FlattensExists
    <2> HIDE DEF g
    <2>3. \A i \in 1 .. N : g[i] = IF i = 1 THEN seqs[i] ELSE g[i - 1] \o seqs[i]
      BY <2>2 DEF Flattens
    <2> DEFINE f == [i \in 0 .. N |-> IF i = 0 THEN <<>> ELSE g[i]]
    <2>4. ASSUME NEW i \in 1 .. N  PROVE f[i] = f[i - 1] \o seqs[i]
      <3>1. i - 1 \in 0 .. N /\ i \in 0 .. N /\ (i # 1 => i - 1 # 0) /\ i # 0
        BY <1>1
      <3>2. CASE i = 1
        <4>1. f[i] = seqs[i] /\ f[i - 1] = <<>>
          BY <2>3, <3>1, <3>2
        <4>2. <<>> \o seqs[i] = seqs[i]
          BY <1>1, ConcatEmptySeq
        <4> QED
          BY <4>1, <4>2
      <3>3. CASE i # 1
        BY <2>3, <3>1, <3>3
      <3> QED
        BY <3>2, <3>3
    <2>5. f[0] = <<>> /\ f[N] = g[N]
      BY <1>1, <1>3
    <2> DEFINE T == {i \in Nat : i <= N => f[i] \in Seq(S)}
    <2>6. 0 \in T
      BY <2>5
    <2>7. ASSUME NEW i \in Nat, i \in T  PROVE i + 1 \in T
      <3> SUFFICES ASSUME i + 1 <= N  PROVE f[i + 1] \in Seq(S)
        OBVIOUS
      <3>1. i + 1 \in 1 .. N /\ (i + 1) - 1 = i /\ f[i] \in Seq(S)
        BY <1>1, <2>7
      <3>2. f[i + 1] = f[i] \o seqs[i + 1]
        BY <2>4, <3>1
      <3> HIDE DEF f
      <3> QED
        BY <1>1, <3>1, <3>2, ConcatProperties
    <2> HIDE DEF T
    <2>8. Nat \subseteq T
      BY <2>6, <2>7, Induction
    <2>9. \A i \in 0 .. N : f[i] \in Seq(S)
      <3>1. \A i \in 0 .. N : i \in Nat /\ i <= N
        BY <1>1
      <3> HIDE DEF f
      <3> QED
        BY <2>8, <3>1 DEF T
    <2>10. f \in [0 .. N -> Seq(S)]
      BY <2>9
    <2> HIDE DEF f
    <2> QED
      BY <2>1, <2>4, <2>5, <2>10
  <1> QED
    BY <1>2, <1>3

(* What is retained is what is kept of the vector, and all of it, each     *)
(* time it was there.                                                      *)
KeptOf(r, s, kept, n) ==
    /\ \A k \in DOMAIN r : r[k] \in kept /\ \E j \in 1 .. n : r[k] = s[j]
    /\ \A j \in 1 .. n : s[j] \in kept => \E k \in DOMAIN r : r[k] = s[j]

LEMMA RetainedKeeps ==
    ASSUME NEW S, NEW s \in Seq(S), NEW kept
    PROVE  /\ Retained(s, kept) \in Seq(S)
           /\ Len(Retained(s, kept)) <= Len(s)
           /\ KeptOf(Retained(s, kept), s, kept, Len(s))
           /\ IsInjective(s) => IsInjective(Retained(s, kept))
  <1> DEFINE seqs == [n \in DOMAIN s |-> IF s[n] \in kept THEN <<s[n]>> ELSE <<>>]
             N == Len(s)
  <1>1. /\ N \in Nat /\ \A i \in 1 .. N : s[i] \in S
        /\ DOMAIN s = 1 .. N
    OBVIOUS
  <1>2. seqs \in Seq(Seq(S)) /\ Len(seqs) = N
        /\ \A i \in 1 .. N : seqs[i] = IF s[i] \in kept THEN <<s[i]>> ELSE <<>>
    BY <1>1
  <1>3. PICK f : /\ f \in [0 .. N -> Seq(S)]
                 /\ f[0] = <<>>
                 /\ \A i \in 1 .. N : f[i] = f[i - 1] \o seqs[i]
                 /\ FlattenSeq(seqs) = f[N]
    <2> HIDE DEF seqs, N
    <2> QED
      BY <1>2, FlattenTrace
  <1>4. Retained(s, kept) = f[N]
    BY <1>3 DEF Retained
  <1> HIDE DEF seqs
  <1> DEFINE T == {n \in Nat : n <= N =>
                       /\ Len(f[n]) <= n
                       /\ KeptOf(f[n], s, kept, n)
                       /\ IsInjective(s) => IsInjective(f[n])}
  <1>5. 0 \in T
    <2>1. KeptOf(<<>>, s, kept, 0)
      BY DEF KeptOf
    <2>2. IsInjective(<<>>)
      BY DEF IsInjective
    <2> QED
      BY <1>3, <2>1, <2>2
  <1>6. ASSUME NEW n \in Nat, n \in T  PROVE n + 1 \in T
    <2> SUFFICES ASSUME n + 1 <= N
                 PROVE  /\ Len(f[n + 1]) <= n + 1
                        /\ KeptOf(f[n + 1], s, kept, n + 1)
                        /\ IsInjective(s) => IsInjective(f[n + 1])
      OBVIOUS
    <2> DEFINE e == s[n + 1]
    <2>1. n + 1 \in 1 .. N /\ n \in 0 .. N /\ (n + 1) - 1 = n /\ e \in S
      BY <1>1
    <2>2. /\ f[n] \in Seq(S) /\ Len(f[n]) <= n /\ KeptOf(f[n], s, kept, n)
          /\ IsInjective(s) => IsInjective(f[n])
      BY <1>3, <1>6, <2>1
    <2>3. f[n + 1] = f[n] \o (IF e \in kept THEN <<e>> ELSE <<>>)
      BY <1>2, <1>3, <2>1
    <2>4. n + 1 \in 1 .. n + 1 /\ 1 .. n \subseteq 1 .. n + 1
          /\ \A j \in 1 .. n + 1 : j = n + 1 \/ j \in 1 .. n
      OBVIOUS
    <2>5. CASE e \in kept
      <3> DEFINE r == f[n]
                 q == f[n + 1]
      <3>1. q = Append(r, e) /\ r \in Seq(S) /\ Len(r) \in Nat
        BY <2>1, <2>2, <2>3, <2>5
      <3>2. /\ DOMAIN q = 1 .. Len(r) + 1 /\ DOMAIN r = 1 .. Len(r)
            /\ q[Len(r) + 1] = e /\ Len(q) = Len(r) + 1
            /\ \A k \in 1 .. Len(r) : q[k] = r[k]
        <4> HIDE DEF r, q, e
        <4> QED
          BY <2>1, <3>1
      <3>3. \A k \in 1 .. Len(r) + 1 : k = Len(r) + 1 \/ k \in 1 .. Len(r)
        BY <3>1
      <3>4. Len(r) + 1 \in 1 .. Len(r) + 1 /\ 1 .. Len(r) \subseteq 1 .. Len(r) + 1
        BY <3>1
      <3>5. KeptOf(r, s, kept, n)
        BY <2>2
      <3>6. KeptOf(q, s, kept, n + 1)
        <4> HIDE DEF r, q
        <4>1. \A k \in DOMAIN q : q[k] \in kept /\ \E j \in 1 .. n + 1 : q[k] = s[j]
          BY <2>4, <2>5, <3>2, <3>3, <3>5 DEF KeptOf
        <4>2. \A j \in 1 .. n + 1 : s[j] \in kept => \E k \in DOMAIN q : q[k] = s[j]
          BY <2>4, <3>2, <3>4, <3>5 DEF KeptOf
        <4> QED
          BY <4>1, <4>2 DEF KeptOf
      <3>7. ASSUME IsInjective(s)  PROVE IsInjective(q)
        <4> HIDE DEF r, q
        <4>1. \A k \in 1 .. Len(r) : r[k] # e
          <5>1. \A j \in 1 .. n : s[j] # s[n + 1]
            <6>1. \A j \in 1 .. n : j \in 1 .. N /\ j # n + 1
              BY <1>1, <2>1
            <6> QED
              BY <1>1, <2>1, <3>7, <6>1 DEF IsInjective
          <5> QED
            BY <3>2, <3>5, <5>1 DEF KeptOf
        <4>2. IsInjective(r)
          BY <2>2, <3>7 DEF r
        <4> HIDE DEF e
        <4> QED
          BY <3>2, <3>3, <4>1, <4>2 DEF IsInjective
      <3> QED
        BY <2>2, <3>1, <3>2, <3>6, <3>7
    <2>6. CASE e \notin kept
      <3>1. f[n + 1] = f[n]
        BY <2>2, <2>3, <2>6, ConcatEmptySeq
      <3>2. KeptOf(f[n], s, kept, n + 1)
        BY <2>2, <2>4, <2>6 DEF KeptOf
      <3>3. Len(f[n]) <= n + 1
        BY <2>2
      <3> QED
        BY <2>2, <3>1, <3>2, <3>3
    <2> QED
      BY <2>5, <2>6
  <1> HIDE DEF T
  <1>7. Nat \subseteq T
    BY <1>5, <1>6, Induction
  <1>8. N \in T /\ N <= N /\ N \in 0 .. N
    BY <1>1, <1>7
  <1>9. /\ Len(f[N]) <= N /\ KeptOf(f[N], s, kept, N)
        /\ IsInjective(s) => IsInjective(f[N])
    BY <1>8 DEF T
  <1> QED
    BY <1>3, <1>4, <1>8, <1>9

-----------------------------------------------------------------------------
(* What App asks for.                                                      *)

LEMMA IdentitiesAre ==
    \A i \in Identities : \/ i = Feed
                          \/ i = Communities
                          \/ \E p \in Posts : i = Post(p) \/ i = Comments(p)
  BY ViewConstants DEF AppIdentities, ReadsOf

LEMMA AskedAre ==
    /\ Feed \in Identities /\ Communities \in Identities
    /\ \A p \in Posts : Post(p) \in Identities /\ Comments(p) \in Identities
    /\ {Communities} \in Groups
    /\ \A p \in Posts : ReadsOf(p) \in Groups
  BY ViewConstants DEF AppIdentities, AppGroups, ReadsOf

LEMMA IdentitiesDiffer ==
    /\ Feed # Communities
    /\ Communities[1] = "communities"
    /\ \A p : /\ Post(p) \notin {Feed, Communities}
              /\ Comments(p) \notin {Feed, Communities}
              /\ Post(p)[1] = "post" /\ Post(p)[2] = p
              /\ Comments(p)[1] = "comments" /\ Comments(p)[2] = p
    /\ \A p, q : Post(p) # Comments(q) /\ (Post(p) = Post(q) => p = q)
  BY DEF Feed, Communities, Post, Comments

-----------------------------------------------------------------------------
(* The stack of modals.                                                    *)
Stacks == {s \in Seq(Modals) : Len(s) <= MaxModals}

LEMMA LastOfStack ==
    ASSUME NEW s \in Stacks, s # <<>>
    PROVE  /\ Len(s) \in 1 .. MaxModals /\ Len(s) \in DOMAIN s
           /\ s[Len(s)] \in Modals
  <1>1. s \in Seq(Modals) /\ Len(s) \in Nat /\ Len(s) # 0
    BY EmptySeq DEF Stacks
  <1> QED
    BY <1>1 DEF Stacks

LEMMA PushOnStack ==
    ASSUME NEW s \in Stacks, NEW modal \in Modals
    PROVE  /\ Push(s, modal) \in Stacks
           /\ \A p : Shows(Push(s, modal), p) => Shows(s, p) \/ IsThreadOf(modal, p)
           /\ Len(Push(s, modal)) \in DOMAIN Push(s, modal)
           /\ Push(s, modal)[Len(Push(s, modal))] = modal
  <1>1. s \in Seq(Modals) /\ Len(s) \in Nat /\ Len(s) <= 3
    BY DEF Stacks, MaxModals
  <1> DEFINE t == IF Len(s) >= MaxModals THEN Tail(s) ELSE s
  <1>2. /\ t \in Seq(Modals) /\ Len(t) \in Nat /\ Len(t) < MaxModals
        /\ \A k \in DOMAIN t : \E j \in DOMAIN s : t[k] = s[j]
    <2>1. CASE Len(s) >= MaxModals
      <3>1. s # <<>> /\ t = Tail(s)
        BY <1>1, <2>1 DEF MaxModals
      <3>2. /\ Tail(s) \in Seq(Modals) /\ Len(Tail(s)) = Len(s) - 1
            /\ \A k \in 1 .. Len(Tail(s)) : Tail(s)[k] = s[k + 1]
        BY <1>1, <3>1
      <3>3. \A k \in DOMAIN Tail(s) : k + 1 \in DOMAIN s
        BY <1>1, <3>2
      <3>4. Len(Tail(s)) \in Nat /\ Len(Tail(s)) < MaxModals
        BY <1>1, <2>1, <3>2 DEF MaxModals
      <3>5. \A k \in DOMAIN Tail(s) : \E j \in DOMAIN s : Tail(s)[k] = s[j]
        BY <3>2, <3>3
      <3> QED
        BY <3>1, <3>2, <3>4, <3>5
    <2>2. CASE ~ (Len(s) >= MaxModals)
      BY <1>1, <2>2 DEF MaxModals
    <2> QED
      BY <2>1, <2>2
  <1>3. Push(s, modal) = Append(t, modal)
    BY DEF Push
  <1> HIDE DEF t
  <1>4. /\ Append(t, modal) \in Seq(Modals) /\ Len(Append(t, modal)) = Len(t) + 1
        /\ \A k \in DOMAIN Append(t, modal) :
              (k \in DOMAIN t /\ Append(t, modal)[k] = t[k]) \/ Append(t, modal)[k] = modal
        /\ Len(t) + 1 \in DOMAIN Append(t, modal)
        /\ Append(t, modal)[Len(t) + 1] = modal
    BY <1>2
  <1>5. Append(t, modal) \in Stacks
    BY <1>2, <1>4 DEF Stacks, MaxModals
  <1>6. \A p : Shows(Append(t, modal), p) => Shows(s, p) \/ IsThreadOf(modal, p)
    BY <1>2, <1>4 DEF Shows
  <1> QED
    BY <1>3, <1>4, <1>5, <1>6

LEMMA SetTopOfStack ==
    ASSUME NEW s \in Stacks, s # <<>>, NEW modal \in Modals
    PROVE  /\ SetTop(s, modal) \in Stacks
           /\ \A p : Shows(SetTop(s, modal), p) => Shows(s, p) \/ IsThreadOf(modal, p)
  <1>1. s \in Seq(Modals) /\ Len(s) \in DOMAIN s /\ Len(s) <= MaxModals
    BY LastOfStack DEF Stacks
  <1>2. /\ SetTop(s, modal) \in Seq(Modals) /\ Len(SetTop(s, modal)) = Len(s)
        /\ DOMAIN SetTop(s, modal) = DOMAIN s
        /\ \A k \in DOMAIN s : SetTop(s, modal)[k] = IF k = Len(s) THEN modal ELSE s[k]
    BY <1>1, ExceptSeq DEF SetTop
  <1> QED
    BY <1>1, <1>2 DEF Stacks, Shows

LEMMA PopOfStack ==
    ASSUME NEW s \in Stacks, s # <<>>
    PROVE  /\ Pop(s) \in Stacks
           /\ \A p : Shows(Pop(s), p) => Shows(s, p)
           /\ \A p : Shows(s, p) => Shows(Pop(s), p) \/ IsThreadOf(s[Len(s)], p)
  <1>1. s \in Seq(Modals) /\ Len(s) \in Nat /\ Len(s) >= 1 /\ Len(s) <= MaxModals
    BY LastOfStack DEF Stacks
  <1>2. /\ Pop(s) \in Seq(Modals) /\ Len(Pop(s)) = Len(s) - 1
        /\ \A k \in 1 .. Len(s) - 1 : Pop(s)[k] = s[k]
    <2>1. \A k \in 1 .. Len(s) - 1 : s[k] \in Modals
      BY <1>1
    <2>2. /\ Pop(s) \in Seq(Modals)
          /\ Len(Pop(s)) = IF 1 <= Len(s) - 1 THEN (Len(s) - 1) - 1 + 1 ELSE 0
          /\ \A k \in 1 .. (Len(s) - 1) - 1 + 1 : Pop(s)[k] = s[1 + k - 1]
      BY <1>1, <2>1, SubSeqProperties DEF Pop
    <2>3. (Len(s) - 1) - 1 + 1 = Len(s) - 1 /\ (~ (1 <= Len(s) - 1) => Len(s) - 1 = 0)
      BY <1>1
    <2>4. ASSUME NEW k \in 1 .. Len(s) - 1  PROVE Pop(s)[k] = s[k]
      <3>1. Pop(s)[k] = s[1 + k - 1] /\ 1 + k - 1 = k
        <4>1. 1 + k - 1 = k
          BY <1>1
        <4>2. k \in 1 .. (Len(s) - 1) - 1 + 1
          BY <2>3
        <4> QED
          BY <2>2, <4>1, <4>2
      <3> QED
        BY <3>1
    <2>5. Len(Pop(s)) = Len(s) - 1
      BY <2>2, <2>3
    <2> QED
      BY <2>2, <2>4, <2>5
  <1>3. DOMAIN Pop(s) = 1 .. Len(s) - 1 /\ DOMAIN s = 1 .. Len(s)
    BY <1>1, <1>2
  <1>4. \A k \in 1 .. Len(s) : k = Len(s) \/ k \in 1 .. Len(s) - 1
    BY <1>1
  <1>5. \A k \in 1 .. Len(s) - 1 : k \in 1 .. Len(s)
    BY <1>1
  <1>6. Pop(s) \in Stacks
    BY <1>1, <1>2 DEF Stacks, MaxModals
  <1> QED
    BY <1>2, <1>3, <1>4, <1>5, <1>6 DEF Shows

LEMMA DismissedStack ==
    ASSUME NEW s \in Stacks
    PROVE  Dismissed(s) \in Stacks /\ \A p : ~ Shows(Dismissed(s), p)
  <1> DEFINE kept == {modal \in Modals : ~ IsThread(modal)}
             r == Retained(s, kept)
  <1>1. s \in Seq(Modals) /\ Len(s) \in Nat /\ Len(s) <= 3
    BY DEF Stacks, MaxModals
  <1>2. r \in Seq(Modals) /\ Len(r) <= Len(s) /\ \A k \in DOMAIN r : r[k] \in kept
    BY <1>1, RetainedKeeps DEF KeptOf
  <1>3. Dismissed(s) = r
    BY DEF Dismissed
  <1> HIDE DEF r
  <1>4. \A k \in DOMAIN r : ~ IsThread(r[k])
    BY <1>2
  <1>5. r \in Stacks
    BY <1>1, <1>2 DEF Stacks, MaxModals
  <1> QED
    BY <1>3, <1>4, <1>5 DEF Shows, IsThreadOf

LEMMA WithoutPost ==
    ASSUME NEW s \in Stacks, NEW q
    PROVE  /\ Without(s, q) \in Stacks
           /\ \A p : Shows(Without(s, q), p) => Shows(s, p)
           /\ \A p : Shows(s, p) => Shows(Without(s, q), p) \/ p = q
  <1> DEFINE kept == {modal \in Modals : ~ IsThreadOf(modal, q)}
             r == Retained(s, kept)
  <1>1. s \in Seq(Modals) /\ Len(s) \in Nat /\ Len(s) <= 3 /\ DOMAIN s = 1 .. Len(s)
    BY DEF Stacks, MaxModals
  <1>2. /\ r \in Seq(Modals) /\ Len(r) <= Len(s)
        /\ \A k \in DOMAIN r : \E j \in DOMAIN s : r[k] = s[j]
        /\ \A j \in DOMAIN s : s[j] \in kept => \E k \in DOMAIN r : r[k] = s[j]
    <2>1. r \in Seq(Modals) /\ Len(r) <= Len(s) /\ KeptOf(r, s, kept, Len(s))
      BY <1>1, RetainedKeeps
    <2> QED
      BY <1>1, <2>1 DEF KeptOf
  <1>3. Without(s, q) = r
    BY DEF Without
  <1> HIDE DEF r
  <1>4. ASSUME NEW p, Shows(s, p), p # q  PROVE Shows(r, p)
    <2>1. PICK j \in DOMAIN s : IsThreadOf(s[j], p)
      BY <1>4 DEF Shows
    <2>2. s[j] \in kept
      BY <1>1, <1>4, <2>1 DEF IsThreadOf
    <2> QED
      BY <1>2, <2>1, <2>2 DEF Shows
  <1>5. r \in Stacks
    BY <1>1, <1>2 DEF Stacks, MaxModals
  <1>6. \A p : Shows(r, p) => Shows(s, p)
    BY <1>2 DEF Shows
  <1> QED
    BY <1>3, <1>4, <1>5, <1>6

LEMMA ModalsAre ==
    ASSUME query \in Queries
    PROVE  /\ \A p \in Posts : Thread(p) \in Modals
           /\ \A p \in Posts : \A q : IsThreadOf(Thread(p), q) <=> q = p
           /\ Help \in Modals /\ Picker \in Modals
           /\ \A q : ~ IsThreadOf(Help, q) /\ ~ IsThreadOf(Picker, q)
           /\ \A list \in {"empty", "filled", "failed"} :
                 /\ [kind |-> "picker", list |-> list] \in Modals
                 /\ \A q : ~ IsThreadOf([kind |-> "picker", list |-> list], q)
           /\ \A modal \in Modals : IsThread(modal) <=> modal \in Threads
  BY DEF Thread, Help, Picker, Modals, Threads, Pickers, IsThreadOf, IsThread

-----------------------------------------------------------------------------
(* The invariant of the screen: a post the user closed has no read of its  *)
(* own that could still land, and is on no thread.  The answers that land  *)
(* are those of posts, comments and the picker: the feed's read is inline. *)
ClosedPostsAreGone ==
    \A p \in Posts : gone[p] = "closed" => requests[Post(p)] = None /\ ~ Shows(modals, p)

ViewInv ==
    /\ IndInv
    /\ ViewTypeOK
    /\ ClosedPostsAreGone

LEMMA ViewInitInvariant == ViewInit => ViewInv
  <1> SUFFICES ASSUME ViewInit  PROVE ViewInv
    OBVIOUS
  <1>1. IndInv
    BY InitInvariant DEF ViewInit
  <1>2. ViewTypeOK
    <2>1. modals \in Seq(Modals) /\ Len(modals) <= MaxModals
      BY DEF ViewInit, MaxModals
    <2>2. gone \in [Posts -> {"open", "closed", "dismissed"}]
      BY DEF ViewInit
    <2> QED
      BY <2>1, <2>2, ViewConstants DEF ViewInit, ViewTypeOK
  <1>4. ClosedPostsAreGone
    BY DEF ViewInit, ClosedPostsAreGone
  <1> QED
    BY <1>1, <1>2, <1>4 DEF ViewInv

(* What the steps of the pipeline do to the tokens.                        *)
LEMMA BeginReadTokens ==
    ASSUME IndInv, NEW i \in Identities, BeginRead(i) \/ BeginInline(i)
    PROVE  \A j \in Identities : j # i => requests'[j] = requests[j]
  BY DEF BeginRead, BeginInline, BeginRequest, IndInv, TypeOK

LEMMA DropTokens ==
    ASSUME NEW S \in SUBSET Identities, Drop(S) \/ Forget(S)
    PROVE  /\ \A j \in Identities : requests'[j] \in {requests[j], None}
           /\ \A j \in S : requests'[j] = None
  BY DEF Drop, Forget

LEMMA CancelTokens ==
    ASSUME CancelInFlight
    PROVE  \A j \in Identities : requests'[j] = None
  BY DEF CancelInFlight

LEMMA CounterGrows ==
    ASSUME IndInv, [Next]_vars
    PROVE  /\ next_generation \in Nat /\ next_generation' \in Nat
           /\ next_generation <= next_generation'
  <1>1. next_generation \in Nat
    BY DEF IndInv, TypeOK
  <1>2. next_generation' \in {next_generation, next_generation + 1}
    <2>1. CASE UserAction
      BY <2>1 DEF UserAction, BeginInline, BeginRead, BeginRequest, Drop, Forget, Cancel,
                  ChangeContext, CancelInFlight
    <2>2. CASE TaskStep
      BY <2>2 DEF TaskStep, Answer, Deliver
    <2>3. CASE PollCompleted
      BY <2>3 DEF PollCompleted
    <2>4. CASE UNCHANGED vars
      BY <2>4 DEF vars
    <2> QED
      BY <2>1, <2>2, <2>3, <2>4 DEF Next
  <1> QED
    BY <1>1, <1>2

(* A post stays gone as long as only posts with a live token come up, no   *)
(* token comes back, and what is closed loses its thread and its token.    *)
LEMMA StaysGone ==
    ASSUME ClosedPostsAreGone,
           \A p \in Posts :
              /\ gone'[p] = "closed" =>
                    gone[p] = "closed" \/ (~ Shows(modals', p) /\ requests'[Post(p)] = None)
              /\ Shows(modals', p) => Shows(modals, p) \/ requests[Post(p)] # None
              /\ requests[Post(p)] = None => requests'[Post(p)] = None
    PROVE  ClosedPostsAreGone'
  <1> SUFFICES ASSUME NEW p \in Posts, gone'[p] = "closed"
               PROVE  requests'[Post(p)] = None /\ ~ Shows(modals', p)
    BY DEF ClosedPostsAreGone, Shows
  <1> QED
    BY DEF ClosedPostsAreGone

(* What an answer may put on the screen.                                   *)
LEMMA LandPostLands ==
    ASSUME NEW stack \in Stacks, query \in Queries, NEW p \in Posts, NEW ok,
           LandPost(stack, p, ok)
    PROVE  /\ modals' \in Stacks /\ loading' \in BOOLEAN
           /\ \A q : Shows(modals', q) => Shows(stack, q) \/ q = p
  <1>1. CASE ~ ok \/ selected # p
    BY <1>1 DEF LandPost
  <1>2. CASE ok /\ selected = p /\ stack # <<>> /\ IsThread(stack[Len(stack)])
    <2> DEFINE top == stack[Len(stack)]
               modal == [top EXCEPT !.post = p]
    <2>1. top \in Threads
      BY <1>2, LastOfStack, ModalsAre
    <2>2. modal \in Modals /\ \A q : IsThreadOf(modal, q) => q = p
      BY <2>1 DEF Modals, Threads, IsThreadOf
    <2>3. modals' = SetTop(stack, modal) /\ loading' = FALSE
      BY <1>2 DEF LandPost
    <2> HIDE DEF modal
    <2> QED
      BY <1>2, <2>2, <2>3, SetTopOfStack
  <1>3. CASE ok /\ selected = p /\ ~ (stack # <<>> /\ IsThread(stack[Len(stack)]))
    <2>1. modals' = Push(stack, Thread(p)) /\ loading' = FALSE
      BY <1>3 DEF LandPost
    <2> QED
      BY <2>1, PushOnStack, ModalsAre
  <1> QED
    BY <1>1, <1>2, <1>3

LEMMA LandCommentsLands ==
    ASSUME modals \in Stacks, query \in Queries, NEW p \in Posts, NEW ok, LandComments(p, ok)
    PROVE  /\ modals' \in Stacks /\ loading' \in BOOLEAN
           /\ \A q : Shows(modals', q) => Shows(modals, q)
  <1>1. CASE ok /\ TopIs("thread") /\ Top.post = p
    <2> DEFINE modal == [Top EXCEPT !.comments = p]
    <2>1. modals # <<>> /\ Top = modals[Len(modals)] /\ IsThread(Top) /\ Top.post = p
      BY <1>1 DEF TopIs, Top, IsThread
    <2>2. Top \in Threads /\ IsThreadOf(modals[Len(modals)], p) /\ Len(modals) \in DOMAIN modals
      BY <2>1, LastOfStack, ModalsAre DEF IsThreadOf
    <2>3. modal \in Modals /\ \A q : IsThreadOf(modal, q) => q = p
      BY <2>1, <2>2 DEF Modals, Threads, IsThreadOf
    <2>4. Shows(modals, p)
      BY <2>2 DEF Shows
    <2>5. modals' = SetTop(modals, modal) /\ loading' = FALSE
      BY <1>1 DEF LandComments
    <2> HIDE DEF modal
    <2> QED
      BY <2>1, <2>3, <2>4, <2>5, SetTopOfStack
  <1>2. CASE ~ (ok /\ TopIs("thread") /\ Top.post = p)
    BY <1>2 DEF LandComments
  <1> QED
    BY <1>1, <1>2

LEMMA LandCommunitiesLands ==
    ASSUME NEW stack \in Stacks, query \in Queries, NEW ok, LandCommunities(stack, ok)
    PROVE  /\ modals' \in Stacks /\ loading' \in BOOLEAN
           /\ \A q : Shows(modals', q) => Shows(stack, q)
  <1>1. CASE stack # <<>> /\ stack[Len(stack)].kind = "picker"
    <2> DEFINE modal == [kind |-> "picker", list |-> IF ok THEN "filled" ELSE "failed"]
    <2>1. modal \in Modals /\ \A q : ~ IsThreadOf(modal, q)
      BY ModalsAre
    <2>2. modals' = SetTop(stack, modal) /\ loading' = FALSE
      BY <1>1 DEF LandCommunities
    <2> HIDE DEF modal
    <2> QED
      BY <1>1, <2>1, <2>2, SetTopOfStack
  <1>2. CASE ~ (stack # <<>> /\ stack[Len(stack)].kind = "picker")
    BY <1>2 DEF LandCommunities
  <1> QED
    BY <1>1, <1>2

-----------------------------------------------------------------------------
(* A step of the screen is a step of the pipeline, or leaves it alone.     *)
LEMMA TopIsThread ==
    ASSUME ViewInv, TopIs("thread")
    PROVE  /\ modals # <<>> /\ Top = modals[Len(modals)]
           /\ Top \in Threads /\ Top.post \in Posts /\ IsThreadOf(modals[Len(modals)], Top.post)
           /\ \A p : IsThreadOf(modals[Len(modals)], p) => p = Top.post
  <1>1. modals # <<>> /\ Top = modals[Len(modals)] /\ IsThread(Top) /\ modals \in Stacks
    BY DEF TopIs, Top, IsThread, ViewInv, ViewTypeOK, Stacks
  <1>2. Top \in Threads
    BY <1>1, LastOfStack, ModalsAre DEF ViewInv, ViewTypeOK
  <1> QED
    BY <1>1, <1>2 DEF Threads, IsThreadOf

LEMMA SelectedIs ==
    ASSUME ViewInv, selected # None
    PROVE  selected \in Posts
  BY DEF ViewInv, ViewTypeOK

(* What a command asks of the pipeline: the feed it reads inline.          *)
Calls ==
    \/ \E i \in Identities \ {Feed} : BeginRead(i)
    \/ BeginInline(Feed)
    \/ \E S \in Groups : Drop(S) \/ Forget(S)
    \/ Cancel
    \/ \E p \in Profiles : ChangeContext(p)
    \/ UNCHANGED vars

LEMMA CallsAre ==
    /\ \A p \in Posts : BeginRead(Post(p)) \/ BeginRead(Comments(p)) => Calls
    /\ \A p \in Posts : Drop(ReadsOf(p)) \/ Forget(ReadsOf(p)) => Calls
    /\ BeginRead(Communities) => Calls
    /\ Drop({Communities}) => Calls
  <1>1. \A p \in Posts : {Post(p), Comments(p), Communities} \subseteq Identities \ {Feed}
    BY AskedAre, IdentitiesDiffer
  <1> QED
    BY <1>1, AskedAre, IdentitiesDiffer DEF Calls

LEMMA CallsAreSteps == Calls => [Next]_vars
  BY AskedAre DEF Calls, Next, UserAction

LEMMA ClosePaneCalls ==
    ASSUME ViewInv, ClosePane
    PROVE  UNCHANGED vars \/ \E S \in Groups : Drop(S)
  <1>1. CASE TopIs("thread")
    <2>1. Drop(ReadsOf(Top.post)) /\ Top.post \in Posts
      BY <1>1, TopIsThread DEF ClosePane, TopIs
    <2> QED
      BY <2>1, AskedAre
  <1>2. CASE ~ TopIs("thread") /\ TopIs("picker")
    <2>1. Drop({Communities})
      BY <1>2 DEF ClosePane, TopIs
    <2> QED
      BY <2>1, AskedAre
  <1>3. CASE ~ TopIs("thread") /\ ~ TopIs("picker")
    <2>1. modals # <<>> /\ modals \in Stacks
      BY DEF ClosePane, ViewInv, ViewTypeOK, Stacks
    <2>2. modals[Len(modals)] \in Modals /\ Top = modals[Len(modals)]
      BY <2>1, LastOfStack DEF Top
    <2>3. Top.kind \in {"thread", "picker", "help"}
      BY <2>2 DEF Modals, Threads, Pickers
    <2>4. TopIs("help")
      BY <1>3, <2>1, <2>3 DEF TopIs
    <2> QED
      BY <1>3, <2>4 DEF ClosePane
  <1> QED
    BY <1>1, <1>2, <1>3

LEMMA CommandCalls ==
    ASSUME ViewInv, Command
    PROVE  Calls
  <1>1. CASE OpenSelected
    BY <1>1, SelectedIs, CallsAre DEF OpenSelected
  <1>2. CASE RefreshThread
    BY <1>2, TopIsThread, CallsAre DEF RefreshThread
  <1>3. CASE ShowCommunities \/ RefreshCommunities
    BY <1>3, CallsAre DEF ShowCommunities, RefreshCommunities, AskCommunities
  <1>4. CASE HideCommunities \/ ShowHelp \/ Stage \/ \E p \in Posts : MoveSelection(p) \/ GoToRow(p)
    BY <1>4 DEF HideCommunities, ShowHelp, Stage, MoveSelection, GoToRow, Calls
  <1>5. CASE Refresh \/ \E q \in Queries : Navigate(q) \/ OpenCommunity(q) \/ SubmitSearch(q)
    BY <1>5 DEF Refresh, Navigate, OpenCommunity, SubmitSearch, RefreshFeed, Calls
  <1>6. CASE ClosePane
    BY <1>6, ClosePaneCalls DEF Calls
  <1>7. CASE Back
    BY <1>7 DEF Back, Calls
  <1>8. CASE DeletePost
    <2>1. staged \in Posts
      BY <1>8 DEF DeletePost, ViewInv, ViewTypeOK
    <2> QED
      BY <1>8, <2>1, CallsAre DEF DeletePost
  <1>9. CASE AccountCommand
    <2>1. profile \in Profiles
      BY DEF ViewInv, IndInv, TypeOK
    <2> QED
      BY <1>9, <2>1 DEF AccountCommand, Login, Calls
  <1>10. CASE \E p \in Profiles : SwitchContext(p)
    BY <1>10 DEF SwitchContext, Calls
  <1> QED
    BY <1>1, <1>2, <1>3, <1>4, <1>5, <1>6, <1>7, <1>8, <1>9, <1>10 DEF Command

LEMMA OpenCommentsCalls ==
    ASSUME ViewInv, OpenComments
    PROVE  Calls
  <1>1. opening \in Posts /\ BeginRead(Comments(opening))
    BY DEF OpenComments, ViewInv, ViewTypeOK
  <1> QED
    BY <1>1, CallsAre

LEMMA ViewStepIsPipelineStep ==
    ASSUME ViewInv, [ViewNext]_viewVars
    PROVE  [Next]_vars
  <1>1. CASE Command
    BY <1>1, CommandCalls, CallsAreSteps
  <1>2. CASE OpenComments
    BY <1>2, OpenCommentsCalls, CallsAreSteps
  <1>3. CASE PollAndApply
    BY <1>3 DEF PollAndApply, Next
  <1>4. CASE PollFeedRefresh
    BY <1>4 DEF PollFeedRefresh
  <1>5. CASE Detached
    BY <1>5 DEF Detached, Next
  <1>6. CASE UNCHANGED viewVars
    BY <1>6 DEF viewVars
  <1> QED
    BY <1>1, <1>2, <1>3, <1>4, <1>5, <1>6 DEF ViewNext

-----------------------------------------------------------------------------
(* The fields of the view, and the closed posts, action by action.         *)
Later == 1 .. next_generation \union {None} \subseteq 1 .. next_generation' \union {None}

LEMMA ItIsLater ==
    ASSUME ViewInv, [ViewNext]_viewVars
    PROVE  Later
  <1>1. /\ next_generation \in Nat /\ next_generation' \in Nat
        /\ next_generation <= next_generation'
    BY ViewStepIsPipelineStep, CounterGrows DEF ViewInv
  <1> QED
    BY <1>1 DEF Later

(* Reads of anything but a post leave the tokens of the posts as they are. *)
LEMMA PostTokensStay ==
    ASSUME IndInv, NEW i \in {Feed, Communities} \union {Comments(p) : p \in Posts},
           BeginRead(i) \/ BeginInline(i)
    PROVE  \A p \in Posts : requests'[Post(p)] = requests[Post(p)]
  <1>1. i \in Identities /\ \A p \in Posts : Post(p) # i /\ Post(p) \in Identities
    BY AskedAre, IdentitiesDiffer
  <1> QED
    BY <1>1, BeginReadTokens

(* A step that leaves the record of what went away as it is, and puts no   *)
(* other thread on the screen than those of posts that are waited for.     *)
LEMMA NothingGoes ==
    ASSUME ClosedPostsAreGone, UNCHANGED gone,
           \A p \in Posts : Shows(modals', p) => Shows(modals, p) \/ requests[Post(p)] # None,
           \A p \in Posts : requests'[Post(p)] = requests[Post(p)]
    PROVE  ClosedPostsAreGone'
  BY StaysGone

(* A step that closes the posts that go, and takes their tokens.           *)
LEMMA ClosedGo ==
    ASSUME ViewInv, gone' = Leaving("closed", modals'),
           \A p \in Posts :
              /\ Shows(modals', p) => Shows(modals, p)
              /\ Shows(modals, p) /\ ~ Shows(modals', p) => requests'[Post(p)] = None
              /\ requests'[Post(p)] \in {requests[Post(p)], None}
    PROVE  /\ gone' \in [Posts -> {"open", "closed", "dismissed"}]
           /\ ClosedPostsAreGone'
  <1>1. gone' \in [Posts -> {"open", "closed", "dismissed"}]
    BY DEF Leaving, ViewInv, ViewTypeOK
  <1>2. \A p \in Posts : gone'[p] = "closed" =>
            gone[p] = "closed" \/ (~ Shows(modals', p) /\ requests'[Post(p)] = None)
    BY DEF Leaving
  <1> QED
    BY <1>1, <1>2, StaysGone DEF ViewInv

LEMMA ViewIs ==
    ASSUME ViewInv
    PROVE  /\ IndInv /\ ViewTypeOK /\ ClosedPostsAreGone
           /\ modals \in Stacks /\ query \in Queries
           /\ \A s \in Stacks : s \in Seq(Modals) /\ Len(s) <= MaxModals
  BY DEF ViewInv, ViewTypeOK, Stacks

LEMMA ApplyKeepsView ==
    ASSUME ViewInv, PollAndApply, Later
    PROVE  ViewTypeOK' /\ ClosedPostsAreGone'
  <1> DEFINE read == Head(completed)
  <1>1. /\ completed \in Seq(Reads) /\ completed # <<>> /\ UNCHANGED requests
        /\ UNCHANGED <<feed, feeding, opening, staged, gone>>
    BY DEF PollAndApply, PollCompleted, ViewInv, IndInv, TypeOK
  <1>2. PICK ok \in BOOLEAN : Land(read, ok)
    BY DEF PollAndApply
  <1>3. read \in Reads
    BY <1>1, TailOfMailbox
  <1>4. /\ modals' \in Stacks /\ loading' \in BOOLEAN
        /\ \A p \in Posts : Shows(modals', p) => Shows(modals, p) \/ requests[Post(p)] # None
    <2>1. CASE ~ Accepts(read)
      BY <1>2, <2>1, ViewIs DEF Land, ViewTypeOK
    <2>2. CASE Accepts(read) /\ LandCommunities(modals, ok)
      BY <2>2, ViewIs, LandCommunitiesLands
    <2>3. ASSUME NEW p \in Posts, Accepts(read), read.identity = Post(p), LandPost(modals, p, ok)
          PROVE  <1>4!:
      <3>1. requests[Post(p)] # None
        BY <1>3, <2>3, ConstantsAssumption DEF Accepts, Reads
      <3> QED
        BY <2>3, <3>1, ViewIs, LandPostLands
    <2>4. ASSUME NEW p \in Posts, Accepts(read), LandComments(p, ok)
          PROVE  <1>4!:
      BY <2>4, ViewIs, LandCommentsLands
    <2> QED
      BY <1>2, <2>1, <2>2, <2>3, <2>4 DEF Land, Applied
  <1>5. ViewTypeOK'
    BY <1>1, <1>4, ViewIs DEF ViewTypeOK, feed, Later
  <1> QED
    BY <1>1, <1>4, <1>5, ViewIs, NothingGoes

LEMMA FeedAnswerKeepsView ==
    ASSUME ViewInv, PollFeedRefresh, Later
    PROVE  ViewTypeOK' /\ ClosedPostsAreGone'
  <1>1. UNCHANGED <<requests, query, modals, opening, staged, gone>> /\ feeding' = None
    BY DEF PollFeedRefresh, vars
  <1>2. loading' \in BOOLEAN /\ posts' \subseteq Posts /\ selected' \in posts' \union {None}
    BY ViewIs DEF PollFeedRefresh, ShowFeed, ViewTypeOK
  <1>3. ViewTypeOK'
    BY <1>1, <1>2, ViewIs DEF ViewTypeOK
  <1> QED
    BY <1>1, <1>3, ViewIs, NothingGoes

LEMMA OpenKeepsView ==
    ASSUME ViewInv, OpenSelected, Later
    PROVE  ViewTypeOK' /\ ClosedPostsAreGone'
  <1> DEFINE p == selected
  <1>1. p \in Posts /\ BeginRead(Post(p)) /\ opening' = p /\ gone' = [gone EXCEPT ![p] = "open"]
        /\ UNCHANGED <<feed, feeding, staged>>
    BY SelectedIs DEF OpenSelected
  <1>2. /\ Push(modals, Thread(p)) \in Stacks
        /\ \A q : Shows(Push(modals, Thread(p)), q) => Shows(modals, q) \/ q = p
    BY <1>1, ViewIs, ModalsAre, PushOnStack
  <1>3. /\ modals' \in Stacks /\ loading' \in BOOLEAN
        /\ \A q : Shows(modals', q) => Shows(modals, q) \/ q = p
    <2>1. CASE LandPost(Push(modals, Thread(p)), p, TRUE)
      BY <1>1, <1>2, <2>1, ViewIs, LandPostLands
    <2>2. CASE modals' = Push(modals, Thread(p)) /\ loading' = TRUE
      BY <1>2, <2>2
    <2> QED
      BY <2>1, <2>2 DEF OpenSelected
  <1>4. \A q \in Posts : q # p => requests'[Post(q)] = requests[Post(q)]
    BY <1>1, AskedAre, IdentitiesDiffer, BeginReadTokens, ViewIs
  <1>5. ViewTypeOK'
    BY <1>1, <1>3, ViewIs DEF ViewTypeOK, feed, Later
  <1>6. ASSUME NEW q \in Posts, gone'[q] = "closed"
        PROVE  requests'[Post(q)] = None /\ ~ Shows(modals', q)
    <2>1. q # p /\ gone[q] = "closed"
      BY <1>1, <1>6, ViewIs DEF ViewTypeOK
    <2> QED
      BY <1>3, <1>4, <2>1, ViewIs DEF ClosedPostsAreGone
  <1> QED
    BY <1>5, <1>6 DEF ClosedPostsAreGone, Shows

LEMMA CommentsKeepView ==
    ASSUME ViewInv, OpenComments \/ RefreshThread, Later
    PROVE  ViewTypeOK' /\ ClosedPostsAreGone'
  <1>1. PICK p \in Posts : /\ BeginRead(Comments(p))
                           /\ \/ LandComments(p, TRUE)
                              \/ loading' \in BOOLEAN /\ UNCHANGED modals
    <2>1. CASE OpenComments
      BY <2>1, ViewIs DEF OpenComments, ViewTypeOK
    <2>2. CASE RefreshThread
      BY <2>2, TopIsThread, ViewIs DEF RefreshThread, ViewTypeOK
    <2> QED
      BY <2>1, <2>2
  <1>2. UNCHANGED <<feed, feeding, staged, gone>> /\ opening' \in {opening, None}
    BY DEF OpenComments, RefreshThread
  <1>3. /\ modals' \in Stacks /\ loading' \in BOOLEAN
        /\ \A q : Shows(modals', q) => Shows(modals, q)
    BY <1>1, ViewIs, LandCommentsLands
  <1>4. ViewTypeOK'
    BY <1>2, <1>3, ViewIs DEF ViewTypeOK, feed, Later
  <1>5. \A q \in Posts : requests'[Post(q)] = requests[Post(q)]
    BY <1>1, PostTokensStay, ViewIs
  <1> QED
    BY <1>2, <1>3, <1>4, <1>5, ViewIs, NothingGoes

LEMMA PickerKeepsView ==
    ASSUME ViewInv, ShowCommunities \/ RefreshCommunities, Later
    PROVE  ViewTypeOK' /\ ClosedPostsAreGone'
  <1>1. PICK stack : stack \in {modals, Push(modals, Picker)} /\ AskCommunities(stack)
    BY DEF ShowCommunities, RefreshCommunities
  <1>2. stack \in Stacks /\ \A q : Shows(stack, q) => Shows(modals, q)
    <2>1. /\ Push(modals, Picker) \in Stacks
          /\ \A q : Shows(Push(modals, Picker), q) => Shows(modals, q) \/ IsThreadOf(Picker, q)
      BY ViewIs, ModalsAre, PushOnStack
    <2> QED
      BY <1>1, <2>1, ViewIs, ModalsAre
  <1>3. BeginRead(Communities) /\ UNCHANGED <<feed, feeding, opening, staged, gone>>
    BY <1>1 DEF AskCommunities
  <1>4. /\ modals' \in Stacks /\ loading' \in BOOLEAN
        /\ \A q : Shows(modals', q) => Shows(modals, q)
    BY <1>1, <1>2, ViewIs, LandCommunitiesLands DEF AskCommunities
  <1>5. ViewTypeOK'
    BY <1>3, <1>4, ViewIs DEF ViewTypeOK, feed, Later
  <1>6. \A q \in Posts : requests'[Post(q)] = requests[Post(q)]
    BY <1>3, PostTokensStay, ViewIs
  <1> QED
    BY <1>3, <1>4, <1>5, <1>6, ViewIs, NothingGoes

LEMMA CoversKeepView ==
    ASSUME ViewInv, HideCommunities \/ ShowHelp, Later
    PROVE  ViewTypeOK' /\ ClosedPostsAreGone'
  <1>1. UNCHANGED <<vars, feed, loading, feeding, opening, staged, gone>>
    BY DEF HideCommunities, ShowHelp
  <1>2. /\ modals' \in Stacks
        /\ \A q : Shows(modals', q) => Shows(modals, q)
    <2>1. \A kind : TopIs(kind) => /\ Pop(modals) \in Stacks
                                   /\ \A q : Shows(Pop(modals), q) => Shows(modals, q)
      BY ViewIs, PopOfStack DEF TopIs
    <2>2. CASE HideCommunities
      BY <2>1, <2>2 DEF HideCommunities
    <2>3. CASE ShowHelp
      <3>1. PICK stack \in {modals, Pop(modals)} :
               /\ modals' = Push(stack, Help)
               /\ stack \in Stacks /\ \A q : Shows(stack, q) => Shows(modals, q)
        BY <2>1, <2>3, ViewIs DEF ShowHelp
      <3> QED
        BY <3>1, ViewIs, ModalsAre, PushOnStack
    <2> QED
      BY <2>2, <2>3
  <1>3. ViewTypeOK'
    BY <1>1, <1>2, ViewIs DEF ViewTypeOK, feed, Later
  <1> QED
    BY <1>1, <1>2, <1>3, ViewIs, NothingGoes DEF vars

LEMMA RefreshKeepsView ==
    ASSUME ViewInv, NEW q \in Queries, NEW stack \in Stacks, RefreshFeed(q, stack), Later,
           \A p : Shows(stack, p) => Shows(modals, p)
    PROVE  ViewTypeOK' /\ ClosedPostsAreGone'
  <1>1. /\ BeginInline(Feed) /\ query' = q /\ modals' = stack /\ feeding' = next_generation'
        /\ gone' = Leaving("dismissed", stack)
        /\ UNCHANGED <<opening, staged>>
    BY DEF RefreshFeed
  <1>2. loading' \in BOOLEAN /\ posts' \subseteq Posts /\ selected' \in posts' \union {None}
    BY ViewIs DEF RefreshFeed, ShowFeed, ViewTypeOK
  <1>3. feeding' \in 1 .. next_generation' \union {None}
    <2>1. next_generation \in Nat /\ next_generation' = next_generation + 1
      BY <1>1, ViewIs DEF BeginInline, BeginRequest, IndInv, TypeOK
    <2> QED
      BY <1>1, <2>1
  <1>4. gone' \in [Posts -> {"open", "closed", "dismissed"}]
        /\ \A p \in Posts : gone'[p] = "closed" => gone[p] = "closed"
    BY <1>1, ViewIs DEF Leaving, ViewTypeOK
  <1>5. ViewTypeOK'
    BY <1>1, <1>2, <1>3, <1>4, ViewIs DEF ViewTypeOK
  <1>6. \A p \in Posts : requests'[Post(p)] = requests[Post(p)]
    BY <1>1, PostTokensStay, ViewIs
  <1> QED
    BY <1>1, <1>4, <1>5, <1>6, ViewIs, StaysGone

LEMMA FeedCommandsKeepView ==
    ASSUME ViewInv, Later,
           Refresh \/ \E q \in Queries : Navigate(q) \/ OpenCommunity(q) \/ SubmitSearch(q)
    PROVE  ViewTypeOK' /\ ClosedPostsAreGone'
  <1>1. \A s \in Stacks : /\ Dismissed(s) \in Stacks
                          /\ \A p : Shows(Dismissed(s), p) => Shows(modals, p)
    BY DismissedStack
  <1>2. \A kind : TopIs(kind) => Pop(modals) \in Stacks
    BY ViewIs, PopOfStack DEF TopIs
  <1>3. \E q \in Queries, stack \in Stacks :
           RefreshFeed(q, stack) /\ \A p : Shows(stack, p) => Shows(modals, p)
    BY <1>1, <1>2, ViewIs DEF Refresh, Navigate, OpenCommunity, SubmitSearch
  <1> QED
    BY <1>3, RefreshKeepsView

LEMMA QuietKeepsView ==
    ASSUME ViewInv, Later,
           Stage \/ AccountCommand \/ Detached \/ UNCHANGED viewVars
              \/ \E p \in Posts : MoveSelection(p) \/ GoToRow(p)
    PROVE  ViewTypeOK' /\ ClosedPostsAreGone'
  <1>1. /\ UNCHANGED <<query, posts, modals, loading, feeding, opening, gone>>
        /\ staged' \in {staged, selected}
        /\ selected' \in posts \union {None}
    BY ViewIs DEF Stage, AccountCommand, Detached, MoveSelection, GoToRow, viewVars, feed,
                  ViewTypeOK
  <1>2. ViewTypeOK'
    BY <1>1, ViewIs DEF ViewTypeOK, Later
  <1>3. \A p \in Posts : requests[Post(p)] = None => requests'[Post(p)] = None
    <2>1. CASE AccountCommand
      <3>1. CancelInFlight
        BY <2>1 DEF AccountCommand, Login, ChangeContext, Cancel
      <3> QED
        BY <3>1, CancelTokens, AskedAre
    <2>2. CASE ~ AccountCommand
      BY <2>2 DEF Stage, Detached, TaskStep, Answer, Deliver, MoveSelection, GoToRow, viewVars,
                  vars
    <2> QED
      BY <2>1, <2>2
  <1> QED
    BY <1>1, <1>2, <1>3, ViewIs, StaysGone

LEMMA ClosePaneKeepsView ==
    ASSUME ViewInv, ClosePane, Later
    PROVE  ViewTypeOK' /\ ClosedPostsAreGone'
  <1>1. /\ modals # <<>> /\ modals' = Pop(modals) /\ gone' = Leaving("closed", modals')
        /\ UNCHANGED <<feed, loading, feeding, opening, staged>>
    BY DEF ClosePane
  <1>2. /\ modals' \in Stacks
        /\ \A p : Shows(modals', p) => Shows(modals, p)
        /\ \A p : Shows(modals, p) => Shows(modals', p) \/ IsThreadOf(modals[Len(modals)], p)
    BY <1>1, ViewIs, PopOfStack
  <1>3. \A p \in Posts : requests'[Post(p)] \in {requests[Post(p)], None}
    <2>1. CASE UNCHANGED vars
      BY <2>1 DEF vars
    <2>2. CASE ~ UNCHANGED vars
      <3>1. \E S \in SUBSET Identities : Drop(S)
        BY <2>2, ClosePaneCalls, ConstantsAssumption
      <3> QED
        BY <3>1, DropTokens, AskedAre
    <2> QED
      BY <2>1, <2>2
  <1>4. ASSUME NEW p \in Posts, Shows(modals, p), ~ Shows(modals', p)
        PROVE  requests'[Post(p)] = None
    <2>1. IsThreadOf(modals[Len(modals)], p)
      BY <1>2, <1>4
    <2>2. TopIs("thread")
      BY <1>1, <2>1 DEF IsThreadOf, IsThread, TopIs, Top
    <2>3. p = Top.post /\ Drop(ReadsOf(p)) /\ ReadsOf(p) \subseteq Identities
      BY <2>1, <2>2, TopIsThread, AskedAre DEF ClosePane, TopIs, ReadsOf
    <2> QED
      BY <2>3, DropTokens DEF ReadsOf
  <1>5. gone' \in [Posts -> {"open", "closed", "dismissed"}] /\ ClosedPostsAreGone'
    BY <1>1, <1>2, <1>3, <1>4, ClosedGo
  <1>6. ViewTypeOK'
    BY <1>1, <1>2, <1>5, ViewIs DEF ViewTypeOK, feed, Later
  <1> QED
    BY <1>5, <1>6

LEMMA BackKeepsView ==
    ASSUME ViewInv, Back, Later
    PROVE  ViewTypeOK' /\ ClosedPostsAreGone'
  <1>1. /\ CancelInFlight /\ gone' = Leaving("closed", modals')
        /\ loading' = FALSE /\ staged' = None
        /\ UNCHANGED <<feed, feeding, opening>>
    BY DEF Back, Cancel
  <1>2. modals' \in Stacks /\ \A p : Shows(modals', p) => Shows(modals, p)
    BY ViewIs, PopOfStack DEF Back
  <1>3. \A p \in Posts : requests'[Post(p)] = None
    BY <1>1, CancelTokens, AskedAre
  <1>4. gone' \in [Posts -> {"open", "closed", "dismissed"}] /\ ClosedPostsAreGone'
    BY <1>1, <1>2, <1>3, ClosedGo
  <1>5. ViewTypeOK'
    BY <1>1, <1>2, <1>4, ViewIs DEF ViewTypeOK, feed, Later
  <1> QED
    BY <1>4, <1>5

LEMMA DeleteKeepsView ==
    ASSUME ViewInv, DeletePost, Later
    PROVE  ViewTypeOK' /\ ClosedPostsAreGone'
  <1>1. /\ staged \in Posts /\ Forget(ReadsOf(staged))
        /\ posts' = posts \ {staged}
        /\ modals' = Without(modals, staged)
        /\ gone' = Leaving("closed", modals')
        /\ staged' = None
        /\ UNCHANGED <<query, loading, feeding, opening>>
    BY ViewIs DEF DeletePost, ViewTypeOK
  <1>2. /\ modals' \in Stacks
        /\ \A p : Shows(modals', p) => Shows(modals, p)
        /\ \A p : Shows(modals, p) => Shows(modals', p) \/ p = staged
    BY <1>1, ViewIs, WithoutPost
  <1>3. ReadsOf(staged) \subseteq Identities
    BY <1>1, AskedAre DEF ReadsOf
  <1>4. /\ \A p \in Posts : requests'[Post(p)] \in {requests[Post(p)], None}
        /\ requests'[Post(staged)] = None
    BY <1>1, <1>3, DropTokens, AskedAre DEF ReadsOf
  <1>5. gone' \in [Posts -> {"open", "closed", "dismissed"}] /\ ClosedPostsAreGone'
    BY <1>1, <1>2, <1>4, ClosedGo
  <1>6. selected' \in posts' \union {None}
    BY <1>1, ViewIs DEF DeletePost, ViewTypeOK
  <1>7. ViewTypeOK'
    BY <1>1, <1>2, <1>5, <1>6, ViewIs DEF ViewTypeOK, Later
  <1> QED
    BY <1>5, <1>7

LEMMA SwitchKeepsView ==
    ASSUME ViewInv, NEW p \in Profiles, SwitchContext(p), Later
    PROVE  ViewTypeOK' /\ ClosedPostsAreGone'
  <1>1. /\ CancelInFlight /\ posts' \subseteq Posts /\ selected' = None /\ query' = home
        /\ modals' = <<>> /\ loading' = FALSE /\ staged' = None
        /\ gone' = Leaving("closed", modals')
        /\ UNCHANGED <<feeding, opening>>
    BY DEF SwitchContext, ChangeContext
  <1>2. modals' \in Stacks /\ \A q : ~ Shows(modals', q)
    <2>1. <<>> \in Seq(Modals) /\ Len(<<>>) <= MaxModals /\ DOMAIN <<>> = {}
      BY DEF MaxModals
    <2> QED
      BY <1>1, <2>1 DEF Stacks, Shows
  <1>3. \A q \in Posts : requests'[Post(q)] = None
    BY <1>1, CancelTokens, AskedAre
  <1>4. gone' \in [Posts -> {"open", "closed", "dismissed"}] /\ ClosedPostsAreGone'
    BY <1>1, <1>2, <1>3, ClosedGo
  <1>5. ViewTypeOK'
    BY <1>1, <1>2, <1>4, ViewIs, ViewConstants DEF ViewTypeOK, Later
  <1> QED
    BY <1>4, <1>5

LEMMA ViewNextInvariant == ViewInv /\ [ViewNext]_viewVars => ViewInv'
  <1> SUFFICES ASSUME ViewInv, [ViewNext]_viewVars  PROVE ViewInv'
    OBVIOUS
  <1>1. Later
    BY ItIsLater
  <1>2. IndInv'
    BY ViewStepIsPipelineStep, NextInvariant DEF ViewInv
  <1>4. ViewTypeOK' /\ ClosedPostsAreGone'
    <2>1. CASE Command
      BY <1>1, <2>1, OpenKeepsView, CommentsKeepView, PickerKeepsView, CoversKeepView,
         FeedCommandsKeepView, QuietKeepsView, ClosePaneKeepsView, BackKeepsView,
         DeleteKeepsView, SwitchKeepsView DEF Command
    <2>2. CASE OpenComments \/ PollAndApply \/ PollFeedRefresh
      BY <1>1, <2>2, CommentsKeepView, ApplyKeepsView, FeedAnswerKeepsView
    <2>3. CASE Detached \/ UNCHANGED viewVars
      BY <1>1, <2>3, QuietKeepsView
    <2> QED
      BY <2>1, <2>2, <2>3 DEF ViewNext
  <1> QED
    BY <1>2, <1>4 DEF ViewInv

LEMMA ViewInvariance == ViewSpec => []ViewInv
  BY ViewInitInvariant, ViewNextInvariant, PTL DEF ViewSpec

-----------------------------------------------------------------------------
(* The screen drives the pipeline only by its operations: what is proved   *)
(* of every use of the pipeline holds of the one App makes of it.          *)
THEOREM ViewRunsThePipeline == ViewSpec => Spec
  <1>1. ViewInit => Init
    BY DEF ViewInit
  <1>2. ViewInv /\ [ViewNext]_viewVars => [Next]_vars
    BY ViewStepIsPipelineStep
  <1> QED
    BY <1>1, <1>2, ViewInvariance, PTL DEF ViewSpec, Spec

(* The view never holds what it may not: the stack no more modals than     *)
(* MAX_MODALS, the selection a row of the feed on the screen.              *)
THEOREM ViewTypeCorrect == ViewSpec => []ViewTypeOK
  <1>1. ViewInv => ViewTypeOK
    BY DEF ViewInv
  <1> QED
    BY <1>1, ViewInvariance, PTL

(* No answer that was on its way when the user closed a thread brings it   *)
(* back (close_top_modal, and the guard of apply_api_result).              *)
THEOREM ClosedThreadsNeverReturn == ViewSpec => []ClosedThreadsStayClosed
  <1>1. ViewInv => ClosedThreadsStayClosed
    BY DEF ViewInv, ClosedPostsAreGone, ClosedThreadsStayClosed
  <1> QED
    BY <1>1, ViewInvariance, PTL

-----------------------------------------------------------------------------
(* The call.  A mutation is done at most once, what the user is told of it *)
(* is so, and no call takes longer than its budget.  The invariant says    *)
(* what the wire may hold: a mutation is with the server or done, and not  *)
(* both; a POST that became a GET, or was answered by a redirect, has left *)
(* nothing behind; and the answer that the client has is one of a server   *)
(* that did what the invariant says it did.                                *)
MutationsTryOnce ==
    /\ ~ IsRead => attempt = 0 /\ since = clock
    /\ phase = "pausing" => MayRetry

RepliesHaveTheirPhase ==
    /\ phase \in {"connecting", "pausing", "done"} => reply = Nothing
    /\ phase = "body" => reply # Nothing
    /\ phase # "done" => result = Nothing

ReadsLeaveTheServer ==
    /\ IsRead => method = "GET" /\ wire = 0
    /\ op \in ReadOps => applied = 0
    /\ op = "enrich" => applied = 1

MutationIsSomewhere ==
    ~ IsRead =>
        /\ applied + wire <= 1
        /\ phase = "connecting" \/ method = "GET" => applied + wire = 0
        /\ reply # Nothing => wire = 0 /\ Truthful(reply, applied = 1)

CallInv ==
    /\ CallTypeOK
    /\ since <= clock
    /\ MutationsTryOnce
    /\ RepliesHaveTheirPhase
    /\ ReadsLeaveTheServer
    /\ MutationIsSomewhere
    /\ ReportIsTrue
    /\ KeepsItsBudget

-----------------------------------------------------------------------------
LEMMA AtMostOne == \A a \in {0, 1} : a + 0 <= 1
  OBVIOUS

LEMMA CallInitInvariant == CallInit => CallInv
  BY HttpConstants, NothingIsApart
  DEF CallInit, CallInv, CallTypeOK, MutationsTryOnce, RepliesHaveTheirPhase, ReadsLeaveTheServer,
      MutationIsSomewhere, ReportIsTrue, FailureIsCertain, SuccessIsReal, KeepsItsBudget,
      IsRead, Ops, ReadOps, StrictReads, LenientReads, Results, Phases

(* What an operation may report of a mutation, as things are.              *)
Honest(outcome) ==
    ~ IsRead => /\ outcome \notin {"uncertain", "success"} => applied + wire = 0
                /\ outcome = "success" => applied = 1

(* Whatever ends a call honestly keeps the invariant, the login that goes  *)
(* on to read the site included.                                           *)
LEMMA FinishInvariant ==
    ASSUME CallInv, phase # "done",
           NEW outcome \in Results, Honest(outcome), Finish(outcome)
    PROVE  CallInv'
  <1> USE DEF CallInv, Ops, ReadOps, StrictReads, LenientReads, IsRead
  <1>1. CASE op = "login" /\ outcome = "success"
    <2>1. applied = 1 /\ wire = 0
      BY <1>1 DEF Honest, MutationIsSomewhere, CallTypeOK
    <2> QED
      BY <1>1, <2>1, HttpConstants, NothingIsApart
      DEF Finish, CallTypeOK, MutationsTryOnce, RepliesHaveTheirPhase, ReadsLeaveTheServer,
          MutationIsSomewhere, ReportIsTrue, FailureIsCertain, SuccessIsReal, KeepsItsBudget,
          Phases
  <1>2. CASE ~ (op = "login" /\ outcome = "success")
    <2>1. /\ phase' = "done" /\ reply' = Nothing
          /\ result' = IF op = "enrich" THEN "success" ELSE outcome
          /\ UNCHANGED <<op, attempt, clock, since, sent, method, wire, applied>>
      BY <1>2 DEF Finish
    <2>2. CallTypeOK'
      BY <2>1 DEF CallTypeOK, Phases, Results
    <2>3. ReportIsTrue'
      BY <2>1 DEF ReportIsTrue, FailureIsCertain, SuccessIsReal, Honest,
                  ReadsLeaveTheServer, CallTypeOK
    <2> QED
      BY <2>1, <2>2, <2>3
      DEF MutationsTryOnce, RepliesHaveTheirPhase, ReadsLeaveTheServer, MutationIsSomewhere,
          KeepsItsBudget
  <1> QED
    BY <1>1, <1>2

(* A lost answer is never called a failure of a mutation.                  *)
LEMMA LostIsHonest == Lost \in Results /\ Honest(Lost)
  BY DEF Lost, Results, Honest

(* Nor does a body say of the mutation what the server did not do.         *)
LEMMA DecodedIsHonest ==
    ASSUME CallInv, phase = "body"
    PROVE  Decoded(reply) \in Results /\ Honest(Decoded(reply))
  <1> DEFINE r == reply
  <1>1. r \in Replies /\ op \in Ops \union {"enrich"} /\ applied \in Nat /\ wire \in Nat
    BY DEF CallInv, CallTypeOK, RepliesHaveTheirPhase
  <1>2. Parsed(r) \in Results
    BY <1>1 DEF Parsed, Lost, Results
  <1>3. Decoded(r) \in Results
    BY <1>1, <1>2 DEF Decoded, Results, Ops, ReadOps
  <1>4. SUFFICES ASSUME ~ IsRead PROVE Honest(Decoded(r))
    BY <1>3 DEF Honest
  <1>5. wire = 0 /\ applied \in {0, 1} /\ Truthful(r, applied = 1)
    BY <1>1, <1>4 DEF CallInv, RepliesHaveTheirPhase, MutationIsSomewhere
  <1>6. op \in {"mutate", "login"}
    BY <1>1, <1>4 DEF IsRead, Ops
  <1>7. CASE applied = 1
    <2>1. r.status \in {"ok", "transient", "other"} /\ ~ Denies(r)
      BY <1>5, <1>7 DEF Truthful
    <2>2. Parsed(r) \in {"success", "uncertain"}
      BY <2>1, <1>4, <1>1 DEF Parsed, Lost, Replies
    <2>3. Decoded(r) \in {"success", "uncertain"}
      BY <2>1, <2>2, <1>6, <1>1
         DEF Decoded, StrictReads, LenientReads, Denies, Parsed, Lost, Replies, Bodies
    <2> QED
      BY <2>3, <1>7 DEF Honest
  <1>8. CASE applied = 0
    <2>1. r.status = "ok" => Denies(r)
      BY <1>4, <1>5, <1>8 DEF Truthful
    <2>2. Decoded(r) # "success"
      BY <2>1, <1>4, <1>6, <1>1
      DEF Decoded, StrictReads, LenientReads, Denies, Parsed, Lost, Replies, Bodies, Statuses
    <2> QED
      BY <2>2, <1>5, <1>8 DEF Honest
  <1> QED
    BY <1>5, <1>7, <1>8

-----------------------------------------------------------------------------
LEMMA CallNextInvariant == CallInv /\ [CallNext]_callVars => CallInv'
  <1> SUFFICES ASSUME CallInv, [CallNext]_callVars PROVE CallInv'
    OBVIOUS
  <1> USE DEF CallInv
  <1>0. CASE UNCHANGED callVars
    BY <1>0 DEF callVars, CallTypeOK, MutationsTryOnce, RepliesHaveTheirPhase, ReadsLeaveTheServer,
                MutationIsSomewhere, ReportIsTrue, FailureIsCertain, SuccessIsReal,
                KeepsItsBudget, IsRead, MayRetry, Truthful, Denies
  <1>1. CASE Connected
    BY <1>1, HttpConstants, NothingIsApart
    DEF Connected, CallTypeOK, MutationsTryOnce, RepliesHaveTheirPhase, ReadsLeaveTheServer,
        MutationIsSomewhere, ReportIsTrue, FailureIsCertain, SuccessIsReal,
        KeepsItsBudget, IsRead, MayRetry, Phases, Ops, ReadOps, StrictReads, LenientReads, Results
  <1>2. CASE Refused
    <2>1. phase # "done" /\ Finish(Lost)
      BY <1>2 DEF Refused
    <2> QED
      BY <2>1, LostIsHonest, FinishInvariant
  <1>3. ASSUME IsRead, phase \in {"connecting", "waiting"}, MayRetry, Retry PROVE CallInv'
    BY <1>3, HttpConstants, NothingIsApart
    DEF Retry, MayRetry, CallTypeOK, MutationsTryOnce, RepliesHaveTheirPhase, ReadsLeaveTheServer,
        MutationIsSomewhere, ReportIsTrue, FailureIsCertain, SuccessIsReal,
        KeepsItsBudget, IsRead, MayRetry, Phases, Ops, ReadOps, StrictReads, LenientReads, Results
  <1>4. CASE TimesOut
    <2>1. phase \in {"connecting", "waiting", "body"}
      BY <1>4 DEF TimesOut, AttemptIsDue
    <2>2. CASE phase # "body" /\ MayRetry
      BY <1>3, <1>4, <2>1, <2>2 DEF TimesOut, MayRetry
    <2>3. CASE ~ (phase # "body" /\ MayRetry)
      BY <1>4, <2>1, <2>3, LostIsHonest, FinishInvariant DEF TimesOut
    <2> QED
      BY <2>2, <2>3
  <1>5. CASE Follow
    <2>1. reply \in Replies /\ phase = "waiting" /\ result = Nothing
      BY <1>5 DEF Follow, CallTypeOK, RepliesHaveTheirPhase
    <2>2. ~ IsRead => applied + wire = 0
      BY <1>5, <2>1 DEF Follow, MutationIsSomewhere, Truthful, CallTypeOK
    <2>3. method' \in {"GET", "POST"} /\ (method = "GET" => method' = "GET")
      BY <1>5 DEF Follow, CallTypeOK
    <2> QED
      BY <1>5, <2>1, <2>2, <2>3, NothingIsApart
      DEF Follow, CallTypeOK, MutationsTryOnce, RepliesHaveTheirPhase, ReadsLeaveTheServer,
          MutationIsSomewhere, ReportIsTrue, FailureIsCertain, SuccessIsReal,
          KeepsItsBudget, IsRead, MayRetry, Phases, Ops, ReadOps, StrictReads, LenientReads, Results
  <1>6. CASE Answered
    <2>1. CASE reply.status = "transient" /\ MayRetry
      BY <1>3, <1>6, <2>1 DEF Answered, MayRetry
    <2>2. CASE ~ (reply.status = "transient" /\ MayRetry)
      BY <1>6, <2>2, NothingIsApart
      DEF Answered, CallTypeOK, MutationsTryOnce, RepliesHaveTheirPhase, ReadsLeaveTheServer,
          MutationIsSomewhere, ReportIsTrue, FailureIsCertain, SuccessIsReal,
          KeepsItsBudget, IsRead, MayRetry, Phases, Truthful, Denies
    <2> QED
      BY <2>1, <2>2
  <1>7. CASE ReadBody
    <2>1. phase = "body" /\ Finish(Decoded(reply))
      BY <1>7 DEF ReadBody
    <2> QED
      BY <2>1, DecodedIsHonest, FinishInvariant
  <1>8. CASE Resume
    BY <1>8, HttpConstants
      DEF Resume, CallTypeOK, MutationsTryOnce, RepliesHaveTheirPhase, ReadsLeaveTheServer,
          MutationIsSomewhere, ReportIsTrue, FailureIsCertain, SuccessIsReal,
          KeepsItsBudget, IsRead, MayRetry, Phases
  <1>9. CASE Exhaust
    <2>1. IsRead /\ phase # "done" /\ Finish("failed")
      BY <1>9 DEF Exhaust, BudgetIsSpent
    <2>2. Honest("failed") /\ "failed" \in Results
      BY <2>1 DEF Honest, Results
    <2> QED
      BY <2>1, <2>2, FinishInvariant
  <1>10. ASSUME NEW r \in Replies, Serve(r) PROVE CallInv'
    <2>1. r # Nothing /\ phase = "waiting" /\ result = Nothing
      BY <1>10, NothingIsApart DEF Serve, RepliesHaveTheirPhase
    <2>2. CASE method = "GET"
      BY <1>10, <2>1, <2>2, NothingIsApart
      DEF Serve, CallTypeOK, MutationsTryOnce, RepliesHaveTheirPhase, ReadsLeaveTheServer,
          MutationIsSomewhere, ReportIsTrue, FailureIsCertain, SuccessIsReal,
          KeepsItsBudget, IsRead, MayRetry, Phases, Truthful, Denies
    <2>3. CASE method # "GET"
      <3>1. /\ ~ IsRead /\ wire = 1 /\ applied = 0
            /\ wire' = 0 /\ applied' \in {0, 1} /\ Truthful(r, applied' = 1)
            /\ reply' = r
            /\ UNCHANGED <<op, phase, attempt, clock, since, sent, method, result>>
        BY <1>10, <2>3 DEF Serve, ReadsLeaveTheServer, MutationIsSomewhere, Truthful, CallTypeOK
      <3>2. Truthful(r, applied = 1)'
        BY <3>1 DEF Truthful, Denies, IsRead
      <3>3. CallTypeOK' /\ RepliesHaveTheirPhase'
        BY <2>1, <3>1 DEF CallTypeOK, RepliesHaveTheirPhase
      <3>4. ReportIsTrue'
        BY <2>1, <3>1, NothingIsApart
        DEF ReportIsTrue, FailureIsCertain, SuccessIsReal, IsRead, Results
      <3>5. MutationsTryOnce' /\ ReadsLeaveTheServer' /\ KeepsItsBudget'
        BY <2>1, <3>1 DEF MutationsTryOnce, ReadsLeaveTheServer, KeepsItsBudget, IsRead, MayRetry
      <3>6. MutationIsSomewhere'
        <4>0. method' # "GET" /\ phase' # "connecting"
          BY <2>1, <2>3, <3>1
        <4>1. applied' + wire' <= 1
          BY <3>1, AtMostOne
        <4>2. wire' = 0 /\ Truthful(reply, applied = 1)'
          BY <3>1, <3>2 DEF Truthful, Denies, IsRead
        <4> QED
          BY <4>0, <4>1, <4>2 DEF MutationIsSomewhere
      <3> QED
        BY <3>1, <3>3, <3>4, <3>5, <3>6
    <2> QED
      BY <2>2, <2>3
  <1>11. CASE ServeUnheard
    <2>1. /\ ~ IsRead /\ wire = 1 /\ applied = 0 /\ reply = Nothing
          /\ wire' = 0 /\ applied' \in {0, 1}
          /\ UNCHANGED <<op, phase, attempt, clock, since, sent, method, reply, result>>
      BY <1>11 DEF ServeUnheard, ReadsLeaveTheServer, MutationIsSomewhere, Truthful, CallTypeOK
    <2>2. result \notin {"refused", "authentication", "authorization", "failed", "success"}
      BY <2>1 DEF ReportIsTrue, FailureIsCertain, SuccessIsReal, IsRead, CallTypeOK, Ops, ReadOps
    <2>3. CallTypeOK' /\ RepliesHaveTheirPhase'
      BY <2>1 DEF CallTypeOK, RepliesHaveTheirPhase
    <2>4. ReportIsTrue'
      BY <2>1, <2>2 DEF ReportIsTrue, FailureIsCertain, SuccessIsReal, IsRead
    <2>5. MutationsTryOnce' /\ ReadsLeaveTheServer' /\ KeepsItsBudget'
      BY <2>1 DEF MutationsTryOnce, ReadsLeaveTheServer, KeepsItsBudget, IsRead, MayRetry
    <2>6. MutationIsSomewhere'
      <3>1. method # "GET" /\ phase # "connecting"
        BY <2>1 DEF MutationIsSomewhere, Truthful, Denies, IsRead
      <3>2. method' # "GET" /\ phase' # "connecting" /\ reply' = Nothing
        BY <2>1, <3>1
      <3>3. applied' + wire' <= 1
        BY <2>1, AtMostOne
      <3> QED
        BY <3>2, <3>3 DEF MutationIsSomewhere
    <2> QED
      BY <2>1, <2>3, <2>4, <2>5, <2>6
  <1>12. CASE Tick
    BY <1>12, HttpConstants
    DEF Tick, AttemptIsDue, BudgetIsSpent, CallTypeOK, MutationsTryOnce, RepliesHaveTheirPhase,
        ReadsLeaveTheServer, MutationIsSomewhere, ReportIsTrue, FailureIsCertain,
        SuccessIsReal, KeepsItsBudget, IsRead, MayRetry, Phases, Truthful, Denies
  <1> QED
    BY <1>0, <1>1, <1>2, <1>4, <1>5, <1>6, <1>7, <1>8, <1>9, <1>10, <1>11, <1>12
    DEF CallNext, Client

-----------------------------------------------------------------------------
THEOREM CallInvariance == CallSpec => []CallInv
  BY CallInitInvariant, CallNextInvariant, PTL DEF CallSpec

(* No field ever holds what it may not: in particular a read makes at most *)
(* MAX_READ_ATTEMPTS attempts (the loop of send_json, src/api/http.rs).    *)
THEOREM CallTypeCorrect == CallSpec => []CallTypeOK
  <1>1. CallInv => CallTypeOK
    BY DEF CallInv
  <1> QED
    BY <1>1, CallInvariance, PTL

(* A mutation is done at most once, the copies that are still on their way *)
(* to the server counted: whatever times out, breaks or is redirected.     *)
THEOREM MutationsAreDoneOnce == CallSpec => []DoneAtMostOnce
  <1>1. CallInv => DoneAtMostOnce
    BY DEF CallInv, DoneAtMostOnce, ReadsLeaveTheServer, MutationIsSomewhere, CallTypeOK, IsRead
  <1> QED
    BY <1>1, CallInvariance, PTL

(* What is reported as failed was not done and will not be, and what is    *)
(* reported as done was (parse_response, network_error and mutate).        *)
THEOREM ReportsAreTrue == CallSpec => []ReportIsTrue
  <1>1. CallInv => ReportIsTrue
    BY DEF CallInv
  <1> QED
    BY <1>1, CallInvariance, PTL

(* No read outlasts the total deadline, whatever it retries, and no        *)
(* mutation the deadline of its one attempt (Timeouts).                    *)
THEOREM BudgetsAreKept == CallSpec => []KeepsItsBudget
  <1>1. CallInv => KeepsItsBudget
    BY DEF CallInv
  <1> QED
    BY <1>1, CallInvariance, PTL

-----------------------------------------------------------------------------
(* The thread.  Its proofs are about lists of comments without a           *)
(* repetition, over parents that do not run in circles.                    *)
(*                                                                         *)
(* The lines of ancestors: a set is closed when it holds, with a comment,  *)
(* its parent; the line of a comment is the least closed set it is in.     *)

Closed(list, S) == \A c \in S : parents[c] \in Range(list) => parents[c] \in S

LEMMA LineDef ==
    ASSUME NEW list, NEW id
    PROVE  Line(list, id) =
               {a \in Range(list) :
                   \A S \in SUBSET Range(list) : id \in S /\ Closed(list, S) => a \in S}
  BY DEF Line, Closed

LEMMA LineIsClosed ==
    ASSUME NEW list, NEW id \in Range(list)
    PROVE  /\ id \in Line(list, id) /\ Line(list, id) \subseteq Range(list)
           /\ Closed(list, Line(list, id))
  <1>1. id \in Line(list, id) /\ Line(list, id) \subseteq Range(list)
    BY LineDef
  <1>2. ASSUME NEW c \in Line(list, id), parents[c] \in Range(list)
        PROVE  parents[c] \in Line(list, id)
    <2>1. ASSUME NEW S \in SUBSET Range(list), id \in S, Closed(list, S)  PROVE parents[c] \in S
      <3>1. c \in S
        BY <2>1, LineDef
      <3> QED
        BY <1>2, <2>1, <3>1 DEF Closed
    <2> QED
      BY <1>2, <2>1, LineDef
  <1> QED
    BY <1>1, <1>2 DEF Closed

LEMMA LineIsLeast ==
    ASSUME NEW list, NEW id, NEW S \in SUBSET Range(list), id \in S, Closed(list, S)
    PROVE  Line(list, id) \subseteq S
  BY LineDef

(* The line of an ancestor is part of the line.                            *)
LEMMA LineGoesOn ==
    ASSUME NEW list, NEW id \in Range(list), NEW a \in Line(list, id)
    PROVE  Line(list, a) \subseteq Line(list, id)
  BY LineIsClosed, LineIsLeast

LEMMA LineOfTop ==
    ASSUME NEW list, NEW id \in Range(list), parents[id] \notin Range(list)
    PROVE  Line(list, id) = {id}
  <1>1. Closed(list, {id})
    BY DEF Closed
  <1> QED
    BY <1>1, LineIsClosed, LineIsLeast

LEMMA LineOfReply ==
    ASSUME NEW list, NEW id \in Range(list), parents[id] \in Range(list)
    PROVE  Line(list, id) = {id} \union Line(list, parents[id])
  <1> DEFINE p == parents[id]
             S == {id} \union Line(list, p)
  <1>1. p \in Line(list, p) /\ Line(list, p) \subseteq Range(list) /\ Closed(list, Line(list, p))
    BY LineIsClosed
  <1>2. S \in SUBSET Range(list) /\ id \in S /\ Closed(list, S)
    BY <1>1 DEF Closed
  <1>3. Line(list, id) \subseteq S
    BY <1>2, LineIsLeast
  <1>4. id \in Line(list, id) /\ p \in Line(list, id)
    BY LineIsClosed DEF Closed
  <1>5. Line(list, p) \subseteq Line(list, id)
    BY <1>4, LineGoesOn
  <1> QED
    BY <1>3, <1>4, <1>5

(* The paths do not run in circles.                                        *)
LEMMA Grounded ==
    ASSUME parents \in Forests, NEW S \in SUBSET Ids, S # {}
    PROVE  \E c \in S : parents[c] \notin S
  BY ThreadConstants

LEMMA NoCircle ==
    ASSUME parents \in Forests, NEW list, Range(list) \subseteq Ids,
           NEW id \in Range(list), parents[id] \in Range(list)
    PROVE  id \notin Line(list, parents[id])
  <1> SUFFICES ASSUME id \in Line(list, parents[id])  PROVE FALSE
    OBVIOUS
  <1> DEFINE S == {c \in Range(list) : id \in Line(list, c)}
  <1>1. id \in S
    BY LineIsClosed
  <1>2. PICK c \in S : parents[c] \notin S
    BY <1>1, Grounded
  <1>3. c # id
    BY <1>2
  <1>4. parents[c] \in Range(list)
    BY <1>2, <1>3, LineOfTop
  <1>5. id \in Line(list, parents[c])
    BY <1>2, <1>3, <1>4, LineOfReply
  <1> QED
    BY <1>2, <1>4, <1>5

(* A comment without its parent in the list has no ancestors; a reply has  *)
(* its parent's and its parent.                                            *)
LEMMA AncestorsOfTop ==
    ASSUME NEW list, NEW id \in Range(list), parents[id] \notin Range(list)
    PROVE  AncestorsIn(list, id) = {}
  BY LineOfTop DEF AncestorsIn

LEMMA AncestorsOfReply ==
    ASSUME parents \in Forests, NEW list, Range(list) \subseteq Ids,
           NEW id \in Range(list), parents[id] \in Range(list)
    PROVE  /\ AncestorsIn(list, id) = Line(list, parents[id])
           /\ AncestorsIn(list, id) = AncestorsIn(list, parents[id]) \union {parents[id]}
           /\ parents[id] \notin AncestorsIn(list, parents[id])
  BY LineOfReply, NoCircle, LineIsClosed DEF AncestorsIn

-----------------------------------------------------------------------------
(* The trees of siblings.                                                  *)

Tree(list, id) == {c \in Range(list) : id \in Line(list, c)}

Kids(list, p) == {c \in Range(list) : ParentIn(list, parents, c) = p}

Under(list, p) == IF p = NoComment THEN Range(list) ELSE Below(list, p)

LEMMA BelowIsTree ==
    ASSUME NEW list, NEW id \in Range(list)
    PROVE  /\ Below(list, id) = Tree(list, id) \ {id}
           /\ id \in Tree(list, id)
           /\ Tree(list, id) = Below(list, id) \union {id}
           /\ id \notin Below(list, id)
  BY LineIsClosed DEF Below, Tree, AncestorsIn

LEMMA KidFacts ==
    ASSUME parents \in Forests, NEW list, Range(list) \subseteq Ids,
           NEW p \in Range(list) \union {NoComment}, NEW k \in Kids(list, p)
    PROVE  /\ k \in Range(list)
           /\ p = NoComment => parents[k] \notin Range(list)
           /\ p # NoComment => parents[k] = p /\ p \in Range(list)
  <1>1. NoComment \notin Range(list)
    BY ThreadConstants
  <1> QED
    BY <1>1 DEF Kids, ParentIn

(* Under a comment, and under none, are the trees of its replies.          *)
LEMMA TreesOfKids ==
    ASSUME parents \in Forests, NEW list, Range(list) \subseteq Ids,
           NEW p \in Range(list) \union {NoComment}
    PROVE  Under(list, p) = UNION {Tree(list, k) : k \in Kids(list, p)}
  <1>1. ASSUME NEW k \in Kids(list, p), NEW c \in Tree(list, k)
        PROVE  c \in Under(list, p)
    <2>1. c \in Range(list) /\ k \in Line(list, c)
      BY <1>1 DEF Tree
    <2>2. CASE p = NoComment
      BY <2>1, <2>2 DEF Under
    <2>3. CASE p # NoComment
      <3>1. k \in Range(list) /\ parents[k] = p /\ p \in Range(list)
        BY <2>3, KidFacts
      <3>2. p \in Line(list, c)
        BY <2>1, <3>1, LineIsClosed DEF Closed
      <3>3. c # p
        BY <2>1, <3>1, NoCircle
      <3> QED
        BY <2>1, <2>3, <3>2, <3>3 DEF Under, Below, AncestorsIn
    <2> QED
      BY <2>2, <2>3
  <1>2. ASSUME NEW c \in Under(list, p)
        PROVE  \E k \in Kids(list, p) : c \in Tree(list, k)
    <2> DEFINE B == {d \in Under(list, p) : \A k \in Kids(list, p) : d \notin Tree(list, k)}
    <2> SUFFICES ASSUME B # {}  PROVE FALSE
      BY <1>2
    <2>1. Under(list, p) \subseteq Range(list)
      BY DEF Under, Below
    <2>2. B \in SUBSET Ids
      BY <2>1
    <2>3. PICK d \in B : parents[d] \notin B
      BY <2>2, Grounded
    <2>4. d \in Range(list) /\ d \in Under(list, p) /\ d \notin Kids(list, p)
      BY <2>1, <2>3, LineIsClosed DEF Tree
    <2> DEFINE q == parents[d]
    <2>5. q \in Range(list) /\ q # p
      <3>1. CASE p = NoComment
        <4>1. NoComment \notin Range(list)
          BY ThreadConstants
        <4> QED
          BY <2>4, <3>1, <4>1 DEF Kids, ParentIn
      <3>2. CASE p # NoComment
        <4>1. p \in Range(list) /\ p \in Line(list, d) /\ p # d
          BY <2>4, <3>2 DEF Under, Below, AncestorsIn
        <4>2. q \in Range(list)
          BY <2>4, <4>1, LineOfTop
        <4> QED
          BY <2>4, <4>2 DEF Kids, ParentIn
      <3> QED
        BY <3>1, <3>2
    <2>6. q \in Under(list, p)
      <3>1. CASE p = NoComment
        BY <2>5, <3>1 DEF Under
      <3>2. CASE p # NoComment
        <4>1. p \in Line(list, d) /\ p # d
          BY <2>4, <3>2 DEF Under, Below, AncestorsIn
        <4>2. p \in Line(list, q)
          BY <2>4, <2>5, <4>1, LineOfReply
        <4> QED
          BY <2>5, <3>2, <4>2 DEF Under, Below, AncestorsIn
      <3> QED
        BY <3>1, <3>2
    <2>7. PICK k \in Kids(list, p) : q \in Tree(list, k)
      BY <2>3, <2>6
    <2>8. d \in Tree(list, k)
      BY <2>4, <2>5, <2>7, LineOfReply DEF Tree
    <2> QED
      BY <2>3, <2>8
  <1> QED
    BY <1>1, <1>2

LEMMA TreesAreApart ==
    ASSUME parents \in Forests, NEW list, Range(list) \subseteq Ids,
           NEW p \in Range(list) \union {NoComment},
           NEW k \in Kids(list, p), NEW l \in Kids(list, p), k # l
    PROVE  Tree(list, k) \intersect Tree(list, l) = {}
  <1>1. ASSUME NEW m \in Kids(list, p), NEW n \in Kids(list, p), m # n
        PROVE  n \notin Line(list, m)
    <2>1. m \in Range(list) /\ n \in Range(list)
      BY KidFacts
    <2>2. CASE p = NoComment
      <3>1. Line(list, m) = {m}
        BY <2>1, <2>2, KidFacts, LineOfTop
      <3> QED
        BY <1>1, <3>1
    <2>3. CASE p # NoComment
      <3>1. parents[m] = p /\ parents[n] = p /\ p \in Range(list)
        BY <2>3, KidFacts
      <3>2. Line(list, m) = {m} \union Line(list, p) /\ n \notin Line(list, p)
        BY <2>1, <3>1, LineOfReply, NoCircle
      <3> QED
        BY <1>1, <3>2
    <2> QED
      BY <2>2, <2>3
  <1> DEFINE S == Tree(list, k) \intersect Tree(list, l)
  <1> SUFFICES ASSUME S # {}  PROVE FALSE
    OBVIOUS
  <1>2. S \in SUBSET Ids
    BY DEF Tree
  <1>3. PICK c \in S : parents[c] \notin S
    BY <1>2, Grounded
  <1>4. c \in Range(list) /\ k \in Line(list, c) /\ l \in Line(list, c)
    BY <1>3 DEF Tree
  <1>5. c # k /\ c # l
    BY <1>1, <1>4
  <1>6. parents[c] \in Range(list)
    BY <1>4, <1>5, LineOfTop
  <1>7. k \in Line(list, parents[c]) /\ l \in Line(list, parents[c])
    BY <1>4, <1>5, <1>6, LineOfReply
  <1> QED
    BY <1>3, <1>6, <1>7 DEF Tree
-----------------------------------------------------------------------------
(* The rows of a thread.  Rows are a walk of a set of comments when they   *)
(* are these, once each, and every row is placed as the thread has it.     *)

RowSet == [id : Ids, depth : Nat, replies : Nat]

Placed(list, rows, i) ==
    /\ rows[i].replies \in Nat /\ i + rows[i].replies <= Len(rows)
    /\ {rows[k].id : k \in i + 1 .. i + rows[i].replies} = Below(list, rows[i].id)
    /\ rows[i].depth = Cardinality(AncestorsIn(list, rows[i].id)) % 256

IsWalk(list, rows, S) ==
    /\ rows \in Seq(RowSet)
    /\ {rows[i].id : i \in 1 .. Len(rows)} = S
    /\ \A i, j \in 1 .. Len(rows) : rows[i].id = rows[j].id => i = j
    /\ \A i \in 1 .. Len(rows) : Placed(list, rows, i)

(* A row that is placed stays so when rows are put before and after.       *)
LEMMA PlacedAmong ==
    ASSUME NEW list, NEW rows \in Seq(RowSet), NEW all \in Seq(RowSet), NEW n \in Nat,
           n + Len(rows) <= Len(all), \A i \in 1 .. Len(rows) : all[n + i] = rows[i],
           NEW i \in 1 .. Len(rows), Placed(list, rows, i)
    PROVE  Placed(list, all, n + i)
  <1> DEFINE r == rows[i].replies
  <1>1. all[n + i] = rows[i] /\ r \in Nat /\ i + r <= Len(rows)
    BY DEF Placed
  <1> HIDE DEF r
  <1>2. Len(rows) \in Nat /\ Len(all) \in Nat /\ i \in Nat
    OBVIOUS
  <1>3. n + i + r <= Len(all)
    BY <1>1, <1>2
  <1>4. {all[k].id : k \in n + i + 1 .. n + i + r} = {rows[k].id : k \in i + 1 .. i + r}
    <2>1. ASSUME NEW k \in n + i + 1 .. n + i + r
          PROVE  k - n \in i + 1 .. i + r /\ all[k] = rows[k - n]
      <3>1. k - n \in i + 1 .. i + r /\ k - n \in 1 .. Len(rows) /\ n + (k - n) = k
        BY <1>1, <1>2
      <3> QED
        BY <3>1
    <2>2. ASSUME NEW k \in i + 1 .. i + r
          PROVE  n + k \in n + i + 1 .. n + i + r /\ all[n + k] = rows[k]
      <3>1. k \in 1 .. Len(rows)
        BY <1>1, <1>2
      <3> QED
        BY <1>1, <1>2, <3>1
    <2>3. ASSUME NEW k \in n + i + 1 .. n + i + r
          PROVE  all[k].id \in {rows[m].id : m \in i + 1 .. i + r}
      BY <2>1
    <2>4. ASSUME NEW k \in i + 1 .. i + r
          PROVE  rows[k].id \in {all[m].id : m \in n + i + 1 .. n + i + r}
      <3>1. n + k \in n + i + 1 .. n + i + r /\ all[n + k].id = rows[k].id
        BY <2>2
      <3> QED
        BY <3>1
    <2> QED
      BY <2>3, <2>4
  <1>5. all[n + i].replies = r
    BY <1>1 DEF r
  <1> QED
    BY <1>1, <1>3, <1>4, <1>5 DEF Placed, r

LEMMA WalkOfNone ==
    ASSUME NEW list
    PROVE  IsWalk(list, <<>>, {})
  BY DEF IsWalk

(* Two walks after one another.                                            *)
LEMMA WalkGoesOn ==
    ASSUME NEW list, NEW v, NEW w, NEW S, NEW T, S \intersect T = {},
           IsWalk(list, v, S), IsWalk(list, w, T)
    PROVE  IsWalk(list, v \o w, S \union T)
  <1> DEFINE u == v \o w
             n == Len(v)
  <1>1. v \in Seq(RowSet) /\ w \in Seq(RowSet) /\ n \in Nat /\ Len(w) \in Nat
    BY DEF IsWalk
  <1>2. /\ u \in Seq(RowSet) /\ Len(u) = n + Len(w)
        /\ \A i \in 1 .. n + Len(w) : u[i] = IF i <= n THEN v[i] ELSE w[i - n]
    BY <1>1, ConcatProperties
  <1> HIDE DEF u
  <1>3. /\ \A i \in 1 .. n : u[i] = v[i] /\ i \in 1 .. Len(u)
        /\ \A i \in 1 .. Len(w) : u[n + i] = w[i] /\ n + i \in 1 .. Len(u)
        /\ \A i \in 1 .. Len(u) :
               i \in 1 .. n \/ (i - n \in 1 .. Len(w) /\ i = n + (i - n))
    <2>1. \A i \in 1 .. n : u[i] = v[i] /\ i \in 1 .. Len(u)
      BY <1>1, <1>2
    <2>2. \A i \in 1 .. Len(w) : n + i \in 1 .. Len(u) /\ ~ (n + i <= n) /\ (n + i) - n = i
      BY <1>1, <1>2
    <2>3. \A i \in 1 .. Len(w) : u[n + i] = w[i]
      BY <1>2, <2>2
    <2>4. \A i \in 1 .. Len(u) : i \in 1 .. n \/ (i - n \in 1 .. Len(w) /\ i = n + (i - n))
      BY <1>1, <1>2
    <2> QED
      BY <2>1, <2>2, <2>3, <2>4
  <1>4. {u[i].id : i \in 1 .. Len(u)} = S \union T
    <2>1. ASSUME NEW i \in 1 .. Len(u)  PROVE u[i].id \in S \union T
      <3>1. CASE i \in 1 .. n
        <4>1. v[i].id \in S
          BY <3>1 DEF IsWalk
        <4> QED
          BY <1>3, <3>1, <4>1
      <3>2. CASE i \notin 1 .. n
        <4>1. i - n \in 1 .. Len(w) /\ i = n + (i - n)
          BY <1>3, <3>2
        <4>2. w[i - n].id \in T
          BY <4>1 DEF IsWalk
        <4> QED
          BY <1>3, <4>1, <4>2
      <3> QED
        BY <3>1, <3>2
    <2>2. \A s \in S : \E i \in 1 .. Len(u) : u[i].id = s
      BY <1>3 DEF IsWalk
    <2>3. \A t \in T : \E i \in 1 .. Len(u) : u[i].id = t
      BY <1>3 DEF IsWalk
    <2> QED
      BY <2>1, <2>2, <2>3
  <1>5. ASSUME NEW i \in 1 .. Len(u), NEW j \in 1 .. Len(u), u[i].id = u[j].id
        PROVE  i = j
    <2>1. \A k \in 1 .. n : v[k].id \in S
      BY DEF IsWalk
    <2>2. \A k \in 1 .. Len(w) : w[k].id \in T
      BY DEF IsWalk
    <2>3. CASE i \in 1 .. n /\ j \in 1 .. n
      BY <1>3, <1>5, <2>3 DEF IsWalk
    <2>4. CASE i \notin 1 .. n /\ j \notin 1 .. n
      <3>1. i - n \in 1 .. Len(w) /\ j - n \in 1 .. Len(w) /\ i = n + (i - n) /\ j = n + (j - n)
        BY <1>3, <2>4
      <3>2. w[i - n].id = w[j - n].id
        BY <1>3, <1>5, <3>1
      <3>3. i - n = j - n
        BY <3>1, <3>2 DEF IsWalk
      <3> QED
        BY <3>1, <3>3
    <2>5. CASE i \in 1 .. n /\ j \notin 1 .. n
      <3>1. j - n \in 1 .. Len(w) /\ u[j] = w[j - n] /\ u[i] = v[i]
        BY <1>3, <2>5
      <3> QED
        BY <1>5, <2>1, <2>2, <2>5, <3>1
    <2>6. CASE i \notin 1 .. n /\ j \in 1 .. n
      <3>1. i - n \in 1 .. Len(w) /\ u[i] = w[i - n] /\ u[j] = v[j]
        BY <1>3, <2>6
      <3> QED
        BY <1>5, <2>1, <2>2, <2>6, <3>1
    <2> QED
      BY <2>3, <2>4, <2>5, <2>6
  <1>6. ASSUME NEW i \in 1 .. Len(u)  PROVE Placed(list, u, i)
    <2>1. CASE i \in 1 .. n
      <3>1. 0 + n <= Len(u) /\ \A k \in 1 .. n : 0 + k = k /\ u[0 + k] = v[k]
        BY <1>1, <1>2, <1>3
      <3>2. Placed(list, v, i)
        BY <2>1 DEF IsWalk
      <3>3. Placed(list, u, 0 + i)
        BY <1>1, <1>2, <2>1, <3>1, <3>2, PlacedAmong
      <3> QED
        BY <2>1, <3>1, <3>3
    <2>2. CASE i \notin 1 .. n
      <3>1. i - n \in 1 .. Len(w) /\ i = n + (i - n)
        BY <1>3, <2>2
      <3>2. Placed(list, w, i - n)
        BY <3>1 DEF IsWalk
      <3>3. n + Len(w) <= Len(u) /\ \A k \in 1 .. Len(w) : u[n + k] = w[k]
        BY <1>1, <1>2, <1>3
      <3>4. Placed(list, u, n + (i - n))
        BY <1>1, <1>2, <3>1, <3>2, <3>3, PlacedAmong
      <3> QED
        BY <3>1, <3>4
    <2> QED
      BY <2>1, <2>2
  <1> QED
    BY <1>2, <1>4, <1>5, <1>6 DEF IsWalk, u

(* A comment before the walk of what is below it.                          *)
LEMMA WalkOfComment ==
    ASSUME NEW list, Range(list) \subseteq Ids, NEW id \in Range(list), NEW depth \in Nat,
           depth = Cardinality(AncestorsIn(list, id)),
           NEW w, IsWalk(list, w, Below(list, id))
    PROVE  IsWalk(list, <<Row(id, depth, Len(w))>> \o w, Tree(list, id))
  <1> DEFINE row == Row(id, depth, Len(w))
             u == <<row>> \o w
  <1>1. w \in Seq(RowSet) /\ Len(w) \in Nat
    BY DEF IsWalk
  <1>2. row \in RowSet /\ row.id = id /\ row.depth = depth % 256 /\ row.replies = Len(w)
    <2>1. depth % 256 \in Nat
      OBVIOUS
    <2> QED
      BY <1>1, <2>1 DEF Row, RowSet
  <1> HIDE DEF row
  <1>3. <<row>> \in Seq(RowSet) /\ Len(<<row>>) = 1 /\ <<row>>[1] = row
    BY <1>2
  <1>4. /\ u \in Seq(RowSet) /\ Len(u) = 1 + Len(w)
        /\ \A i \in 1 .. 1 + Len(w) : u[i] = IF i <= 1 THEN <<row>>[i] ELSE w[i - 1]
    BY <1>1, <1>3, ConcatProperties
  <1> HIDE DEF u
  <1>5. /\ u[1] = row /\ 1 \in 1 .. Len(u)
        /\ \A i \in 1 .. Len(w) : u[1 + i] = w[i] /\ 1 + i \in 1 .. Len(u)
        /\ \A i \in 1 .. Len(u) : i = 1 \/ (i - 1 \in 1 .. Len(w) /\ i = 1 + (i - 1))
    <2>1. 1 \in 1 .. 1 + Len(w) /\ 1 <= 1
      BY <1>1
    <2>2. u[1] = row
      BY <1>3, <1>4, <2>1
    <2>3. \A i \in 1 .. Len(w) : 1 + i \in 1 .. Len(u) /\ ~ (1 + i <= 1) /\ (1 + i) - 1 = i
      BY <1>1, <1>4
    <2>4. \A i \in 1 .. Len(w) : u[1 + i] = w[i]
      BY <1>4, <2>3
    <2>5. \A i \in 1 .. Len(u) : i = 1 \/ (i - 1 \in 1 .. Len(w) /\ i = 1 + (i - 1))
      BY <1>1, <1>4
    <2> QED
      BY <1>4, <2>1, <2>2, <2>3, <2>4, <2>5
  <1>6. Tree(list, id) = Below(list, id) \union {id} /\ id \notin Below(list, id)
    BY BelowIsTree
  <1>7. {u[i].id : i \in 1 .. Len(u)} = Tree(list, id)
    <2>1. ASSUME NEW i \in 1 .. Len(u)  PROVE u[i].id \in Tree(list, id)
      <3>1. CASE i = 1
        BY <1>2, <1>5, <1>6, <3>1
      <3>2. CASE i # 1
        <4>1. i - 1 \in 1 .. Len(w) /\ i = 1 + (i - 1)
          BY <1>5, <3>2
        <4>2. w[i - 1].id \in Below(list, id)
          BY <4>1 DEF IsWalk
        <4> QED
          BY <1>5, <1>6, <4>1, <4>2
      <3> QED
        BY <3>1, <3>2
    <2>2. \A c \in Below(list, id) : \E i \in 1 .. Len(u) : u[i].id = c
      BY <1>5 DEF IsWalk
    <2> QED
      BY <1>2, <1>5, <1>6, <2>1, <2>2
  <1>8. ASSUME NEW i \in 1 .. Len(u), NEW j \in 1 .. Len(u), u[i].id = u[j].id
        PROVE  i = j
    <2>1. \A k \in 1 .. Len(w) : w[k].id # id
      BY <1>6 DEF IsWalk
    <2>2. \A k \in 1 .. Len(u) : k = 1 \/ u[k].id # id
      <3> TAKE k \in 1 .. Len(u)
      <3> SUFFICES ASSUME k # 1  PROVE u[k].id # id
        OBVIOUS
      <3>1. k - 1 \in 1 .. Len(w) /\ k = 1 + (k - 1)
        BY <1>5
      <3>2. u[k] = w[k - 1] /\ w[k - 1].id # id
        BY <1>5, <2>1, <3>1
      <3> QED
        BY <3>2
    <2>3. CASE i = 1 \/ j = 1
      BY <1>2, <1>5, <1>8, <2>2, <2>3
    <2>4. CASE i # 1 /\ j # 1
      <3>1. i - 1 \in 1 .. Len(w) /\ j - 1 \in 1 .. Len(w) /\ i = 1 + (i - 1) /\ j = 1 + (j - 1)
        BY <1>5, <2>4
      <3>2. w[i - 1].id = w[j - 1].id
        BY <1>5, <1>8, <3>1
      <3>3. i - 1 = j - 1
        BY <3>1, <3>2 DEF IsWalk
      <3> QED
        BY <3>1, <3>3
    <2> QED
      BY <2>3, <2>4
  <1>9. ASSUME NEW i \in 1 .. Len(u)  PROVE Placed(list, u, i)
    <2>1. CASE i = 1
      <3>1. 1 + Len(w) <= Len(u)
        BY <1>1, <1>4
      <3>2. {u[k].id : k \in 1 + 1 .. 1 + Len(w)} = Below(list, id)
        <4>1. \A k \in 1 + 1 .. 1 + Len(w) : k - 1 \in 1 .. Len(w) /\ k = 1 + (k - 1)
          BY <1>1
        <4>2. ASSUME NEW k \in 1 + 1 .. 1 + Len(w)  PROVE u[k].id \in Below(list, id)
          <5>1. u[k] = w[k - 1]
            BY <1>5, <4>1
          <5>2. w[k - 1].id \in Below(list, id)
            BY <4>1 DEF IsWalk
          <5> QED
            BY <5>1, <5>2
        <4>3. \A k \in 1 .. Len(w) : 1 + k \in 1 + 1 .. 1 + Len(w)
          BY <1>1
        <4>4. \A c \in Below(list, id) : \E k \in 1 + 1 .. 1 + Len(w) : u[k].id = c
          BY <1>5, <4>3 DEF IsWalk
        <4> QED
          BY <4>2, <4>4
      <3> QED
        BY <1>1, <1>2, <1>5, <2>1, <3>1, <3>2 DEF Placed
    <2>2. CASE i # 1
      <3>1. i - 1 \in 1 .. Len(w) /\ i = 1 + (i - 1)
        BY <1>5, <2>2
      <3>2. Placed(list, w, i - 1)
        BY <3>1 DEF IsWalk
      <3>3. 1 + Len(w) <= Len(u) /\ \A k \in 1 .. Len(w) : u[1 + k] = w[k]
        BY <1>1, <1>4, <1>5
      <3>4. Placed(list, u, 1 + (i - 1))
        BY <1>1, <1>4, <3>1, <3>2, <3>3, PlacedAmong
      <3> QED
        BY <3>1, <3>4
    <2> QED
      BY <2>1, <2>2
  <1> QED
    BY <1>4, <1>7, <1>8, <1>9 DEF IsWalk, u, row

-----------------------------------------------------------------------------
(* Lists: the sequences of comments without a repetition.                  *)

LEMMA CountOnce ==
    ASSUME NEW m \in Nat, NEW n \in Nat, m <= n + 1, NEW f, DOMAIN f = m .. n, IsInjective(f)
    PROVE  IsFiniteSet(Range(f)) /\ Cardinality(Range(f)) = n - m + 1
  <1> DEFINE D == m .. n
             g == [k \in D |-> f[k]]
  <1>1. IsFiniteSet(D) /\ Cardinality(D) = n - m + 1
    BY FS_Interval
  <1>2. g \in Bijection(D, Range(f))
    <2>1. g \in [D -> Range(f)]
      BY DEF Range
    <2>2. IsInjective(g)
      BY DEF IsInjective
    <2>3. \A t \in Range(f) : \E k \in D : g[k] = t
      BY DEF Range
    <2> QED
      BY <2>1, <2>2, <2>3 DEF Bijection, Injection, Surjection
  <1>3. ExistsBijection(D, Range(f))
    BY <1>2 DEF ExistsBijection
  <1> QED
    BY <1>1, <1>3, FS_Bijection

LEMMA ListFacts ==
    ASSUME NEW list \in Lists
    PROVE  list \in Seq(Ids) /\ IsInjective(list) /\ Range(list) \subseteq Ids
  <1>1. PICK S \in SUBSET Ids : list \in SetToSeqs(S)
    BY DEF Lists
  <1>2. IsFiniteSet(S)
    BY ThreadConstants, FS_Subset
  <1>3. Cardinality(S) \in Nat
    BY <1>2, FS_CardinalityType
  <1>4. /\ list \in [1 .. Cardinality(S) -> S]
        /\ \A i, j \in 1 .. Cardinality(S) : i # j => list[i] # list[j]
    BY <1>1 DEF SetToSeqs
  <1> QED
    BY <1>3, <1>4 DEF IsInjective, Range

LEMMA IsAList ==
    ASSUME NEW list \in Seq(Ids), IsInjective(list)
    PROVE  list \in Lists
  <1>1. Len(list) \in Nat /\ DOMAIN list = 1 .. Len(list) /\ Range(list) \in SUBSET Ids
    BY DEF Range
  <1>2. Cardinality(Range(list)) = Len(list)
    <2>1. Cardinality(Range(list)) = Len(list) - 1 + 1
      BY <1>1, CountOnce
    <2> QED
      BY <1>1, <2>1
  <1>3. list \in [1 .. Len(list) -> Range(list)]
    BY <1>1 DEF Range
  <1>4. \A i, j \in 1 .. Len(list) : i # j => list[i] # list[j]
    BY <1>1 DEF IsInjective
  <1>5. list \in SetToSeqs(Range(list))
    BY <1>2, <1>3, <1>4 DEF SetToSeqs
  <1> QED
    BY <1>1, <1>5 DEF Lists

LEMMA ListSize ==
    ASSUME NEW list \in Lists
    PROVE  /\ IsFiniteSet(Range(list)) /\ Cardinality(Range(list)) = Len(list)
           /\ Len(list) \in Nat
  <1>1. Len(list) \in Nat /\ DOMAIN list = 1 .. Len(list) /\ IsInjective(list)
    BY ListFacts
  <1>2. IsFiniteSet(Range(list)) /\ Cardinality(Range(list)) = Len(list) - 1 + 1
    BY <1>1, CountOnce
  <1> QED
    BY <1>1, <1>2

-----------------------------------------------------------------------------
(* How deep a comment is.                                                  *)

DepthIn(list, id) == Cardinality(AncestorsIn(list, id))

LEMMA DepthFacts ==
    ASSUME parents \in Forests, NEW list \in Lists, NEW id \in Range(list)
    PROVE  /\ DepthIn(list, id) \in 0 .. Len(list) - 1
           /\ parents[id] \notin Range(list) => DepthIn(list, id) = 0
           /\ parents[id] \in Range(list) => DepthIn(list, id) = DepthIn(list, parents[id]) + 1
  <1>1. /\ IsFiniteSet(Range(list)) /\ Cardinality(Range(list)) = Len(list)
        /\ Len(list) \in Nat /\ Range(list) \subseteq Ids
    BY ListSize, ListFacts
  <1>2. ASSUME NEW c \in Range(list)
        PROVE  /\ IsFiniteSet(AncestorsIn(list, c)) /\ c \notin AncestorsIn(list, c)
               /\ AncestorsIn(list, c) \subseteq Range(list)
    <2>1. AncestorsIn(list, c) \in SUBSET Range(list) /\ c \notin AncestorsIn(list, c)
      BY LineIsClosed DEF AncestorsIn
    <2> QED
      BY <1>1, <2>1, FS_Subset
  <1>3. DepthIn(list, id) \in 0 .. Len(list) - 1
    <2> DEFINE A == AncestorsIn(list, id)
    <2>1. IsFiniteSet(A) /\ id \notin A /\ A \subseteq Range(list)
      BY <1>2
    <2>2. Cardinality(A) \in Nat
      BY <2>1, FS_CardinalityType
    <2>3. Cardinality(A \union {id}) = Cardinality(A) + 1
      BY <2>1, FS_AddElement
    <2>4. A \union {id} \in SUBSET Range(list)
      BY <2>1
    <2>5. Cardinality(A \union {id}) <= Len(list)
      BY <1>1, <2>4, FS_Subset
    <2> HIDE DEF A
    <2>6. Cardinality(A) \in 0 .. Len(list) - 1
      BY <1>1, <2>2, <2>3, <2>5
    <2> QED
      BY <2>6 DEF A, DepthIn
  <1>4. ASSUME parents[id] \notin Range(list)  PROVE DepthIn(list, id) = 0
    BY <1>4, AncestorsOfTop, FS_EmptySet DEF DepthIn
  <1>5. ASSUME parents[id] \in Range(list)
        PROVE  DepthIn(list, id) = DepthIn(list, parents[id]) + 1
    <2> DEFINE A == AncestorsIn(list, parents[id])
    <2>1. AncestorsIn(list, id) = A \union {parents[id]} /\ parents[id] \notin A
      BY <1>1, <1>5, AncestorsOfReply
    <2>2. IsFiniteSet(A)
      BY <1>2, <1>5
    <2>3. Cardinality(A \union {parents[id]}) = Cardinality(A) + 1
      BY <2>1, <2>2, FS_AddElement
    <2> QED
      BY <2>1, <2>3 DEF DepthIn
  <1> QED
    BY <1>3, <1>4, <1>5

-----------------------------------------------------------------------------
(* Visit walks the trees.                                                  *)

LEMMA KidsInOrder ==
    ASSUME NEW list \in Lists, NEW p
    PROVE  /\ Children(list, parents, p) \in Seq(Ids)
           /\ IsInjective(Children(list, parents, p))
           /\ Len(Children(list, parents, p)) \in Nat
           /\ \A i \in 1 .. Len(Children(list, parents, p)) :
                  Children(list, parents, p)[i] \in Kids(list, p)
           /\ \A k \in Kids(list, p) :
                  \E i \in 1 .. Len(Children(list, parents, p)) : Children(list, parents, p)[i] = k
  <1> DEFINE kids == Children(list, parents, p)
  <1>1. kids = Retained(list, Kids(list, p))
    BY DEF Children, Kids
  <1>2. list \in Seq(Ids) /\ IsInjective(list)
    BY ListFacts
  <1>3. kids \in Seq(Ids) /\ KeptOf(kids, list, Kids(list, p), Len(list)) /\ IsInjective(kids)
    BY <1>1, <1>2, RetainedKeeps
  <1> HIDE DEF kids
  <1>4. Len(kids) \in Nat /\ DOMAIN kids = 1 .. Len(kids)
    BY <1>3
  <1>5. \A k \in Kids(list, p) : \E j \in 1 .. Len(list) : list[j] = k
    BY <1>2 DEF Kids, Range
  <1>6. \A i \in 1 .. Len(kids) : kids[i] \in Kids(list, p)
    BY <1>3, <1>4 DEF KeptOf
  <1>7. \A k \in Kids(list, p) : \E i \in 1 .. Len(kids) : kids[i] = k
    BY <1>3, <1>4, <1>5 DEF KeptOf
  <1> QED
    BY <1>3, <1>4, <1>6, <1>7 DEF kids

(* The walks of the trees of siblings, after one another, are a walk of    *)
(* what is under their parent.                                             *)
LEMMA SiblingsWalk ==
    ASSUME parents \in Forests, NEW list \in Lists, NEW p \in Range(list) \union {NoComment},
           NEW v, \A k \in Kids(list, p) : IsWalk(list, v[k], Tree(list, k)),
           NEW kids, kids = Children(list, parents, p)
    PROVE  IsWalk(list, FlattenSeq([i \in DOMAIN kids |-> v[kids[i]]]), Under(list, p))
  <1> DEFINE seqs == [i \in DOMAIN kids |-> v[kids[i]]]
             N == Len(kids)
             U(n) == UNION {Tree(list, kids[j]) : j \in 1 .. n}
  <1>1. /\ kids \in Seq(Ids) /\ N \in Nat /\ IsInjective(kids) /\ DOMAIN kids = 1 .. N
        /\ \A i \in 1 .. N : kids[i] \in Kids(list, p)
        /\ \A k \in Kids(list, p) : \E i \in 1 .. N : kids[i] = k
    BY KidsInOrder
  <1>2. \A i \in 1 .. N : seqs[i] \in Seq(RowSet) /\ IsWalk(list, seqs[i], Tree(list, kids[i]))
    BY <1>1 DEF IsWalk
  <1>3. seqs \in Seq(Seq(RowSet)) /\ Len(seqs) = N
    BY <1>1, <1>2
  <1> HIDE DEF seqs
  <1>4. PICK f : /\ f \in [0 .. N -> Seq(RowSet)]
                 /\ f[0] = <<>>
                 /\ \A i \in 1 .. N : f[i] = f[i - 1] \o seqs[i]
                 /\ FlattenSeq(seqs) = f[N]
    <2> HIDE DEF N
    <2> QED
      BY <1>3, FlattenTrace
  <1> DEFINE T == {n \in Nat : n <= N => IsWalk(list, f[n], U(n))}
  <1>5. 0 \in T
    <2>1. U(0) = {}
      OBVIOUS
    <2> QED
      BY <1>4, <2>1, WalkOfNone
  <1>6. ASSUME NEW n \in Nat, n \in T  PROVE n + 1 \in T
    <2> SUFFICES ASSUME n + 1 <= N  PROVE IsWalk(list, f[n + 1], U(n + 1))
      OBVIOUS
    <2>1. n + 1 \in 1 .. N /\ (n + 1) - 1 = n /\ n <= N
      BY <1>1
    <2>2. f[n + 1] = f[n] \o seqs[n + 1]
      BY <1>4, <2>1
    <2>3. U(n + 1) = U(n) \union Tree(list, kids[n + 1])
      <3>1. 1 .. n + 1 = 1 .. n \union {n + 1}
        OBVIOUS
      <3> QED
        BY <3>1
    <2>4. U(n) \intersect Tree(list, kids[n + 1]) = {}
      <3>1. ASSUME NEW j \in 1 .. n
            PROVE  Tree(list, kids[j]) \intersect Tree(list, kids[n + 1]) = {}
        <4>1. j \in 1 .. N /\ j # n + 1
          BY <1>1, <2>1
        <4>2. kids[j] # kids[n + 1]
          BY <1>1, <2>1, <4>1 DEF IsInjective
        <4> QED
          BY <1>1, <2>1, <4>1, <4>2, ListFacts, TreesAreApart
      <3> QED
        BY <3>1
    <2>5. IsWalk(list, f[n], U(n)) /\ IsWalk(list, seqs[n + 1], Tree(list, kids[n + 1]))
      BY <1>2, <1>6, <2>1
    <2> HIDE DEF U
    <2> QED
      BY <2>2, <2>3, <2>4, <2>5, WalkGoesOn
  <1> HIDE DEF T
  <1>7. Nat \subseteq T
    BY <1>5, <1>6, Induction
  <1>8. IsWalk(list, f[N], U(N))
    <2>1. N \in T /\ N <= N
      BY <1>1, <1>7
    <2> HIDE DEF N, U
    <2> QED
      BY <2>1 DEF T
  <1>9. U(N) = Under(list, p)
    <2>1. U(N) = UNION {Tree(list, k) : k \in Kids(list, p)}
      BY <1>1
    <2> QED
      BY <2>1, ListFacts, TreesOfKids
  <1> QED
    BY <1>4, <1>8, <1>9 DEF seqs

(* The function in the definition of Visit, from the depth m on.           *)
Visits(visit, list, m) ==
    visit = [depth \in m .. Len(list) |->
                IF depth = Len(list) THEN [id \in Range(list) |-> <<>>]
                ELSE [id \in Range(list) |->
                        LET kids == Children(list, parents, id)
                            below == FlattenSeq([i \in DOMAIN kids |-> visit[depth + 1][kids[i]]])
                        IN  <<Row(id, depth, Len(below))>> \o below]]

(* It exists: from the last depth upwards.                                 *)
LEMMA VisitsExists ==
    ASSUME NEW list, Len(list) \in Nat
    PROVE  \E visit : Visits(visit, list, 0)
  <1> DEFINE N == Len(list)
             Rec(visit, depth) ==
                IF depth = N THEN [id \in Range(list) |-> <<>>]
                ELSE [id \in Range(list) |->
                        LET kids == Children(list, parents, id)
                            below == FlattenSeq([i \in DOMAIN kids |-> visit[depth + 1][kids[i]]])
                        IN  <<Row(id, depth, Len(below))>> \o below]
             T == {n \in Nat : n <= N => \E visit : Visits(visit, list, N - n)}
  <1>0. N \in Nat
    OBVIOUS
  <1>1. \A visit, m : Visits(visit, list, m) <=> visit = [depth \in m .. N |-> Rec(visit, depth)]
    BY DEF Visits
  <1>2. 0 \in T
    <2> DEFINE visit == [depth \in N .. N |-> [id \in Range(list) |-> <<>>]]
    <2>1. \A depth \in N .. N : depth = N
      OBVIOUS
    <2>2. visit = [depth \in N .. N |-> Rec(visit, depth)]
      BY <2>1
    <2> HIDE DEF visit, Rec
    <2>3. Visits(visit, list, N)
      BY <1>1, <2>2
    <2>4. N - 0 = N
      OBVIOUS
    <2> QED
      BY <2>3, <2>4
  <1>3. ASSUME NEW n \in Nat, n \in T  PROVE n + 1 \in T
    <2> SUFFICES ASSUME n + 1 <= N  PROVE \E visit : Visits(visit, list, N - (n + 1))
      OBVIOUS
    <2> DEFINE m == N - (n + 1)
    <2>1. m \in Nat /\ m # N /\ N - n = m + 1 /\ n <= N
      OBVIOUS
    <2>2. PICK old : Visits(old, list, m + 1)
      BY <1>3, <2>1
    <2>3. old = [depth \in m + 1 .. N |-> Rec(old, depth)]
      BY <1>1, <2>2
    <2> DEFINE new == [depth \in m .. N |-> IF depth = m THEN Rec(old, m) ELSE old[depth]]
    <2>4. \A depth \in m .. N : depth # N => depth + 1 \in m + 1 .. N /\ depth + 1 # m
                                            /\ depth + 1 \in m .. N
      <3> HIDE DEF m, N
      <3> QED
        BY <2>1, <1>0
    <2>5. \A depth \in m .. N : depth # N => new[depth + 1] = old[depth + 1]
      <3> HIDE DEF m, Rec
      <3> QED
        BY <2>4
    <2> HIDE DEF new
    <2>6. \A depth \in m .. N : Rec(new, depth) = Rec(old, depth)
      BY <2>5
    <2>7. \A depth \in m .. N : depth # m => depth \in m + 1 .. N
      <3> HIDE DEF m, N
      <3> QED
        BY <2>1, <1>0
    <2> HIDE DEF Rec, m
    <2>8. \A depth \in m .. N : depth # m => old[depth] = Rec(old, depth)
      BY <2>3, <2>7
    <2>9. new = [depth \in m .. N |-> Rec(new, depth)]
      BY <2>6, <2>8 DEF new
    <2>10. Visits(new, list, m)
      BY <1>1, <2>9
    <2> QED
      BY <2>10 DEF m
  <1> HIDE DEF T
  <1>4. Nat \subseteq T
    BY <1>2, <1>3, Induction
  <1>5. N \in T /\ N <= N /\ N - N = 0
    BY <1>4
  <1> QED
    BY <1>5 DEF T

LEMMA VisitDef ==
    ASSUME NEW list, Len(list) \in Nat
    PROVE  Visits(Visit(list, parents), list, 0)
  <1>1. Visit(list, parents) = CHOOSE visit : Visits(visit, list, 0)
    BY DEF Visit, Visits
  <1> QED
    BY <1>1, VisitsExists

(* At the depth of a comment is the walk of its tree.                      *)
LEMMA VisitWalks ==
    ASSUME parents \in Forests, NEW list \in Lists, NEW id \in Range(list)
    PROVE  IsWalk(list, Visit(list, parents)[DepthIn(list, id)][id], Tree(list, id))
  <1> DEFINE N == Len(list)
             visit == Visit(list, parents)
             T == {n \in Nat : n <= N =>
                       \A c \in Range(list) :
                           DepthIn(list, c) = N - n => IsWalk(list, visit[N - n][c], Tree(list, c))}
  <1>1. N \in Nat /\ Range(list) \subseteq Ids
    BY ListSize, ListFacts
  <1>2. Visits(visit, list, 0)
    BY <1>1, VisitDef
  <1> HIDE DEF visit
  <1>3. 0 \in T
    <2> SUFFICES ASSUME NEW c \in Range(list), DepthIn(list, c) = N - 0  PROVE FALSE
      OBVIOUS
    <2> QED
      BY <1>1, DepthFacts
  <1>4. ASSUME NEW n \in Nat, n \in T  PROVE n + 1 \in T
    <2> SUFFICES ASSUME n + 1 <= N, NEW c \in Range(list), DepthIn(list, c) = N - (n + 1)
                 PROVE  IsWalk(list, visit[N - (n + 1)][c], Tree(list, c))
      OBVIOUS
    <2> DEFINE m == N - (n + 1)
               kids == Children(list, parents, c)
               v == visit[m + 1]
               below == FlattenSeq([i \in DOMAIN kids |-> v[kids[i]]])
    <2>1. m \in 0 .. N /\ m \in Nat /\ m # N /\ N - n = m + 1 /\ n <= N
      BY <1>1
    <2>2. visit[m][c] = <<Row(c, m, Len(below))>> \o below
      <3> DEFINE R(depth) ==
                    IF depth = N THEN [d \in Range(list) |-> <<>>]
                    ELSE [d \in Range(list) |->
                            LET replies == Children(list, parents, d)
                                under == FlattenSeq([i \in DOMAIN replies |->
                                                        visit[depth + 1][replies[i]]])
                            IN  <<Row(d, depth, Len(under))>> \o under]
      <3>1. visit = [depth \in 0 .. N |-> R(depth)]
        BY <1>2 DEF Visits
      <3> HIDE DEF m
      <3>2. R(m)[c] = <<Row(c, m, Len(below))>> \o below
        BY <2>1
      <3> HIDE DEF R
      <3>3. visit[m] = R(m)
        BY <2>1, <3>1
      <3> QED
        BY <3>2, <3>3
    <2>3. ASSUME NEW k \in Kids(list, c)  PROVE IsWalk(list, v[k], Tree(list, k))
      <3>1. k \in Range(list) /\ parents[k] = c
        <4>1. c # NoComment
          BY <1>1, ThreadConstants
        <4> QED
          BY <1>1, <4>1, KidFacts
      <3>2. DepthIn(list, k) = m + 1
        BY <3>1, DepthFacts
      <3> QED
        BY <1>4, <2>1, <3>1, <3>2
    <2>4. Under(list, c) = Below(list, c)
      BY <1>1, ThreadConstants DEF Under
    <2>5. IsWalk(list, below, Below(list, c))
      <3> HIDE DEF v
      <3> QED
        BY <2>3, <2>4, SiblingsWalk
    <2>6. IsWalk(list, <<Row(c, m, Len(below))>> \o below, Tree(list, c))
      <3> HIDE DEF m, below
      <3> QED
        BY <1>1, <2>1, <2>5, WalkOfComment DEF DepthIn, m
    <2> QED
      BY <2>2, <2>6
  <1> HIDE DEF T
  <1>5. Nat \subseteq T
    BY <1>3, <1>4, Induction
  <1>6. DepthIn(list, id) \in 0 .. N - 1
    BY DepthFacts
  <1>7. N - DepthIn(list, id) \in T /\ N - DepthIn(list, id) <= N
        /\ N - (N - DepthIn(list, id)) = DepthIn(list, id)
    BY <1>1, <1>5, <1>6
  <1> QED
    BY <1>7 DEF T, visit

(* The rows of a thread are a walk of all its comments.                    *)
LEMMA RowsWalk ==
    ASSUME parents \in Forests, NEW list \in Lists
    PROVE  IsWalk(list, Rows(list, parents), Range(list))
  <1> DEFINE roots == Children(list, parents, NoComment)
             v == Visit(list, parents)[0]
  <1>1. ASSUME NEW k \in Kids(list, NoComment)  PROVE IsWalk(list, v[k], Tree(list, k))
    <2>1. k \in Range(list) /\ parents[k] \notin Range(list)
      BY ListFacts, KidFacts
    <2>2. DepthIn(list, k) = 0
      BY <2>1, DepthFacts
    <2> QED
      BY <2>1, <2>2, VisitWalks
  <1>2. Rows(list, parents) = FlattenSeq([i \in DOMAIN roots |-> v[roots[i]]])
    BY DEF Rows, Walk
  <1>3. Under(list, NoComment) = Range(list)
    BY DEF Under
  <1> HIDE DEF v
  <1> QED
    BY <1>1, <1>2, <1>3, SiblingsWalk

LEMMA RowsAreRight ==
    ASSUME parents \in Forests, comments \in Lists
    PROVE  RowsAreTheThread
  <1> DEFINE rows == Rows(comments, parents)
             n == Len(rows)
             f == [k \in 1 .. n |-> rows[k].id]
  <1>1. IsWalk(comments, rows, Range(comments))
    BY RowsWalk
  <1> HIDE DEF rows
  <1>2. /\ rows \in Seq(RowSet) /\ n \in Nat /\ DOMAIN rows = 1 .. n
        /\ \A i, j \in 1 .. n : rows[i].id = rows[j].id => i = j
        /\ \A i \in 1 .. n : Placed(comments, rows, i)
        /\ {rows[i].id : i \in 1 .. n} = Range(comments)
    BY <1>1 DEF IsWalk
  <1>3. Len(rows) = Len(comments)
    <2>1. IsInjective(f) /\ DOMAIN f = 1 .. n /\ Range(f) = Range(comments)
      BY <1>2 DEF IsInjective, Range
    <2> HIDE DEF f
    <2>2. Cardinality(Range(f)) = n - 1 + 1
      BY <1>2, <2>1, CountOnce
    <2> QED
      BY <1>2, <2>1, <2>2, ListSize
  <1>4. {row.id : row \in Range(rows)} = Range(comments)
    BY <1>2 DEF Range
  <1>5. ASSUME NEW i \in 1 .. n
        PROVE  rows[i].replies = Cardinality(Below(comments, rows[i].id))
    <2> DEFINE r == rows[i].replies
               g == [k \in i + 1 .. i + r |-> rows[k].id]
    <2>1. /\ r \in Nat /\ i + r <= n
          /\ {rows[k].id : k \in i + 1 .. i + r} = Below(comments, rows[i].id)
      BY <1>2 DEF Placed
    <2> HIDE DEF r
    <2>2. \A k \in i + 1 .. i + r : k \in 1 .. n
      BY <1>2, <2>1
    <2>3. IsInjective(g)
      BY <1>2, <2>2 DEF IsInjective
    <2>4. DOMAIN g = i + 1 .. i + r /\ Range(g) = Below(comments, rows[i].id)
      BY <2>1 DEF Range
    <2>5. i + 1 \in Nat /\ i + r \in Nat /\ i + 1 <= i + r + 1 /\ (i + r) - (i + 1) + 1 = r
      BY <2>1
    <2> HIDE DEF g
    <2>6. Cardinality(Range(g)) = (i + r) - (i + 1) + 1
      BY <2>3, <2>4, <2>5, CountOnce
    <2> QED
      BY <2>4, <2>5, <2>6 DEF r
  <1>6. ASSUME NEW i \in 1 .. n
        PROVE  /\ {rows[k].id : k \in i + 1 .. i + rows[i].replies} = Below(comments, rows[i].id)
               /\ rows[i].depth = Cardinality(AncestorsIn(comments, rows[i].id)) % 256
    BY <1>2 DEF Placed
  <1> QED
    BY <1>2, <1>3, <1>4, <1>5, <1>6 DEF RowsAreTheThread, rows

-----------------------------------------------------------------------------
(* The way up, and what the folds hide.                                    *)

(* The function in the definition of Climb, up to the place n.             *)
Climbs(up, list, id, n) ==
    up = [i \in 0 .. n |-> IF i = 0 THEN id ELSE ParentIn(list, parents, up[i - 1])]

LEMMA ClimbsExists ==
    ASSUME NEW list, NEW id
    PROVE  \A n \in Nat : \E up : Climbs(up, list, id, n)
  <1> DEFINE T == {n \in Nat : \E up : Climbs(up, list, id, n)}
  <1>1. 0 \in T
    <2> DEFINE up == [i \in 0 .. 0 |-> id]
    <2>1. Climbs(up, list, id, 0)
      BY DEF Climbs
    <2> QED
      BY <2>1
  <1>2. ASSUME NEW n \in Nat, n \in T  PROVE n + 1 \in T
    <2>1. PICK up : Climbs(up, list, id, n)
      BY <1>2
    <2> DEFINE new == [i \in 0 .. n + 1 |->
                         IF i = 0 THEN id ELSE ParentIn(list, parents, up[i - 1])]
    <2>2. \A i \in 0 .. n : up[i] = IF i = 0 THEN id ELSE ParentIn(list, parents, up[i - 1])
      BY <2>1 DEF Climbs
    <2>3. \A i \in 0 .. n : new[i] = up[i]
      BY <2>2
    <2>4. \A i \in 0 .. n + 1 : i # 0 => i - 1 \in 0 .. n
      OBVIOUS
    <2>5. \A i \in 0 .. n + 1 : i # 0 => new[i - 1] = up[i - 1]
      BY <2>3, <2>4
    <2>6. Climbs(new, list, id, n + 1)
      BY <2>5 DEF Climbs
    <2> QED
      BY <2>6
  <1> HIDE DEF T
  <1>3. Nat \subseteq T
    BY <1>1, <1>2, Induction
  <1> QED
    BY <1>3 DEF T

LEMMA ClimbDef ==
    ASSUME NEW list, NEW id, Len(list) \in Nat
    PROVE  /\ Climb(list, parents, id)[0] = id
           /\ \A n \in 1 .. Len(list) :
                 Climb(list, parents, id)[n] =
                     ParentIn(list, parents, Climb(list, parents, id)[n - 1])
  <1> DEFINE up == Climb(list, parents, id)
  <1>1. up = CHOOSE f : Climbs(f, list, id, Len(list))
    BY DEF Climb, Climbs
  <1> HIDE DEF up
  <1>2. Climbs(up, list, id, Len(list))
    BY <1>1, ClimbsExists
  <1>3. 0 \in 0 .. Len(list) /\ \A n \in 1 .. Len(list) : n \in 0 .. Len(list) /\ n # 0
    OBVIOUS
  <1> QED
    BY <1>2, <1>3 DEF Climbs, up

(* From a comment it goes up by one depth at a time, then to NoComment.    *)
LEMMA ClimbFacts ==
    ASSUME parents \in Forests, NEW list \in Lists, NEW id \in Range(list),
           NEW n \in 0 .. Len(list)
    PROVE  IF n <= DepthIn(list, id)
           THEN /\ Climb(list, parents, id)[n] \in Line(list, id)
                /\ DepthIn(list, Climb(list, parents, id)[n]) = DepthIn(list, id) - n
           ELSE Climb(list, parents, id)[n] = NoComment
  <1> DEFINE up == Climb(list, parents, id)
             D == DepthIn(list, id)
             N == Len(list)
             P(k) == IF k <= D THEN up[k] \in Line(list, id) /\ DepthIn(list, up[k]) = D - k
                     ELSE up[k] = NoComment
             T == {k \in Nat : k <= N => P(k)}
  <1>1. N \in Nat /\ Range(list) \subseteq Ids
    BY ListSize, ListFacts
  <1>2. up[0] = id /\ \A k \in 1 .. N : up[k] = ParentIn(list, parents, up[k - 1])
    BY <1>1, ClimbDef
  <1>3. D \in 0 .. N - 1 /\ D \in Nat
    BY <1>1, DepthFacts
  <1>4. /\ id \in Line(list, id) /\ Line(list, id) \subseteq Range(list)
        /\ Closed(list, Line(list, id)) /\ NoComment \notin Range(list)
    BY <1>1, LineIsClosed, ThreadConstants
  <1> HIDE DEF up
  <1>5. 0 \in T
    BY <1>2, <1>3, <1>4
  <1>6. ASSUME NEW k \in Nat, k \in T  PROVE k + 1 \in T
    <2> SUFFICES ASSUME k + 1 <= N  PROVE P(k + 1)
      OBVIOUS
    <2>1. k + 1 \in 1 .. N /\ (k + 1) - 1 = k /\ k <= N
      BY <1>1
    <2>2. up[k + 1] = ParentIn(list, parents, up[k]) /\ P(k)
      BY <1>2, <1>6, <2>1
    <2>3. CASE k + 1 <= D
      <3>1. up[k] \in Line(list, id) /\ DepthIn(list, up[k]) = D - k /\ D - k # 0
        BY <1>3, <2>2, <2>3
      <3>2. up[k] \in Range(list) /\ parents[up[k]] \in Range(list)
        BY <1>4, <3>1, DepthFacts
      <3>3. up[k + 1] = parents[up[k]] /\ up[k + 1] \in Line(list, id)
        BY <1>4, <2>2, <3>1, <3>2 DEF ParentIn, Closed
      <3>4. DepthIn(list, up[k]) = DepthIn(list, up[k + 1]) + 1
            /\ DepthIn(list, up[k + 1]) \in 0 .. N - 1
        BY <3>2, <3>3, DepthFacts
      <3>5. DepthIn(list, up[k + 1]) = D - (k + 1)
        BY <1>1, <1>3, <3>1, <3>4
      <3> QED
        BY <2>3, <3>3, <3>5
    <2>4. CASE k = D
      <3>1. up[k] \in Line(list, id) /\ DepthIn(list, up[k]) = 0
        BY <1>3, <2>2, <2>4
      <3>2. up[k] \in Range(list) /\ parents[up[k]] \notin Range(list)
        <4>1. up[k] \in Range(list)
          BY <1>4, <3>1
        <4>2. ASSUME parents[up[k]] \in Range(list)  PROVE FALSE
          <5>1. DepthIn(list, up[k]) = DepthIn(list, parents[up[k]]) + 1
                /\ DepthIn(list, parents[up[k]]) \in 0 .. N - 1
            BY <4>1, <4>2, DepthFacts
          <5> QED
            BY <1>1, <3>1, <5>1
        <4> QED
          BY <4>1, <4>2
      <3>3. up[k + 1] = NoComment
        BY <2>2, <3>2 DEF ParentIn
      <3>4. ~ (k + 1 <= D)
        BY <1>3, <2>4
      <3> QED
        BY <3>3, <3>4
    <2>5. CASE ~ (k <= D)
      <3>1. up[k] = NoComment /\ ~ (k + 1 <= D)
        BY <1>3, <2>2, <2>5
      <3>2. up[k + 1] = NoComment
        BY <1>4, <2>2, <3>1 DEF ParentIn
      <3> QED
        BY <3>1, <3>2
    <2>6. k + 1 <= D \/ k = D \/ ~ (k <= D)
      BY <1>3
    <2> QED
      BY <2>3, <2>4, <2>5, <2>6
  <1> HIDE DEF T, P, D
  <1>7. Nat \subseteq T
    BY <1>5, <1>6, Induction
  <1>8. P(n)
    BY <1>1, <1>7 DEF T
  <1> QED
    BY <1>8 DEF P, D, up

(* It goes through all the ancestors.                                      *)
LEMMA ClimbMeetsAll ==
    ASSUME parents \in Forests, NEW list \in Lists, NEW id \in Range(list)
    PROVE  AncestorsIn(list, id) =
               {Climb(list, parents, id)[n] : n \in 1 .. Len(list)} \ {NoComment}
  <1> DEFINE up == Climb(list, parents, id)
             D == DepthIn(list, id)
             N == Len(list)
             S == {up[n] : n \in 0 .. N} \ {NoComment}
  <1>1. N \in Nat /\ Range(list) \subseteq Ids
    BY ListSize, ListFacts
  <1>2. up[0] = id /\ \A k \in 1 .. N : up[k] = ParentIn(list, parents, up[k - 1])
    BY <1>1, ClimbDef
  <1>3. D \in 0 .. N - 1 /\ D \in Nat
    BY <1>1, DepthFacts
  <1>4. /\ id \in Line(list, id) /\ Line(list, id) \subseteq Range(list)
        /\ NoComment \notin Range(list)
    BY <1>1, LineIsClosed, ThreadConstants
  <1>5. ASSUME NEW n \in 0 .. N
        PROVE  /\ up[n] # NoComment => up[n] \in Line(list, id) /\ n <= D
                                       /\ DepthIn(list, up[n]) = D - n
    BY ClimbFacts
  <1> HIDE DEF up, D
  <1>6. S \in SUBSET Range(list) /\ id \in S
    <2>1. 0 \in 0 .. N
      BY <1>1
    <2> QED
      BY <1>2, <1>4, <1>5, <2>1
  <1>7. Closed(list, S)
    <2> SUFFICES ASSUME NEW c \in S, parents[c] \in Range(list)  PROVE parents[c] \in S
      BY DEF Closed
    <2>1. PICK n \in 0 .. N : c = up[n] /\ c # NoComment
      OBVIOUS
    <2>2. c \in Range(list) /\ n <= D /\ DepthIn(list, c) = D - n
      BY <1>4, <1>5, <2>1
    <2>3. n + 1 \in 1 .. N /\ n + 1 \in 0 .. N /\ (n + 1) - 1 = n
      BY <1>1, <1>3, <2>2
    <2>4. up[n + 1] = parents[c]
      BY <1>2, <2>1, <2>2, <2>3 DEF ParentIn
    <2> QED
      BY <1>4, <2>3, <2>4
  <1>8. Line(list, id) \subseteq S
    BY <1>6, <1>7, LineIsLeast
  <1>9. ASSUME NEW a \in AncestorsIn(list, id)
        PROVE  a # NoComment /\ \E n \in 1 .. N : a = up[n]
    <2>1. a \in Line(list, id) /\ a # id
      BY DEF AncestorsIn
    <2>2. PICK n \in 0 .. N : a = up[n] /\ a # NoComment
      BY <1>8, <2>1
    <2>3. n # 0
      BY <1>2, <2>1, <2>2
    <2> QED
      BY <1>1, <2>2, <2>3
  <1>10. ASSUME NEW n \in 1 .. N, up[n] # NoComment
         PROVE  up[n] \in AncestorsIn(list, id)
    <2>1. n \in 0 .. N /\ n \in Nat /\ n # 0
      BY <1>1
    <2>2. up[n] \in Line(list, id) /\ DepthIn(list, up[n]) = D - n
      BY <1>5, <1>10, <2>1
    <2>3. up[n] # id
      BY <1>3, <2>1, <2>2 DEF D
    <2> QED
      BY <2>2, <2>3 DEF AncestorsIn
  <1> QED
    BY <1>9, <1>10 DEF up

LEMMA HiddenIs ==
    ASSUME parents \in Forests, NEW list \in Lists, NEW id \in Range(list),
           NEW folds, NoComment \notin folds
    PROVE  Hidden(list, parents, folds, id) <=> AncestorsIn(list, id) \intersect folds # {}
  BY ClimbMeetsAll DEF Hidden

LEMMA VisibleFacts ==
    ASSUME parents \in Forests, NEW list \in Lists, NEW folds,
           NEW visible, visible = Visible(list, parents, folds)
    PROVE  /\ visible \in Seq(RowSet)
           /\ \A i \in DOMAIN visible : /\ visible[i].id \in Range(list)
                                        /\ ~ Hidden(list, parents, folds, visible[i].id)
           /\ \A id \in Range(list) :
                 ~ Hidden(list, parents, folds, id) => Position(visible, id) # {}
  <1> DEFINE rows == Rows(list, parents)
             kept == {row \in Range(rows) : ~ Hidden(list, parents, folds, row.id)}
             n == Len(rows)
  <1>1. visible = Retained(rows, kept)
    BY DEF Visible
  <1>2. IsWalk(list, rows, Range(list))
    BY RowsWalk
  <1> HIDE DEF rows
  <1>3. /\ rows \in Seq(RowSet) /\ n \in Nat /\ DOMAIN rows = 1 .. n
        /\ {rows[i].id : i \in 1 .. n} = Range(list)
    BY <1>2 DEF IsWalk
  <1>4. visible \in Seq(RowSet) /\ KeptOf(visible, rows, kept, n)
    BY <1>1, <1>3, RetainedKeeps
  <1>5. ASSUME NEW i \in DOMAIN visible
        PROVE  visible[i].id \in Range(list) /\ ~ Hidden(list, parents, folds, visible[i].id)
    <2>1. visible[i] \in kept
      BY <1>4 DEF KeptOf
    <2>2. \E j \in 1 .. n : visible[i] = rows[j]
      BY <1>4 DEF KeptOf
    <2> QED
      BY <1>3, <2>1, <2>2
  <1>6. ASSUME NEW id \in Range(list), ~ Hidden(list, parents, folds, id)
        PROVE  Position(visible, id) # {}
    <2>1. PICK j \in 1 .. n : rows[j].id = id
      BY <1>3
    <2>2. rows[j] \in kept
      BY <1>3, <1>6, <2>1 DEF Range
    <2>3. \E i \in DOMAIN visible : visible[i] = rows[j]
      BY <1>4, <2>2 DEF KeptOf
    <2> QED
      BY <2>1, <2>3 DEF Position
  <1> QED
    BY <1>4, <1>5, <1>6

LEMMA FoldsAreRight ==
    ASSUME parents \in Forests, comments \in Lists, collapsed \subseteq Ids
    PROVE  FoldsHideReplies
  <1> DEFINE visible == Shown(collapsed)
  <1>1. NoComment \notin collapsed
    BY ThreadConstants
  <1>2. visible = Visible(comments, parents, collapsed)
    BY DEF Shown
  <1> HIDE DEF visible
  <1>3. ASSUME NEW i \in DOMAIN visible
        PROVE  /\ visible[i].id \in Range(comments)
               /\ AncestorsIn(comments, visible[i].id) \intersect collapsed = {}
    BY <1>1, <1>2, VisibleFacts, HiddenIs
  <1>4. ASSUME NEW c \in Range(comments), AncestorsIn(comments, c) \intersect collapsed = {}
        PROVE  \E i \in DOMAIN visible : visible[i].id = c
    <2>1. ~ Hidden(comments, parents, collapsed, c)
      BY <1>1, <1>4, HiddenIs
    <2>2. Position(visible, c) # {}
      BY <1>2, <2>1, VisibleFacts
    <2> QED
      BY <2>2 DEF Position
  <1>5. {row.id : row \in Range(visible)} = {visible[i].id : i \in DOMAIN visible}
    BY DEF Range
  <1> QED
    BY <1>3, <1>4, <1>5 DEF FoldsHideReplies, visible

(* The nearest comment on the way up that is not hidden: the comment       *)
(* itself or an ancestor, and an id that is no row is its own.             *)
LEMMA NearestIsShown ==
    ASSUME parents \in Forests, NEW list \in Lists, NEW folds, NoComment \notin folds,
           NEW id \in Ids
    PROVE  /\ NearestVisible(list, parents, folds, id) \in Ids
           /\ id \in Range(list) =>
                 /\ NearestVisible(list, parents, folds, id) \in Range(list)
                 /\ ~ Hidden(list, parents, folds, NearestVisible(list, parents, folds, id))
  <1> DEFINE up == Climb(list, parents, id)
             N == Len(list)
             shown == {n \in 0 .. N : ~ Hidden(list, parents, folds, up[n])}
             least == CHOOSE n \in shown : \A m \in shown : n <= m
  <1>1. N \in Nat /\ Range(list) \subseteq Ids /\ NoComment \notin Range(list)
    BY ListSize, ListFacts, ThreadConstants
  <1>2. up[0] = id /\ \A k \in 1 .. N : up[k] = ParentIn(list, parents, up[k - 1])
    BY <1>1, ClimbDef
  <1>3. NearestVisible(list, parents, folds, id) = up[least]
    BY DEF NearestVisible
  <1>4. ASSUME shown # {}
        PROVE  least \in shown /\ \A m \in shown : least <= m
    <2>1. shown \in SUBSET Nat
      BY <1>1
    <2>2. PICK n \in shown : \A m \in shown : ~ (m < n)
      BY <1>4, <2>1, LeastNumber
    <2>3. \A m \in shown : n <= m
      BY <2>1, <2>2
    <2> HIDE DEF shown
    <2> QED
      BY <2>2, <2>3
  <1> HIDE DEF least
  <1>5. CASE id \in Range(list)
    <2> DEFINE D == DepthIn(list, id)
    <2>1. D \in 0 .. N - 1 /\ D \in 0 .. N /\ D \in Nat
      BY <1>1, <1>5, DepthFacts
    <2>2. up[D] \in Line(list, id) /\ DepthIn(list, up[D]) = 0
      <3>1. D <= D /\ D - D = 0
        BY <2>1
      <3> QED
        BY <1>5, <2>1, <3>1, ClimbFacts
    <2>3. Line(list, id) \subseteq Range(list)
      BY <1>5, LineIsClosed
    <2>4. AncestorsIn(list, up[D]) = {}
      <3>1. AncestorsIn(list, up[D]) \in SUBSET Range(list)
        BY DEF AncestorsIn, Line
      <3>2. IsFiniteSet(AncestorsIn(list, up[D]))
        BY <3>1, ListSize, FS_Subset
      <3> QED
        BY <2>2, <3>2, FS_EmptySet DEF DepthIn
    <2>5. ~ Hidden(list, parents, folds, up[D])
      BY <2>2, <2>3, <2>4, HiddenIs
    <2>6. D \in shown
      BY <2>1, <2>5
    <2>7. least \in shown /\ least <= D
      BY <1>4, <2>6
    <2>8. up[least] \in Range(list) /\ ~ Hidden(list, parents, folds, up[least])
      BY <1>5, <2>3, <2>7, ClimbFacts
    <2> QED
      BY <1>1, <1>3, <1>5, <2>8
  <1>6. CASE id \notin Range(list)
    <2>1. \A k \in 1 .. N : up[k] = NoComment
      <3> DEFINE T == {k \in Nat : k \in 1 .. N => up[k] = NoComment}
      <3>1. 0 \in T
        OBVIOUS
      <3>2. ASSUME NEW k \in Nat, k \in T  PROVE k + 1 \in T
        <4> SUFFICES ASSUME k + 1 \in 1 .. N  PROVE up[k + 1] = NoComment
          OBVIOUS
        <4>1. up[k + 1] = ParentIn(list, parents, up[k])
          <5>1. (k + 1) - 1 = k
            OBVIOUS
          <5> QED
            BY <1>2, <5>1
        <4>2. up[k] \notin Range(list)
          <5>1. CASE k = 0
            BY <1>2, <1>6, <5>1
          <5>2. CASE k # 0
            <6>1. k \in 1 .. N
              BY <1>1, <5>2
            <6> HIDE DEF up
            <6> QED
              BY <1>1, <3>2, <6>1
          <5> QED
            BY <5>1, <5>2
        <4> HIDE DEF up
        <4> QED
          BY <4>1, <4>2 DEF ParentIn
      <3> HIDE DEF T
      <3>3. Nat \subseteq T
        BY <3>1, <3>2, Induction
      <3>4. \A k \in 1 .. N : k \in Nat
        BY <1>1
      <3> QED
        BY <3>3, <3>4 DEF T
    <2>2. ~ Hidden(list, parents, folds, id)
      BY <2>1 DEF Hidden
    <2>3. 0 \in shown
      BY <1>1, <1>2, <2>2
    <2>4. least \in shown /\ least <= 0
      BY <1>4, <2>3
    <2>5. least = 0
      BY <1>1, <2>4
    <2> QED
      BY <1>2, <1>3, <1>6, <2>5
  <1> QED
    BY <1>5, <1>6

-----------------------------------------------------------------------------
(* Lines and offsets.                                                      *)

(* The function in the definition of HeaderAt.                             *)
Headers(row, visible, at, before, lines) ==
    row = [i \in 1 .. at |->
              IF i = 1 THEN before + 1 ELSE row[i - 1] + 2 + lines[visible[i - 1].id]]

LEMMA HeadersExist ==
    ASSUME NEW visible, NEW before, NEW lines
    PROVE  \A n \in Nat : \E row : Headers(row, visible, n, before, lines)
  <1> DEFINE T == {n \in Nat : \E row : Headers(row, visible, n, before, lines)}
  <1>1. 0 \in T
    <2> DEFINE row == [i \in 1 .. 0 |-> 0]
    <2>1. Headers(row, visible, 0, before, lines)
      BY DEF Headers
    <2> QED
      BY <2>1
  <1>2. ASSUME NEW n \in Nat, n \in T  PROVE n + 1 \in T
    <2>1. PICK row : Headers(row, visible, n, before, lines)
      BY <1>2
    <2> DEFINE new == [i \in 1 .. n + 1 |->
                         IF i = 1 THEN before + 1
                         ELSE row[i - 1] + 2 + lines[visible[i - 1].id]]
    <2>2. \A i \in 1 .. n :
             row[i] = IF i = 1 THEN before + 1 ELSE row[i - 1] + 2 + lines[visible[i - 1].id]
      BY <2>1 DEF Headers
    <2>3. \A i \in 1 .. n : new[i] = row[i]
      BY <2>2
    <2>4. \A i \in 1 .. n + 1 : i # 1 => i - 1 \in 1 .. n
      OBVIOUS
    <2>5. \A i \in 1 .. n + 1 : i # 1 => new[i - 1] = row[i - 1]
      BY <2>3, <2>4
    <2>6. Headers(new, visible, n + 1, before, lines)
      BY <2>5 DEF Headers
    <2> QED
      BY <2>6
  <1> HIDE DEF T
  <1>3. Nat \subseteq T
    BY <1>1, <1>2, Induction
  <1> QED
    BY <1>3 DEF T

(* Where a header is, and where it is when nothing above it is wrapped.    *)
LEMMA HeaderIsALine ==
    ASSUME NEW visible \in Seq(RowSet), NEW at \in DOMAIN visible,
           NEW before \in Nat, NEW lines \in [Ids -> Nat]
    PROVE  /\ HeaderAt(visible, at, before, lines) \in Nat
           /\ (\A i \in 1 .. at - 1 : lines[visible[i].id] = 1) =>
                 HeaderAt(visible, at, before, lines) = before + 1 + 3 * (at - 1)
  <1> DEFINE row == CHOOSE row : Headers(row, visible, at, before, lines)
             single == \A i \in 1 .. at - 1 : lines[visible[i].id] = 1
             T == {i \in Nat : i \in 1 .. at =>
                      row[i] \in Nat /\ (single => row[i] = before + 1 + 3 * (i - 1))}
  <1>1. at \in Nat /\ at >= 1 /\ HeaderAt(visible, at, before, lines) = row[at]
    BY DEF HeaderAt, Headers
  <1>2. Headers(row, visible, at, before, lines)
    BY <1>1, HeadersExist
  <1> HIDE DEF row
  <1>3. \A i \in 1 .. at :
           row[i] = IF i = 1 THEN before + 1 ELSE row[i - 1] + 2 + lines[visible[i - 1].id]
    BY <1>2 DEF Headers
  <1>4. \A i \in 1 .. at : lines[visible[i].id] \in Nat
    <2> TAKE i \in 1 .. at
    <2>1. i \in 1 .. Len(visible)
      BY <1>1
    <2>2. visible[i].id \in Ids
      <3>1. visible[i] \in RowSet
        BY <2>1
      <3> QED
        BY <3>1 DEF RowSet
    <2> QED
      BY <2>2
  <1> HIDE DEF single
  <1>5. 0 \in T
    OBVIOUS
  <1>6. ASSUME NEW i \in Nat, i \in T  PROVE i + 1 \in T
    <2> SUFFICES ASSUME i + 1 \in 1 .. at
                 PROVE  row[i + 1] \in Nat /\ (single => row[i + 1] = before + 1 + 3 * i)
      OBVIOUS
    <2>1. CASE i = 0
      BY <1>3, <2>1
    <2>2. CASE i # 0
      <3> DEFINE text == lines[visible[i].id]
      <3>1. i \in 1 .. at /\ i \in 1 .. at - 1 /\ (i + 1) - 1 = i /\ i + 1 # 1
        BY <1>1, <2>2
      <3>2. row[i] \in Nat /\ text \in Nat
        BY <1>4, <1>6, <3>1
      <3>3. row[i + 1] = row[i] + 2 + text
        BY <1>3, <3>1
      <3>4. single => row[i] = before + 1 + 3 * (i - 1) /\ text = 1
        BY <1>6, <3>1 DEF single
      <3> HIDE DEF text
      <3>5. row[i + 1] \in Nat
        BY <3>2, <3>3
      <3>6. ASSUME single  PROVE row[i + 1] = before + 1 + 3 * i
        <4>1. row[i + 1] = (before + 1 + 3 * (i - 1)) + 2 + 1
          BY <3>3, <3>4, <3>6
        <4> QED
          BY <4>1
      <3> QED
        BY <3>5, <3>6
    <2> QED
      BY <2>1, <2>2
  <1> HIDE DEF T
  <1>7. Nat \subseteq T
    BY <1>5, <1>6, Induction
  <1>8. at \in 1 .. at
    BY <1>1
  <1> QED
    BY <1>1, <1>7, <1>8 DEF T, single

(* Unwrapped, a header within the viewport is displayed: the renderer      *)
(* holds the offset to lines it has, and the header is one of them.        *)
LEMMA WithinIsDisplayed ==
    ASSUME NEW visible \in Seq(RowSet), NEW at \in DOMAIN visible, NEW offset \in Nat,
           height \in Heights, Within(visible, at, offset), Unwrapped(visible, at)
    PROVE  Displayed(visible, at, offset)
  <1> DEFINE header == HeaderEntries + 1 + 3 * (at - 1)
             entries == Entries(visible)
             top == ShownScroll(visible, offset)
  <1>1. /\ height \in Nat \ {0} /\ HeaderEntries \in Nat
        /\ HeaderLines = HeaderEntries /\ HeaderDrawn = HeaderEntries
        /\ Lines \in [Ids -> Nat] /\ Drawn \in [Ids -> Nat]
    BY ThreadConstants DEF Unwrapped
  <1>2. /\ \A i \in 1 .. at - 1 : Lines[visible[i].id] = 1
        /\ \A i \in 1 .. at - 1 : Drawn[visible[i].id] = 1
    BY DEF Unwrapped
  <1>3. HeaderOf(visible, at) = header
    BY <1>1, <1>2, HeaderIsALine DEF HeaderOf
  <1>4. DrawnAt(visible, at) = header
    BY <1>1, <1>2, HeaderIsALine DEF DrawnAt
  <1>5. entries \in Nat /\ header \in Nat /\ header < entries
    <2>1. Len(visible) \in Nat /\ at \in 1 .. Len(visible)
      OBVIOUS
    <2> QED
      BY <1>1, <2>1 DEF Entries
  <1>6. offset <= header /\ header < offset + height
    BY <1>3 DEF Within
  <1>7. top = CASE entries <= height -> 0
                [] entries > height + offset -> offset
                [] OTHER -> entries - height
    BY DEF ShownScroll
  <1> HIDE DEF header, entries, top
  <1>8. top <= header /\ header < top + height
    <2>1. CASE entries <= height
      BY <1>1, <1>5, <1>7, <2>1
    <2>2. CASE entries > height /\ entries > height + offset
      <3>1. top = offset
        BY <1>1, <1>5, <1>7, <2>2
      <3> QED
        BY <1>6, <3>1
    <2>3. CASE entries > height /\ ~ (entries > height + offset)
      <3>1. top = entries - height
        BY <1>1, <1>5, <1>7, <2>3
      <3> QED
        BY <1>1, <1>5, <1>6, <2>3, <3>1
    <2> QED
      BY <1>1, <1>5, <2>1, <2>2, <2>3
  <1> QED
    BY <1>4, <1>8 DEF Displayed, top

(* The anchored offset shows the line it is anchored to.                   *)
LEMMA AnchoredShows ==
    ASSUME NEW visible \in Seq(RowSet), NEW id, scroll \in Nat, height \in Heights
    PROVE  /\ Anchored(visible, id) \in Nat
           /\ Position(visible, id) # {} => OnScreen(visible, id, Anchored(visible, id))
  <1>1. CASE Position(visible, id) = {}
    BY <1>1 DEF Anchored
  <1>2. CASE Position(visible, id) # {}
    <2> DEFINE at == CHOOSE i \in Position(visible, id) : TRUE
               header == HeaderOf(visible, at)
               offset == Anchored(visible, id)
    <2>1. at \in Position(visible, id) /\ at \in DOMAIN visible
      BY <1>2 DEF Position
    <2>2. header \in Nat
      BY <2>1, HeaderIsALine, ThreadConstants DEF HeaderOf
    <2>3. height \in Nat \ {0}
      BY ThreadConstants
    <2>4. offset = CASE header < scroll -> header
                     [] header >= scroll + height ->
                           IF header + 1 > height THEN header + 1 - height ELSE 0
                     [] OTHER -> scroll
      BY <1>2 DEF Anchored
    <2> HIDE DEF header, offset, at
    <2>5. offset \in Nat /\ offset <= header /\ header < offset + height
      <3>1. CASE header < scroll
        BY <2>2, <2>3, <2>4, <3>1
      <3>2. CASE header >= scroll + height /\ header + 1 > height
        <4>1. offset = header + 1 - height
          BY <2>2, <2>3, <2>4, <3>2
        <4> QED
          BY <2>2, <2>3, <3>2, <4>1
      <3>3. CASE header >= scroll + height /\ ~ (header + 1 > height)
        <4>1. offset = 0
          BY <2>2, <2>3, <2>4, <3>3
        <4> QED
          BY <2>2, <2>3, <3>3, <4>1
      <3>4. CASE ~ (header < scroll) /\ ~ (header >= scroll + height)
        <4>1. offset = scroll
          BY <2>4, <3>4
        <4> QED
          BY <2>2, <2>3, <3>4, <4>1
      <3> QED
        BY <3>1, <3>2, <3>3, <3>4
    <2>6. Within(visible, at, offset)
      BY <2>5 DEF Within, header
    <2>7. OnScreen(visible, id, offset)
      BY <2>1, <2>5, <2>6, WithinIsDisplayed DEF OnScreen
    <2> QED
      BY <2>5, <2>7 DEF offset
  <1> QED
    BY <1>1, <1>2

(* A motion goes to a row.                                                 *)
LEMMA TargetIsARow ==
    ASSUME NEW visible \in Seq(RowSet), visible # <<>>, NEW count \in 1 .. MaxCount, NEW down
    PROVE  Target(visible, count, down) \in DOMAIN visible
  <1> DEFINE at == Position(visible, focused)
             here == CHOOSE i \in at : TRUE
             n == Len(visible)
  <1>1. n \in Nat /\ n >= 1 /\ DOMAIN visible = 1 .. n /\ count \in Nat /\ count >= 1
    BY EmptySeq, ThreadConstants
  <1>2. CASE at = {}
    BY <1>1, <1>2 DEF Target
  <1>3. CASE at # {}
    <2>1. here \in 1 .. n
      BY <1>1, <1>3 DEF Position
    <2>2. Target(visible, count, down) =
             IF down THEN IF here + count > n THEN n ELSE here + count
             ELSE IF here > count THEN here - count ELSE 1
      BY <1>3 DEF Target
    <2> HIDE DEF here, n
    <2> QED
      BY <1>1, <2>1, <2>2
  <1> QED
    BY <1>2, <1>3

-----------------------------------------------------------------------------
(* Every step leaves a thread.                                             *)

LEMMA CollapsibleAreIds ==
    ASSUME NEW list \in Lists
    PROVE  Collapsible(list, parents) \subseteq Ids
  BY ListFacts DEF Collapsible

LEMMA ThreadInitTyped ==
    ASSUME ThreadInit
    PROVE  ThreadTypeOK
  <1>1. comments \in Lists
    <2>1. <<>> \in Seq(Ids) /\ IsInjective(<<>>)
      BY DEF IsInjective
    <2> QED
      BY <2>1, IsAList DEF ThreadInit
  <1> QED
    BY <1>1 DEF ThreadInit, ThreadTypeOK

(* A motion: what is visible is what was, and the cursor goes to a row.    *)
LEMMA MoveFollows ==
    ASSUME ThreadTypeOK, NEW count \in 1 .. MaxCount, NEW down, Move(count, down)
    PROVE  /\ focused' \in Ids /\ scroll' \in Nat
           /\ OnScreen(Visible(comments', parents, collapsed'), focused', scroll')
  <1>1. PICK visible \in {Shown(collapsed)} :
            /\ visible # <<>>
            /\ focused' = visible[Target(visible, count, down)].id
            /\ scroll' = Anchored(visible, focused')
    BY DEF Move
  <1>2. visible = Visible(comments, parents, collapsed)
    BY <1>1 DEF Shown
  <1>3. visible = Visible(comments', parents, collapsed')
    BY <1>2 DEF Move, Keeps
  <1>4. visible \in Seq(RowSet) /\ \A i \in DOMAIN visible : visible[i].id \in Ids
    BY <1>2, VisibleFacts, ListFacts DEF ThreadTypeOK
  <1> DEFINE at == Target(visible, count, down)
  <1>5. at \in DOMAIN visible
    BY <1>1, <1>4, TargetIsARow
  <1>6. at \in Position(visible, focused')
    BY <1>1, <1>5 DEF Position
  <1>7. scroll' \in Nat /\ OnScreen(visible, focused', scroll')
    BY <1>1, <1>4, <1>6, AnchoredShows DEF ThreadTypeOK
  <1> QED
    BY <1>1, <1>3, <1>4, <1>5, <1>7

(* Folding all: the cursor goes to what is not hidden.                     *)
LEMMA CollapseAllFollows ==
    ASSUME ThreadTypeOK, CollapseAll
    PROVE  /\ focused' \in Ids \union {NoComment} /\ scroll' \in Nat /\ collapsed' \subseteq Ids
           /\ focused \in Range(comments) =>
                 OnScreen(Visible(comments', parents, collapsed'), focused', scroll')
  <1>1. PICK visible \in {Shown(collapsed')} :
            scroll' = IF focused = NoComment THEN scroll ELSE Anchored(visible, focused')
    BY DEF CollapseAll
  <1>2. visible = Visible(comments, parents, collapsed') /\ comments' = comments
    BY <1>1 DEF Shown, CollapseAll, Keeps
  <1>3. collapsed' \subseteq Ids /\ NoComment \notin collapsed' /\ NoComment \notin Range(comments)
    BY CollapsibleAreIds, ListFacts, ThreadConstants DEF CollapseAll, ThreadTypeOK
  <1>4. visible \in Seq(RowSet)
    BY <1>2, VisibleFacts DEF ThreadTypeOK
  <1>5. scroll' \in Nat
    BY <1>1, <1>4, AnchoredShows DEF ThreadTypeOK
  <1>6. focused' \in Ids \union {NoComment}
    BY <1>3, NearestIsShown DEF CollapseAll, ThreadTypeOK
  <1>7. ASSUME focused \in Range(comments)
        PROVE  OnScreen(visible, focused', scroll')
    <2>1. focused # NoComment /\ focused \in Ids
      BY <1>3, <1>7, ListFacts DEF ThreadTypeOK
    <2>2. focused' = NearestVisible(comments, parents, collapsed', focused)
      BY <2>1 DEF CollapseAll
    <2>3. focused' \in Range(comments) /\ ~ Hidden(comments, parents, collapsed', focused')
      BY <1>3, <1>7, <2>1, <2>2, NearestIsShown DEF ThreadTypeOK
    <2>4. Position(visible, focused') # {}
      BY <1>2, <2>3, VisibleFacts DEF ThreadTypeOK
    <2> QED
      BY <1>1, <1>4, <2>1, <2>4, AnchoredShows DEF ThreadTypeOK
  <1> QED
    BY <1>2, <1>3, <1>5, <1>6, <1>7

(* Unfolding all: nothing is hidden.                                       *)
LEMMA ExpandAllFollows ==
    ASSUME ThreadTypeOK, ExpandAll
    PROVE  /\ scroll' \in Nat
           /\ focused \in Range(comments) =>
                 OnScreen(Visible(comments', parents, collapsed'), focused', scroll')
  <1>1. PICK visible \in {Shown(collapsed')} :
            scroll' = IF focused = NoComment THEN scroll ELSE Anchored(visible, focused)
    BY DEF ExpandAll
  <1>2. /\ visible = Visible(comments, parents, collapsed')
        /\ comments' = comments /\ collapsed' = {} /\ focused' = focused
    BY <1>1 DEF Shown, ExpandAll, Keeps
  <1>3. visible \in Seq(RowSet)
    BY <1>2, VisibleFacts DEF ThreadTypeOK
  <1>4. scroll' \in Nat
    BY <1>1, <1>3, AnchoredShows DEF ThreadTypeOK
  <1>5. ASSUME focused \in Range(comments)
        PROVE  OnScreen(visible, focused', scroll')
    <2>1. focused # NoComment
      BY <1>5, ListFacts, ThreadConstants DEF ThreadTypeOK
    <2>2. ~ Hidden(comments, parents, {}, focused)
      BY DEF Hidden
    <2>3. Position(visible, focused) # {}
      BY <1>2, <1>5, <2>2, VisibleFacts DEF ThreadTypeOK
    <2> QED
      BY <1>1, <1>2, <1>3, <2>1, <2>3, AnchoredShows DEF ThreadTypeOK
  <1> QED
    BY <1>2, <1>4, <1>5

LEMMA ThreadStepTyped ==
    ASSUME ThreadTypeOK, [ThreadNext]_threadVars
    PROVE  ThreadTypeOK'
  <1> USE DEF ThreadTypeOK
  <1>1. ASSUME NEW count \in 1 .. MaxCount, NEW down \in BOOLEAN, Move(count, down)
        PROVE  ThreadTypeOK'
    BY <1>1, MoveFollows DEF Move, Keeps
  <1>2. ASSUME NEW count \in 1 .. MaxCount, ScrollDetail(count)  PROVE ThreadTypeOK'
    <2> DEFINE by == Step * count
    <2>1. by \in Nat
      BY ThreadConstants
    <2> HIDE DEF by
    <2>2. scroll' \in Nat
      <3>1. \/ scroll' = scroll + by
            \/ scroll' = IF scroll > by THEN scroll - by ELSE 0
        BY <1>2 DEF ScrollDetail, by
      <3> QED
        BY <2>1, <3>1
    <2> QED
      BY <1>2, <2>2 DEF ScrollDetail, Keeps
  <1>3. CASE ToggleCommentThread
    BY <1>3 DEF ToggleCommentThread, Keeps
  <1>4. CASE CollapseAll
    BY <1>4, CollapseAllFollows DEF CollapseAll, Keeps
  <1>5. CASE ExpandAll
    BY <1>5, ExpandAllFollows DEF ExpandAll, Keeps
  <1>6. ASSUME NEW list \in Lists, CommentsLand(list)  PROVE ThreadTypeOK'
    BY <1>6, CollapsibleAreIds DEF CommentsLand, Folded
  <1>7. CASE PostLands
    BY <1>7 DEF PostLands
  <1>8. ASSUME NEW id \in Ids, CommentCreated(id)  PROVE ThreadTypeOK'
    <2>1. comments \in Seq(Ids) /\ IsInjective(comments) /\ id \notin Range(comments)
      BY <1>8, ListFacts DEF CommentCreated
    <2> DEFINE longer == Append(comments, id)
               n == Len(comments)
    <2>2. /\ longer \in Seq(Ids) /\ n \in Nat /\ DOMAIN longer = 1 .. n + 1
          /\ DOMAIN comments = 1 .. n
          /\ longer[n + 1] = id /\ \A i \in 1 .. n : longer[i] = comments[i]
      BY <2>1
    <2>3. \A i \in 1 .. n + 1 : i = n + 1 \/ i \in 1 .. n
      BY <2>2
    <2>4. \A i \in 1 .. n : comments[i] # id
      BY <2>1, <2>2 DEF Range
    <2> HIDE DEF longer
    <2>5. IsInjective(longer)
      BY <2>1, <2>2, <2>3, <2>4 DEF IsInjective
    <2>6. longer \in Lists
      BY <2>2, <2>5, IsAList
    <2> QED
      BY <1>8, <2>6 DEF CommentCreated, longer
  <1>9. ASSUME NEW id \in Ids, CommentDeleted(id)  PROVE ThreadTypeOK'
    <2>1. comments \in Seq(Ids) /\ IsInjective(comments)
      BY ListFacts
    <2>2. Retained(comments, Range(comments) \ {id}) \in Lists
      BY <2>1, RetainedKeeps, IsAList
    <2> QED
      BY <1>9, <2>2 DEF CommentDeleted
  <1>10. CASE Reopen
    <2>1. <<>> \in Lists
      <3>1. <<>> \in Seq(Ids) /\ IsInjective(<<>>)
        BY DEF IsInjective
      <3> QED
        BY <3>1, IsAList
    <2> QED
      BY <1>10, <2>1 DEF Reopen
  <1>11. CASE Resize
    BY <1>11 DEF Resize, thread
  <1>12. CASE UNCHANGED threadVars
    BY <1>12 DEF threadVars, thread
  <1> QED
    BY <1>1, <1>2, <1>3, <1>4, <1>5, <1>6, <1>7, <1>8, <1>9, <1>10, <1>11, <1>12 DEF ThreadNext

(* The comments of a thread stay a list without a repetition, its folds    *)
(* stay among the ids and its cursor on one or on none.                    *)
THEOREM ThreadTypeCorrect == ThreadSpec => []ThreadTypeOK
  <1>1. ThreadInit => ThreadTypeOK
    BY ThreadInitTyped
  <1>2. ThreadTypeOK /\ [ThreadNext]_threadVars => ThreadTypeOK'
    BY ThreadStepTyped
  <1> QED
    BY <1>1, <1>2, PTL DEF ThreadSpec

(* For every forest of parents and every order in which the server sends   *)
(* the comments, the rows the tree walk yields are the thread: one row for *)
(* each comment, under it without a gap those below it, at its depth.      *)
THEOREM RowsAreAlwaysTheThread == ThreadSpec => []RowsAreTheThread
  <1>1. ThreadTypeOK => RowsAreTheThread
    BY RowsAreRight DEF ThreadTypeOK
  <1> QED
    BY <1>1, ThreadTypeCorrect, PTL

(* Whatever is folded, a comment is shown unless one above it is folded.   *)
THEOREM FoldsAlwaysHide == ThreadSpec => []FoldsHideReplies
  <1>1. ThreadTypeOK => FoldsHideReplies
    BY FoldsAreRight DEF ThreadTypeOK
  <1> QED
    BY <1>1, ThreadTypeCorrect, PTL

(* A motion, Z and :expand-all-threads leave the cursor on a comment that  *)
(* is shown, within the viewport by the App's count of the lines, and if   *)
(* no text above it is wrapped really displayed, in every thread and for   *)
(* every estimate, drawing and height.                                     *)
THEOREM CursorIsAlwaysFollowed == ThreadSpec => CursorIsFollowed
  <1>1. ASSUME ThreadTypeOK, [ThreadNext]_threadVars
        PROVE  [\/ \E count \in 1 .. MaxCount : Move(count, TRUE) \/ Move(count, FALSE)
                \/ (CollapseAll \/ ExpandAll) /\ focused \in Range(comments)
                => \E visible \in {Visible(comments', parents, collapsed')} :
                       OnScreen(visible, focused', scroll')]_threadVars
    BY <1>1, MoveFollows, CollapseAllFollows, ExpandAllFollows
  <1> QED
    BY <1>1, ThreadTypeCorrect, PTL DEF ThreadSpec, CursorIsFollowed
=============================================================================
