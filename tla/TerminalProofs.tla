---------------------------- MODULE TerminalProofs ----------------------------
(***************************************************************************)
(* Proofs about the event loop.                                            *)
(***************************************************************************)
EXTENDS Terminal, WellFoundedInduction, SequenceTheorems, TLAPS

-----------------------------------------------------------------------------
(* Induction over the numbers, stated of a set: its instances then need no *)
(* operator, which the provers could not be given.                         *)

LEMMA LeastNumber ==
    ASSUME NEW T \in SUBSET Nat, T # {}
    PROVE  \E n \in T : \A m \in T : ~ (m < n)
  <1>1. \E x \in T : \A y \in T : ~ (<<y, x>> \in OpToRel(<, Nat))
    BY WFMin, NatLessThanWellFounded DEF OpToRel
  <1> QED
    BY <1>1 DEF OpToRel

LEMMA Induction ==
    ASSUME NEW T, 0 \in T, \A n \in Nat : n \in T => n + 1 \in T
    PROVE  Nat \subseteq T
  <1> SUFFICES ASSUME Nat \ T # {}  PROVE FALSE
    OBVIOUS
  <1>1. PICK n \in Nat \ T : \A m \in Nat \ T : ~ (m < n)
    BY LeastNumber
  <1> QED
    BY <1>1

-----------------------------------------------------------------------------
(* The fold of the waiting actions over a compose line.                    *)
Fold(c, s) == FoldLeft(Echoed, c, s)

(* The function in the definition of the fold, over the places ks of s.    *)
Folds(iter, c, s, ks) ==
    iter = [D \in SUBSET ks |->
               IF D = {} THEN c ELSE Echoed(iter[D \ {Max(D)}], s[Max(D)])]

LEMMA FoldDef ==
    ASSUME NEW c, NEW S, NEW s \in Seq(S)
    PROVE  Fold(c, s) = (CHOOSE iter : Folds(iter, c, s, 1 .. Len(s)))[1 .. Len(s)]
  <1>1. Fold(c, s) = (CHOOSE iter : Folds(iter, c, s, DOMAIN s))[DOMAIN s]
    BY DEF Fold, FoldLeft, MapThenFoldSet, Folds
  <1>2. DOMAIN s = 1 .. Len(s)
    OBVIOUS
  <1> QED
    BY <1>1, <1>2

LEMMA MaxIsLast ==
    ASSUME NEW n \in Nat, NEW D \in SUBSET (1 .. n + 1), n + 1 \in D
    PROVE  Max(D) = n + 1
  <1>1. \A y \in D : y \in Nat /\ n + 1 >= y
    OBVIOUS
  <1>2. \A x \in D : (\A y \in D : x >= y) => x = n + 1
    BY <1>1
  <1> QED
    BY <1>1, <1>2 DEF Max

LEMMA FoldsExist ==
    ASSUME NEW c, NEW s
    PROVE  \A n \in Nat : \E iter : Folds(iter, c, s, 1 .. n)
  <1> DEFINE T == {n \in Nat : \E iter : Folds(iter, c, s, 1 .. n)}
  <1>1. 0 \in T
    <2> DEFINE none == [D \in SUBSET (1 .. 0) |-> c]
    <2>1. SUBSET (1 .. 0) = {{}}
      OBVIOUS
    <2>2. Folds(none, c, s, 1 .. 0)
      BY <2>1 DEF Folds
    <2> QED
      BY <2>2
  <1>2. ASSUME NEW n \in Nat, n \in T
        PROVE  n + 1 \in T
    <2>1. PICK iter : Folds(iter, c, s, 1 .. n)
      BY <1>2
    <2> DEFINE next == [D \in SUBSET (1 .. n + 1) |->
                           IF n + 1 \in D THEN Echoed(iter[D \ {n + 1}], s[n + 1])
                           ELSE iter[D]]
    <2>2. ASSUME NEW D \in SUBSET (1 .. n + 1)
          PROVE  next[D] = IF D = {} THEN c ELSE Echoed(next[D \ {Max(D)}], s[Max(D)])
      <3>1. CASE n + 1 \in D
        <4>1. Max(D) = n + 1
          BY <3>1, MaxIsLast
        <4>2. D \ {n + 1} \in SUBSET (1 .. n + 1) /\ n + 1 \notin D \ {n + 1}
          OBVIOUS
        <4>3. next[D \ {n + 1}] = iter[D \ {n + 1}]
          BY <4>2
        <4> QED
          BY <3>1, <4>1, <4>3
      <3>2. CASE n + 1 \notin D
        <4>1. D \in SUBSET (1 .. n)
          BY <3>2
        <4>2. /\ D \ {Max(D)} \in SUBSET (1 .. n + 1)
              /\ n + 1 \notin D \ {Max(D)}
          BY <3>2
        <4>3. next[D] = iter[D] /\ next[D \ {Max(D)}] = iter[D \ {Max(D)}]
          BY <3>2, <4>2
        <4>4. iter[D] = IF D = {} THEN c ELSE Echoed(iter[D \ {Max(D)}], s[Max(D)])
          BY <2>1, <4>1 DEF Folds
        <4> QED
          BY <4>3, <4>4
      <3> QED
        BY <3>1, <3>2
    <2>3. Folds(next, c, s, 1 .. n + 1)
      BY <2>2 DEF Folds
    <2> QED
      BY <2>3
  <1> HIDE DEF T
  <1>3. Nat \subseteq T
    BY <1>1, <1>2, Induction
  <1> QED
    BY <1>3 DEF T

(* What the compose line is after each of the waiting actions.             *)
Trace(f, c, s) ==
    /\ f[0] = c
    /\ \A k \in 1 .. Len(s) : f[k] = Echoed(f[k - 1], s[k])

LEMMA FoldHasTrace ==
    ASSUME NEW c, NEW S, NEW s \in Seq(S)
    PROVE  \E f : Trace(f, c, s) /\ Fold(c, s) = f[Len(s)]
  <1>1. Len(s) \in Nat
    OBVIOUS
  <1> DEFINE iter == CHOOSE iter : Folds(iter, c, s, 1 .. Len(s))
  <1>2. Folds(iter, c, s, 1 .. Len(s))
    <2>1. \E other : Folds(other, c, s, 1 .. Len(s))
      BY <1>1, FoldsExist
    <2> QED
      BY <2>1
  <1>3. Fold(c, s) = iter[1 .. Len(s)]
    BY FoldDef
  <1> HIDE DEF iter
  <1> DEFINE f == [k \in 0 .. Len(s) |-> iter[1 .. k]]
  <1>4. f[0] = c
    <2>1. 1 .. 0 = {} /\ {} \in SUBSET (1 .. Len(s))
      OBVIOUS
    <2> QED
      BY <1>1, <1>2, <2>1 DEF Folds
  <1>5. ASSUME NEW k \in 1 .. Len(s)
        PROVE  f[k] = Echoed(f[k - 1], s[k])
    <2>1. Max(1 .. k) = k
      BY <1>1 DEF Max
    <2>2. /\ (1 .. k) \ {k} = 1 .. k - 1
          /\ 1 .. k # {}
          /\ 1 .. k \in SUBSET (1 .. Len(s))
      <3>1. \A i : i \in (1 .. k) \ {k} <=> i \in 1 .. k - 1
        BY <1>1
      <3>2. k \in 1 .. k /\ \A i \in 1 .. k : i \in 1 .. Len(s)
        BY <1>1
      <3> QED
        BY <3>1, <3>2
    <2>3. \A D \in SUBSET (1 .. Len(s)) :
             iter[D] = IF D = {} THEN c ELSE Echoed(iter[D \ {Max(D)}], s[Max(D)])
      BY <1>2 DEF Folds
    <2>4. iter[1 .. k] = Echoed(iter[(1 .. k) \ {Max(1 .. k)}], s[Max(1 .. k)])
      BY <2>2, <2>3
    <2>5. iter[1 .. k] = Echoed(iter[1 .. k - 1], s[k])
      BY <2>1, <2>2, <2>4
    <2> QED
      BY <1>1, <2>5
  <1>6. Fold(c, s) = f[Len(s)]
    BY <1>1, <1>3
  <1> HIDE DEF f
  <1> QED
    BY <1>4, <1>5, <1>6 DEF Trace

(* Two traces that meet go on alike.                                       *)
LEMMA TracesMeet ==
    ASSUME NEW c, NEW d, NEW S, NEW s \in Seq(S), NEW f, NEW g, Trace(f, c, s), Trace(g, d, s),
           NEW j \in 0 .. Len(s), f[j] = g[j]
    PROVE  f[Len(s)] = g[Len(s)]
  <1>1. Len(s) \in Nat
    OBVIOUS
  <1> DEFINE T == {n \in Nat : j + n <= Len(s) => f[j + n] = g[j + n]}
  <1>2. 0 \in T
    OBVIOUS
  <1>3. ASSUME NEW n \in Nat, n \in T
        PROVE  n + 1 \in T
    <2> SUFFICES ASSUME j + (n + 1) <= Len(s)
                 PROVE  f[j + (n + 1)] = g[j + (n + 1)]
      OBVIOUS
    <2>1. f[j + n] = g[j + n]
      BY <1>1, <1>3
    <2>2. j + (n + 1) \in 1 .. Len(s) /\ j + (n + 1) - 1 = j + n
      BY <1>1
    <2> QED
      BY <2>1, <2>2 DEF Trace
  <1> HIDE DEF T
  <1>4. Nat \subseteq T
    BY <1>2, <1>3, Induction
  <1>5. Len(s) - j \in T /\ j + (Len(s) - j) = Len(s)
    BY <1>1, <1>4
  <1> QED
    BY <1>1, <1>5 DEF T

LEMMA FoldOfTrace ==
    ASSUME NEW c, NEW S, NEW s \in Seq(S), NEW f, Trace(f, c, s)
    PROVE  Fold(c, s) = f[Len(s)]
  <1>1. PICK g : Trace(g, c, s) /\ Fold(c, s) = g[Len(s)]
    BY FoldHasTrace
  <1>2. f[0] = g[0] /\ 0 \in 0 .. Len(s)
    BY <1>1 DEF Trace
  <1> QED
    BY <1>1, <1>2, TracesMeet

(* No action leaves the line as it is.                                     *)
LEMMA FoldEmpty == \A c : Fold(c, <<>>) = c
  <1> TAKE c
  <1>1. <<>> \in Seq({}) /\ Len(<<>>) = 0
    OBVIOUS
  <1>2. Trace([k \in {0} |-> c], c, <<>>)
    BY <1>1 DEF Trace
  <1> QED
    BY <1>1, <1>2, FoldOfTrace

(* An action that comes last is echoed last ...                            *)
LEMMA FoldAppend ==
    ASSUME NEW c, NEW S, NEW s \in Seq(S), NEW e \in S
    PROVE  Fold(c, Append(s, e)) = Echoed(Fold(c, s), e)
  <1>1. PICK f : Trace(f, c, s) /\ Fold(c, s) = f[Len(s)]
    BY FoldHasTrace
  <1>2. /\ Append(s, e) \in Seq(S) /\ Len(Append(s, e)) = Len(s) + 1 /\ Len(s) \in Nat
        /\ \A k \in 1 .. Len(s) : Append(s, e)[k] = s[k]
        /\ Append(s, e)[Len(s) + 1] = e
    BY AppendProperties
  <1> DEFINE g == [k \in 0 .. Len(s) + 1 |-> IF k = Len(s) + 1 THEN Echoed(f[Len(s)], e) ELSE f[k]]
  <1>3. g[0] = c
    BY <1>1, <1>2 DEF Trace
  <1>4. ASSUME NEW k \in 1 .. Len(s) + 1
        PROVE  g[k] = Echoed(g[k - 1], Append(s, e)[k])
    BY <1>1, <1>2 DEF Trace
  <1>5. g[Len(s) + 1] = Echoed(f[Len(s)], e)
    BY <1>2
  <1> HIDE DEF g
  <1>6. Trace(g, c, Append(s, e))
    BY <1>2, <1>3, <1>4 DEF Trace
  <1> QED
    BY <1>1, <1>2, <1>5, <1>6, FoldOfTrace

LEMMA FoldOne ==
    ASSUME NEW c, NEW e
    PROVE  Fold(c, <<e>>) = Echoed(c, e)
  <1>1. <<>> \in Seq({e}) /\ e \in {e} /\ Append(<<>>, e) = <<e>>
    OBVIOUS
  <1>2. Fold(c, Append(<<>>, e)) = Echoed(Fold(c, <<>>), e)
    BY <1>1, FoldAppend
  <1> QED
    BY <1>1, <1>2, FoldEmpty

(* ... and one that comes first is echoed first.                           *)
LEMMA FoldHead ==
    ASSUME NEW c, NEW S, NEW e \in S, NEW s \in Seq(S)
    PROVE  Fold(c, <<e>> \o s) = Fold(Echoed(c, e), s)
  <1>1. PICK f : Trace(f, Echoed(c, e), s) /\ Fold(Echoed(c, e), s) = f[Len(s)]
    BY FoldHasTrace
  <1> DEFINE t == <<e>> \o s
  <1>2. /\ t \in Seq(S) /\ Len(t) = Len(s) + 1 /\ Len(s) \in Nat
        /\ t[1] = e /\ \A k \in 2 .. Len(s) + 1 : t[k] = s[k - 1]
    OBVIOUS
  <1> HIDE DEF t
  <1> DEFINE g == [k \in 0 .. Len(s) + 1 |-> IF k = 0 THEN c ELSE f[k - 1]]
  <1>3. g[0] = c /\ g[Len(s) + 1] = f[Len(s)]
    BY <1>2
  <1>4. ASSUME NEW k \in 1 .. Len(s) + 1
        PROVE  g[k] = Echoed(g[k - 1], t[k])
    <2>1. CASE k = 1
      BY <1>1, <1>2, <2>1 DEF Trace
    <2>2. CASE k \in 2 .. Len(s) + 1
      BY <1>1, <1>2, <2>2 DEF Trace
    <2> QED
      BY <1>2, <2>1, <2>2
  <1> HIDE DEF g
  <1>5. Trace(g, c, t)
    BY <1>2, <1>3, <1>4 DEF Trace
  <1>6. Fold(c, t) = g[Len(t)]
    BY <1>2, <1>5, FoldOfTrace
  <1> QED
    BY <1>1, <1>2, <1>3, <1>6 DEF t

(* Where a line begins among the actions, what was there is forgotten.     *)
LEMMA FoldForgets ==
    ASSUME NEW c, NEW d, NEW S, NEW s \in Seq(S),
           NEW j \in 1 .. Len(s), s[j].name \in LineModes
    PROVE  Fold(c, s) = Fold(d, s)
  <1>1. PICK f : Trace(f, c, s) /\ Fold(c, s) = f[Len(s)]
    BY FoldHasTrace
  <1>2. PICK g : Trace(g, d, s) /\ Fold(d, s) = g[Len(s)]
    BY FoldHasTrace
  <1>3. \A shown : Echoed(shown, s[j]) = <<>>
    BY DEF Echoed, LineModes, SearchModes
  <1>4. f[j] = g[j] /\ j \in 0 .. Len(s)
    BY <1>1, <1>2, <1>3 DEF Trace
  <1> QED
    BY <1>1, <1>2, <1>4, TracesMeet
-----------------------------------------------------------------------------
(* Tab: the longest prefix of the matches is there, and is at least what   *)
(* was typed.                                                              *)
LEMMA PrefixIsCommon ==
    ASSUME NEW l \in Seq(Chars), NEW names, names \subseteq Seq(Chars), names # {},
           \A t \in names : IsPrefix(l, t)
    PROVE  l \in CommonPrefixes(names)
  <1>1. PICK t \in names : t \in Seq(Chars)
    OBVIOUS
  <1>2. /\ Len(l) \in Nat /\ Len(t) \in Nat
        /\ Len(l) <= Len(t) /\ SubSeq(l, 1, Len(l)) = SubSeq(t, 1, Len(l))
    BY <1>1 DEF IsPrefix
  <1>3. SubSeq(l, 1, Len(l)) = l
    BY SubSeqFull
  <1>4. l = SubSeq(t, 1, Len(l)) /\ Len(l) \in 0 .. Len(t)
    BY <1>2, <1>3
  <1>5. l \in Prefixes(t)
    BY <1>4 DEF Prefixes
  <1>6. l \in UNION {Prefixes(u) : u \in names}
    BY <1>5
  <1> QED
    BY <1>6 DEF CommonPrefixes

LEMMA CommonPrefixIsShort ==
    ASSUME NEW names, names \subseteq Seq(Chars), NEW t \in names,
           NEW p \in CommonPrefixes(names)
    PROVE  p \in Seq(Chars) /\ Len(p) <= Len(t)
  <1>1. PICK u \in names : p \in Prefixes(u)
    BY DEF CommonPrefixes
  <1>2. p \in Seq(Chars)
    <2>1. PICK n \in 0 .. Len(u) : p = SubSeq(u, 1, n)
      BY <1>1 DEF Prefixes
    <2>2. n \in Int /\ \A i \in 1 .. n : u[i] \in Chars
      BY <2>1
    <2>3. SubSeq(u, 1, n) \in Seq(Chars)
      BY <2>2, SubSeqProperties
    <2> QED
      BY <2>1, <2>3
  <1>3. IsPrefix(p, t)
    BY DEF CommonPrefixes
  <1> QED
    BY <1>2, <1>3 DEF IsPrefix

LEMMA LongestIsThere ==
    ASSUME NEW l \in Seq(Chars), NEW names, names \subseteq Seq(Chars), names # {},
           \A t \in names : IsPrefix(l, t)
    PROVE  LET p == LongestCommonPrefix(names)
           IN  p \in Seq(Chars) /\ Len(l) <= Len(p)
  <1>1. l \in CommonPrefixes(names)
    BY PrefixIsCommon
  <1>2. PICK t \in names : t \in Seq(Chars)
    OBVIOUS
  <1>3. \A p \in CommonPrefixes(names) : p \in Seq(Chars) /\ Len(p) <= Len(t)
    BY CommonPrefixIsShort
  <1> DEFINE T == {Len(t) - Len(p) : p \in CommonPrefixes(names)}
  <1>4. T \in SUBSET Nat /\ T # {}
    BY <1>1, <1>2, <1>3
  <1>5. PICK n \in T : \A m \in T : ~ (m < n)
    BY <1>4, LeastNumber
  <1>6. PICK p \in CommonPrefixes(names) : n = Len(t) - Len(p)
    BY <1>5
  <1>7. \A q \in CommonPrefixes(names) : Len(q) <= Len(p)
    <2> TAKE q \in CommonPrefixes(names)
    <2>1. Len(t) - Len(q) \in T
      OBVIOUS
    <2>2. ~ (Len(t) - Len(q) < Len(t) - Len(p))
      BY <1>5, <1>6, <2>1
    <2>3. Len(p) \in Nat /\ Len(q) \in Nat /\ Len(t) \in Nat
      BY <1>2, <1>3
    <2> HIDE DEF T
    <2> QED
      BY <2>2, <2>3
  <1> DEFINE longest == CHOOSE q \in CommonPrefixes(names) :
                            \A r \in CommonPrefixes(names) : Len(r) <= Len(q)
  <1>8. /\ longest \in CommonPrefixes(names)
        /\ \A q \in CommonPrefixes(names) : Len(q) <= Len(longest)
    BY <1>7
  <1>9. LongestCommonPrefix(names) = longest
    BY DEF LongestCommonPrefix
  <1> HIDE DEF longest
  <1> QED
    BY <1>1, <1>3, <1>8, <1>9

LEMMA ExtendedIsLonger ==
    ASSUME NEW l \in Seq(Chars)
    PROVE  Extended(l) \in Seq(Chars) /\ (l # <<>> => Extended(l) # <<>>)
  <1>1. CASE l = <<>> \/ Matches(l) = {}
    BY <1>1 DEF Extended
  <1>2. CASE l # <<>> /\ Matches(l) # {}
    <2>1. Matches(l) \subseteq Seq(Chars) /\ \A t \in Matches(l) : IsPrefix(l, t)
      BY InputConstants DEF Matches, IsStrictPrefix
    <2>2. /\ LongestCommonPrefix(Matches(l)) \in Seq(Chars)
          /\ Len(l) <= Len(LongestCommonPrefix(Matches(l)))
      BY <1>2, <2>1, LongestIsThere
    <2>3. Len(l) \in Nat \ {0}
      BY <1>2
    <2>4. LongestCommonPrefix(Matches(l)) # <<>>
      BY <2>2, <2>3
    <2>5. Extended(l) = LongestCommonPrefix(Matches(l))
      BY <1>2 DEF Extended
    <2> QED
      BY <2>2, <2>4, <2>5
  <1> QED
    BY <1>1, <1>2
-----------------------------------------------------------------------------
(* No count and no half of a sequence outlives its mode: this is inductive *)
(* as it stands, for any table of bindings.                                *)
LEMMA HandleKeepsItIn == ASSUME NothingLeaks, NEW key, Handle(key)  PROVE NothingLeaks'
  <1> USE DEF NothingLeaks, LineModes, SearchModes, MappedModes
  <1>1. mappings' = mappings
    BY DEF Handle
  <1>2. CASE HandleControl(key)
    BY <1>1, <1>2 DEF HandleControl, HasPrefix, CompleteIn
  <1>3. CASE HandleInsert(key)
    BY <1>3 DEF HandleInsert, LeaveModal
  <1>4. CASE HandleLineMode(key)
    BY <1>4 DEF HandleLineMode, LeaveModal
  <1>5. CASE HandleMapped(key)
    <2>1. CASE AddDigit(key)
      BY <1>5, <2>1 DEF HandleMapped, AddDigit
    <2>2. CASE Match(key) /\ CompleteIn(Append(pending, key)) # {}
      <3>1. /\ pending' = <<>>
            /\ Apply(mappings[LongestComplete(Append(pending, key))],
                     IF count = 0 THEN 1 ELSE count)
        BY <2>2 DEF Match
      <3>2. ASSUME NEW name, NEW n, Apply(name, n)
            PROVE  mode' \in LineModes \union {"insert"} => count' = 0
        BY <1>5, <3>2 DEF Apply, LeaveModal, HandleMapped
      <3> QED
        BY <3>1, <3>2
    <2>3. CASE Match(key) /\ CompleteIn(Append(pending, key)) = {}
      BY <1>1, <1>5, <2>3 DEF Match, HandleMapped, HasPrefix, CompleteIn
    <2> QED
      BY <1>5, <2>1, <2>2, <2>3 DEF HandleMapped
  <1> QED
    BY <1>2, <1>3, <1>4, <1>5 DEF Handle

LEMMA OthersLeaveTheEngine ==
    ASSUME [Next]_vars, ~ \E key \in Keys : Key(key)
    PROVE  UNCHANGED <<mappings, engine>>
  BY DEF Next, vars, StartAction, StartTick, EndLoop, InputFails, FinishAction, EnterMode,
         EditCompose, SubmitSearch, SubmitCommand, Open, Back, Quit, OtherAction,
         PollCompleted, ActionFails, PostAnswers, Finishes

(* No count and no half typed sequence reaches a line or a text, and a     *)
(* sequence that waits can still be finished (the modes of                 *)
(* src/input/engine.rs).  The count in Normal and Visual mode is free.     *)
THEOREM NothingEverLeaks == Spec => []NothingLeaks
  <1>1. Init => NothingLeaks
    BY DEF Init, EngineInit, NothingLeaks
  <1>2. NothingLeaks /\ [Next]_vars => NothingLeaks'
    <2> SUFFICES ASSUME NothingLeaks, [Next]_vars  PROVE NothingLeaks'
      OBVIOUS
    <2>1. CASE \E key \in Keys : Key(key)
      BY <2>1, HandleKeepsItIn DEF Key
    <2>2. CASE ~ \E key \in Keys : Key(key)
      BY <2>2, OthersLeaveTheEngine DEF NothingLeaks, engine, HasPrefix, CompleteIn
    <2> QED
      BY <2>1, <2>2
  <1> QED
    BY <1>1, <1>2, PTL DEF Spec

(* What a handled key leaves of a count, for any table of bindings.        *)
LEMMA HandleEndsCounts ==
    ASSUME NothingLeaks, NEW key \in Keys, Handle(key),
           queue' # queue \/ (Ended /\ ~ (key \in Digits /\ Counts(key)))
    PROVE  count' = 0
  <1> USE DEF NothingLeaks, LineModes, SearchModes, MappedModes, Ended
  <1>1. CASE HandleControl(key)
    BY <1>1 DEF HandleControl, Modes
  <1>2. CASE HandleInsert(key)
    BY <1>2 DEF HandleInsert, LeaveModal
  <1>3. CASE HandleLineMode(key)
    BY <1>3 DEF HandleLineMode, LeaveModal
  <1>4. CASE HandleMapped(key)
    <2>1. CASE Counts(key)
      BY <1>4, <2>1 DEF HandleMapped, AddDigit, Counts
    <2>2. CASE Match(key) /\ CompleteIn(Append(pending, key)) # {}
      <3>1. ASSUME NEW name, NEW n, Apply(name, n)  PROVE count' = 0
        BY <1>4, <3>1 DEF Apply, LeaveModal, HandleMapped
      <3> QED
        BY <2>2, <3>1 DEF Match
    <2>3. CASE Match(key) /\ CompleteIn(Append(pending, key)) = {}
      BY <2>3 DEF Match
    <2> QED
      BY <1>4, <2>1, <2>2, <2>3 DEF HandleMapped
  <1> QED
    BY <1>1, <1>2, <1>3, <1>4 DEF Handle

(* No count and no half sequence reaches another mode; a count ends with   *)
(* its command, and with the sequence a key ends unless that key is a      *)
(* digit of a count (src/input/engine.rs).                                 *)
THEOREM CountsAlwaysEnd == Spec => CountsEnd
  <1>1. NothingLeaks /\ [Next]_vars =>
            [Commanded \/ (Ended /\ ~ \E d \in Digits : Counts(d) /\ Key(d)) => count' = 0]_vars
    <2> SUFFICES ASSUME NothingLeaks, Next,
                        Commanded \/ (Ended /\ ~ \E d \in Digits : Counts(d) /\ Key(d))
                 PROVE  count' = 0
      BY DEF vars
    <2>1. CASE \E key \in Keys : Key(key)
      BY <2>1, HandleEndsCounts DEF Key, Commanded
    <2>2. CASE ~ \E key \in Keys : Key(key)
      <3>1. ~ Ended
        BY <2>2, OthersLeaveTheEngine DEF engine, Ended
      <3>2. ~ Commanded
        <4>1. CASE StartAction
          <5>1. running = <<>> /\ running' = <<Head(queue)>>
            BY <4>1 DEF StartAction
          <5> QED
            BY <5>1 DEF Commanded
        <4>2. CASE ~ StartAction
          BY <2>2, <4>2 DEF Commanded, Next, StartTick, EndLoop, InputFails, FinishAction,
                      EnterMode, EditCompose, SubmitSearch, SubmitCommand, Open, Back, Quit,
                      OtherAction, PollCompleted, ActionFails, PostAnswers, Finishes
        <4> QED
          BY <4>1, <4>2
      <3> QED
        BY <3>1, <3>2
    <2> QED
      BY <2>1, <2>2
  <1> QED
    BY <1>1, NothingEverLeaks, PTL DEF Spec, CountsEnd
-----------------------------------------------------------------------------
(* The line.  A submit that leaves the compose line as it is would show it *)
(* in the next line, were that one not begun after it, and cleared then.   *)

Sequences ==
    /\ line \in Seq(Chars)
    /\ queue \in Seq(Range(queue))
    /\ running \in Seq(Range(running)) /\ Len(running) <= 1

Begins(action) == action.name \in LineModes

SubmitsAreOver ==
    mode \in LineModes =>
        \A k \in 1 .. Len(Waiting) : Waiting[k].name = "submit" =>
            \E j \in k + 1 .. Len(Waiting) : Begins(Waiting[j])

IndInv ==
    /\ Sequences
    /\ loop = "on" => SubmitsAreOver
    /\ LineIsShown

LEMMA SequenceGrows ==
    ASSUME NEW s, s \in Seq(Range(s)), NEW e
    PROVE  /\ Append(s, e) \in Seq(Range(Append(s, e)))
           /\ Append(s, e) \in Seq(Range(s) \union {e})
           /\ s \in Seq(Range(s) \union {e})
  <1>1. s \in Seq(Range(s) \union {e})
    BY SeqMonotonic
  <1>2. Append(s, e) \in Seq(Range(s) \union {e})
    BY <1>1, AppendProperties
  <1> QED
    BY <1>1, <1>2, SeqOfRange

LEMMA OneIsHead ==
    ASSUME NEW S, NEW s \in Seq(S), s # <<>>, Len(s) <= 1
    PROVE  Head(s) \in S /\ s = <<Head(s)>>
  <1>1. Len(s) = 1
    <2>1. Len(s) \in Nat /\ (Len(s) = 0 => s = <<>>)
      BY EmptySeq, LenProperties
    <2> QED
      BY <2>1
  <1>2. Head(s) = s[1] /\ s[1] \in S
    BY <1>1
  <1>3. <<s[1]>> \in Seq(S) /\ Len(<<s[1]>>) = 1 /\ <<s[1]>>[1] = s[1]
    BY <1>2
  <1>4. s = <<s[1]>>
    BY <1>1, <1>3, SeqEqual
  <1> QED
    BY <1>2, <1>4

LEMMA TailIsSequence ==
    ASSUME NEW s, s \in Seq(Range(s)), s # <<>>
    PROVE  Tail(s) \in Seq(Range(Tail(s))) /\ s = <<Head(s)>> \o Tail(s)
  <1>1. Tail(s) \in Seq(Range(s))
    BY HeadTailProperties
  <1>2. Tail(s) \in Seq(Range(Tail(s)))
    BY <1>1, SeqOfRange
  <1>3. s = <<Head(s)>> \o Tail(s)
    BY <1>1
  <1> QED
    BY <1>2, <1>3

(* What the actions that wait are, whatever they are.                      *)
Actions == Range(running) \union Range(queue)

LEMMA WaitingIsSequence ==
    ASSUME Sequences
    PROVE  running \in Seq(Actions) /\ queue \in Seq(Actions) /\ Waiting \in Seq(Actions)
  <1>1. running \in Seq(Actions) /\ queue \in Seq(Actions)
    BY SeqMonotonic DEF Sequences, Actions
  <1> QED
    BY <1>1, ConcatProperties DEF Waiting

LEMMA QueueGrows ==
    ASSUME Sequences, NEW c, Queue(c), UNCHANGED running
    PROVE  /\ queue' \in Seq(Range(queue'))
           /\ Waiting' = Append(Waiting, c)
           /\ Waiting \in Seq(Actions \union {c})
  <1>1. queue' = Append(queue, c)
    BY DEF Queue
  <1>2. queue' \in Seq(Range(queue'))
    BY <1>1, SequenceGrows DEF Sequences
  <1>3. /\ running \in Seq(Actions \union {c}) /\ queue \in Seq(Actions \union {c})
        /\ Waiting \in Seq(Actions \union {c})
    BY WaitingIsSequence, SeqMonotonic
  <1>4. running \o Append(queue, c) = Append(running \o queue, c)
    BY <1>3
  <1> QED
    BY <1>1, <1>2, <1>3, <1>4 DEF Waiting

(* What a key does to the line: the mode is left; nothing happens; a line  *)
(* begins; or it is edited, as the action that goes into the queue says.   *)
KeyOnLine ==
    \/ mode' \notin LineModes /\ (UNCHANGED queue \/ \E c : Queue(c))
    \/ UNCHANGED <<mode, line, queue>>
    \/ \E c : Queue(c) /\ Begins(c) /\ line' = <<>>
    \/ \E c : Queue(c) /\ c.name # "submit" /\ line' = Echoed(line, c) /\ UNCHANGED mode

LEMMA HandleOnLine ==
    ASSUME Sequences, NEW key \in Keys, Handle(key)
    PROVE  KeyOnLine /\ line' \in Seq(Chars)
  <1> USE DEF Emit, Command, Begins, LineModes, SearchModes, MappedModes
  <1>1. line \in Seq(Chars) /\ <<>> \in Seq(Chars)
    BY DEF Sequences
  <1>2. CASE HandleControl(key)
    BY <1>1, <1>2 DEF HandleControl, KeyOnLine
  <1>3. CASE HandleInsert(key)
    BY <1>1, <1>3 DEF HandleInsert, LeaveModal, KeyOnLine
  <1>4. CASE HandleLineMode(key)
    <2>1. CASE LeaveModal("cancel-line")
      BY <1>1, <2>1 DEF LeaveModal, KeyOnLine
    <2>2. CASE Emit(Submitted(line, mode)) /\ mode' = "normal" /\ line' = <<>>
      BY <1>1, <2>2 DEF KeyOnLine
    <2>3. CASE EditLine(key) /\ UNCHANGED mode
      <3>1. CASE /\ key \in TextChars
                 /\ line' = Append(line, key)
                 /\ Queue(Text(key))
        <4>1. Echoed(line, Text(key)) = Append(line, key) /\ Text(key).name # "submit"
          BY DEF Echoed, Text
        <4>2. key \in Chars
          BY <3>1, InputConstants
        <4> QED
          BY <1>1, <2>3, <3>1, <4>1, <4>2 DEF KeyOnLine
      <3>2. CASE /\ line' = IF line = <<>> THEN line ELSE Front(line)
                 /\ Queue(Command("backspace"))
        <4>1. Echoed(line, Command("backspace")) = IF line = <<>> THEN line ELSE Front(line)
          BY DEF Echoed
        <4>2. line # <<>> => Front(line) \in Seq(Chars)
          <5>1. Len(line) \in Nat /\ \A i \in 1 .. Len(line) - 1 : line[i] \in Chars
            BY <1>1
          <5> QED
            BY <5>1, SubSeqProperties DEF Front
        <4> QED
          BY <1>1, <2>3, <3>2, <4>1, <4>2 DEF KeyOnLine
      <3>3. CASE /\ line' = Extended(line)
                 /\ IF line' = <<>> THEN UNCHANGED queue ELSE Queue(Completed(line'))
        <4>1. line' \in Seq(Chars) /\ (line # <<>> => line' # <<>>)
          BY <1>1, <3>3, ExtendedIsLonger
        <4>2. CASE line' = <<>>
          BY <2>3, <3>3, <4>1, <4>2 DEF KeyOnLine
        <4>3. CASE line' # <<>>
          <5>1. /\ Echoed(line, Completed(line')) = line'
                /\ Completed(line').name # "submit"
            BY DEF Echoed, Completed
          <5> QED
            BY <2>3, <3>3, <4>1, <4>3, <5>1 DEF KeyOnLine
        <4> QED
          BY <4>2, <4>3
      <3> QED
        BY <2>3, <3>1, <3>2, <3>3 DEF EditLine
    <2> QED
      BY <1>4, <2>1, <2>2, <2>3 DEF HandleLineMode
  <1>5. CASE HandleMapped(key)
    <2>1. mode \notin LineModes
      BY <1>5 DEF HandleMapped
    <2>2. CASE AddDigit(key)
      BY <1>1, <2>1, <2>2 DEF AddDigit, KeyOnLine
    <2>3. CASE Match(key) /\ CompleteIn(Append(pending, key)) # {}
      <3>1. ASSUME NEW name, NEW n, Apply(name, n)
            PROVE  KeyOnLine /\ line' \in Seq(Chars)
        <4>1. CASE name = "back"
          BY <1>1, <3>1, <4>1 DEF Apply, LeaveModal, KeyOnLine
        <4>2. CASE name \in {"insert", "visual"}
          BY <1>1, <3>1, <4>2 DEF Apply, KeyOnLine
        <4>3. CASE name \in LineModes
          BY <1>1, <3>1, <4>3 DEF Apply, KeyOnLine
        <4>4. CASE name \notin LineModes \union {"back", "insert", "visual"}
          BY <1>1, <2>1, <3>1, <4>4 DEF Apply, KeyOnLine
        <4> QED
          BY <4>1, <4>2, <4>3, <4>4
      <3> QED
        BY <2>3, <3>1 DEF Match
    <2>4. CASE Match(key) /\ CompleteIn(Append(pending, key)) = {}
      BY <1>1, <2>4 DEF Match, KeyOnLine
    <2> QED
      BY <1>5, <2>2, <2>3, <2>4 DEF HandleMapped
  <1> QED
    BY <1>2, <1>3, <1>4, <1>5 DEF Handle

LEMMA KeyKeepsLine ==
    ASSUME IndInv, NEW key \in Keys, Key(key)
    PROVE  IndInv'
  <1>1. Sequences /\ loop = "on" /\ loop' = "on" /\ Handle(key)
        /\ UNCHANGED <<running, compose>>
    BY DEF IndInv, Key, app
  <1>2. KeyOnLine /\ line' \in Seq(Chars)
    BY <1>1, HandleOnLine
  <1>3. CASE UNCHANGED queue
    <2>1. Sequences' /\ Waiting' = Waiting
      BY <1>1, <1>2, <1>3 DEF Sequences, Waiting, Range
    <2>2. mode' \in LineModes => UNCHANGED <<mode, line>>
      <3>1. ASSUME NEW c, Queue(c)  PROVE FALSE
        <4>1. queue \in Seq(Range(queue) \union {c})
          BY <1>1, SequenceGrows DEF Sequences
        <4> QED
          BY <1>3, <3>1, <4>1 DEF Queue
      <3> QED
        BY <1>2, <3>1 DEF KeyOnLine
    <2> QED
      BY <1>1, <2>1, <2>2 DEF IndInv, SubmitsAreOver, LineIsShown
  <1>4. ASSUME NEW c, Queue(c),
               mode' \in LineModes =>
                  \/ Begins(c) /\ line' = <<>>
                  \/ c.name # "submit" /\ line' = Echoed(line, c) /\ UNCHANGED mode
        PROVE  IndInv'
    <2>1. /\ queue' \in Seq(Range(queue'))
          /\ Waiting' = Append(Waiting, c)
          /\ Waiting \in Seq(Actions \union {c})
      BY <1>1, <1>4, QueueGrows
    <2>2. Sequences'
      BY <1>1, <1>2, <2>1 DEF Sequences, Range
    <2>3. Fold(compose, Append(Waiting, c)) = Echoed(Fold(compose, Waiting), c)
      BY <2>1, FoldAppend
    <2>4. ASSUME mode' \in LineModes, Begins(c), line' = <<>>
          PROVE  SubmitsAreOver' /\ LineIsShown'
      <3>1. \A shown : Echoed(shown, c) = <<>>
        BY <2>4 DEF Echoed, Begins, LineModes, SearchModes
      <3>2. c.name # "submit"
        BY <2>4 DEF Begins, LineModes, SearchModes
      <3>3. SubmitsAreOver'
        BY <2>1, <2>4, <3>2 DEF SubmitsAreOver
      <3> QED
        BY <1>1, <2>1, <2>3, <2>4, <3>1, <3>3 DEF LineIsShown, Fold
    <2>5. ASSUME mode' \in LineModes, c.name # "submit", line' = Echoed(line, c), mode' = mode
          PROVE  SubmitsAreOver' /\ LineIsShown'
      <3>1. Fold(compose, Waiting) = line /\ SubmitsAreOver
        BY <1>1, <2>5 DEF IndInv, LineIsShown, Fold
      <3>2. SubmitsAreOver'
        <4> DEFINE W == Append(Waiting, c)
        <4> SUFFICES ASSUME NEW k \in 1 .. Len(W), W[k].name = "submit"
                     PROVE  \E j \in k + 1 .. Len(W) : Begins(W[j])
          BY <2>1 DEF SubmitsAreOver, Begins
        <4>1. /\ Len(W) = Len(Waiting) + 1 /\ Len(Waiting) \in Nat
              /\ \A j \in 1 .. Len(Waiting) : W[j] = Waiting[j]
              /\ W[Len(Waiting) + 1] = c
          BY <2>1
        <4> HIDE DEF W
        <4>2. k \in 1 .. Len(Waiting) /\ Waiting[k].name = "submit"
          <5>1. k # Len(Waiting) + 1
            <6>1. W[Len(Waiting) + 1].name # "submit"
              BY <2>5, <4>1
            <6> QED
              BY <6>1
          <5>2. k \in 1 .. Len(Waiting)
            BY <4>1, <5>1
          <5> QED
            BY <4>1, <5>2
        <4>3. PICK j \in k + 1 .. Len(Waiting) : Begins(Waiting[j])
          BY <2>5, <3>1, <4>2 DEF SubmitsAreOver
        <4>4. j \in k + 1 .. Len(W) /\ W[j] = Waiting[j]
          BY <4>1, <4>2, <4>3
        <4> QED
          BY <4>3, <4>4
      <3> QED
        BY <1>1, <2>1, <2>3, <2>5, <3>1, <3>2 DEF LineIsShown, Fold
    <2> QED
      BY <1>4, <2>2, <2>4, <2>5 DEF IndInv, SubmitsAreOver, LineIsShown
  <1> QED
    BY <1>2, <1>3, <1>4 DEF KeyOnLine

(* The next action is taken from the queue and given to its task: nothing  *)
(* of what waits is lost or overtaken.                                     *)
LEMMA StartKeepsLine ==
    ASSUME IndInv, StartAction
    PROVE  IndInv'
  <1>1. /\ Sequences /\ running = <<>> /\ queue # <<>>
        /\ running' = <<Head(queue)>> /\ queue' = Tail(queue)
        /\ UNCHANGED <<mode, line, compose, loop>>
    BY DEF IndInv, StartAction, engine, app
  <1>2. queue' \in Seq(Range(queue')) /\ queue = running' \o queue'
    BY <1>1, TailIsSequence DEF Sequences
  <1>3. running' \in Seq({Head(queue)}) /\ Len(running') <= 1
    BY <1>1
  <1>4. running' \in Seq(Range(running'))
    BY <1>3, SeqOfRange
  <1>5. Sequences'
    BY <1>1, <1>2, <1>3, <1>4 DEF Sequences, Range
  <1>6. running \o queue = queue
    BY <1>1 DEF Sequences
  <1>7. Waiting' = Waiting
    BY <1>2, <1>6 DEF Waiting
  <1> QED
    BY <1>1, <1>5, <1>7 DEF IndInv, SubmitsAreOver, LineIsShown

LEMMA TickKeepsLine ==
    ASSUME IndInv, StartTick
    PROVE  IndInv'
  <1>1. /\ Sequences /\ running = <<>> /\ queue = <<>>
        /\ running' = <<Tick>> /\ UNCHANGED <<queue, mode, line, compose, loop>>
    BY DEF IndInv, StartTick, engine, app
  <1>2. running' \in Seq({Tick}) /\ Len(running') <= 1
    BY <1>1
  <1>3. Sequences'
    BY <1>1, <1>2, SeqOfRange DEF Sequences, Range
  <1>4. Waiting = <<>> /\ Waiting' = <<Tick>>
    BY <1>1 DEF Waiting
  <1>5. Fold(compose, <<Tick>>) = Fold(compose, <<>>)
    <2>1. Echoed(compose, Tick) = compose
      BY DEF Echoed, Tick, LineModes, SearchModes
    <2> QED
      BY <2>1, FoldOne, FoldEmpty
  <1>6. SubmitsAreOver'
    BY <1>4 DEF SubmitsAreOver, Tick
  <1> QED
    BY <1>1, <1>3, <1>4, <1>5, <1>6 DEF IndInv, LineIsShown, Fold

(* What an action does to the compose line is what it was expected to do,  *)
(* except that a submit may leave it as it was.                            *)
LEMMA FinishEchoes ==
    ASSUME FinishAction
    PROVE  /\ running # <<>> /\ running' = <<>> /\ UNCHANGED <<queue, mode, line>>
           /\ loop' \in {loop, "failed"}
           /\ loop' = loop => \/ compose' = Echoed(compose, Head(running))
                              \/ Head(running).name = "submit"
  <1> USE DEF Is, Finishes, engine, LineModes, SearchModes, Echoed
  <1>1. CASE EnterMode
    BY <1>1 DEF EnterMode
  <1>2. CASE EditCompose
    BY <1>2 DEF EditCompose
  <1>3. CASE SubmitSearch
    BY <1>3 DEF SubmitSearch
  <1>4. CASE SubmitCommand
    BY <1>4 DEF SubmitCommand
  <1>5. CASE Open
    BY <1>5 DEF Open
  <1>6. CASE Back
    BY <1>6 DEF Back
  <1>7. CASE Quit
    BY <1>7 DEF Quit
  <1>8. CASE OtherAction
    BY <1>8 DEF OtherAction, app
  <1>9. CASE PollCompleted
    BY <1>9 DEF PollCompleted
  <1>10. CASE ActionFails
    BY <1>10 DEF ActionFails, app
  <1> QED
    BY <1>1, <1>2, <1>3, <1>4, <1>5, <1>6, <1>7, <1>8, <1>9, <1>10 DEF FinishAction

LEMMA FinishKeepsLine ==
    ASSUME IndInv, FinishAction
    PROVE  IndInv'
  <1>1. Sequences
    BY DEF IndInv
  <1> DEFINE action == Head(running)
  <1>2. /\ running # <<>> /\ running' = <<>> /\ UNCHANGED <<queue, mode, line>>
        /\ loop' \in {loop, "failed"}
        /\ loop' = loop => \/ compose' = Echoed(compose, action)
                           \/ action.name = "submit"
    BY FinishEchoes
  <1>3. /\ action \in Actions /\ queue \in Seq(Actions) /\ running = <<action>>
    <2>1. running \in Seq(Actions) /\ queue \in Seq(Actions) /\ Len(running) <= 1
      BY <1>1, WaitingIsSequence DEF Sequences
    <2> QED
      BY <1>2, <2>1, OneIsHead
  <1> HIDE DEF action
  <1>4. Waiting = <<action>> \o queue /\ Waiting' = queue
    <2>1. <<>> \o queue = queue
      BY <1>3
    <2> QED
      BY <1>2, <1>3, <2>1 DEF Waiting
  <1>5. Sequences'
    BY <1>1, <1>2 DEF Sequences, Range
  <1>6. /\ Len(Waiting) = Len(queue) + 1 /\ Len(queue) \in Nat
        /\ Waiting[1] = action
        /\ \A k \in 1 .. Len(queue) : Waiting[k + 1] = queue[k]
    BY <1>3, <1>4
  <1>7. ASSUME loop' = "on"
        PROVE  SubmitsAreOver' /\ LineIsShown'
    <2> SUFFICES ASSUME mode \in LineModes
                 PROVE  SubmitsAreOver' /\ Fold(compose', queue) = line
      BY <1>2, <1>4 DEF SubmitsAreOver, LineIsShown, Fold
    <2>1. loop = "on" /\ SubmitsAreOver /\ Fold(compose, Waiting) = line
      BY <1>2, <1>7 DEF IndInv, LineIsShown, Fold
    <2>2. SubmitsAreOver'
      <3> SUFFICES ASSUME NEW k \in 1 .. Len(queue), queue[k].name = "submit"
                   PROVE  \E j \in k + 1 .. Len(queue) : Begins(queue[j])
        BY <1>4 DEF SubmitsAreOver, Begins
      <3>1. k + 1 \in 1 .. Len(Waiting) /\ Waiting[k + 1].name = "submit"
        BY <1>6
      <3>2. PICK j \in k + 2 .. Len(Waiting) : Begins(Waiting[j])
        BY <2>1, <3>1 DEF SubmitsAreOver
      <3>3. j - 1 \in k + 1 .. Len(queue) /\ j - 1 \in 1 .. Len(queue) /\ (j - 1) + 1 = j
        BY <1>6, <3>2
      <3>4. Begins(queue[j - 1])
        BY <1>6, <3>2, <3>3
      <3> QED
        BY <3>3, <3>4
    <2>3. Fold(compose, Waiting) = Fold(Echoed(compose, action), queue)
      BY <1>3, <1>4, FoldHead
    <2>4. CASE compose' = Echoed(compose, action)
      BY <2>1, <2>2, <2>3, <2>4
    <2>5. CASE action.name = "submit"
      <3>1. PICK j \in 2 .. Len(Waiting) : Begins(Waiting[j])
        BY <1>6, <2>1, <2>5 DEF SubmitsAreOver
      <3>2. j - 1 \in 1 .. Len(queue) /\ (j - 1) + 1 = j
        BY <1>6, <3>1
      <3>3. queue[j - 1].name \in LineModes
        BY <1>6, <3>1, <3>2 DEF Begins
      <3>4. Fold(Echoed(compose, action), queue) = Fold(compose', queue)
        BY <1>3, <3>2, <3>3, FoldForgets
      <3> QED
        BY <2>1, <2>2, <2>3, <3>4
    <2> QED
      BY <1>2, <1>7, <2>1, <2>4, <2>5
  <1> QED
    BY <1>5, <1>7 DEF IndInv, LineIsShown

LEMMA InitInvariant == Init => IndInv
  <1> SUFFICES ASSUME Init  PROVE IndInv
    OBVIOUS
  <1>1. /\ running = <<>> /\ line = <<>> /\ mode = "normal"
        /\ \E S : queue \in Seq(S)
    <2>1. ASSUME NEW l, queue = <<Submitted(l, "command")>>
          PROVE  queue \in Seq({Submitted(l, "command")})
      BY <2>1
    <2>2. queue = <<>> => queue \in Seq({})
      OBVIOUS
    <2> QED
      BY <2>1, <2>2 DEF Init, EngineInit
  <1>2. queue \in Seq(Range(queue))
    BY <1>1, SeqOfRange
  <1>3. <<>> \in Seq({}) /\ <<>> \in Seq(Chars) /\ Len(<<>>) = 0
    OBVIOUS
  <1>4. running \in Seq(Range(running))
    BY <1>1, <1>3, SeqOfRange
  <1> QED
    BY <1>1, <1>2, <1>3, <1>4
    DEF IndInv, Sequences, SubmitsAreOver, LineIsShown, LineModes, SearchModes

LEMMA NextInvariant == IndInv /\ [Next]_vars => IndInv'
  <1> SUFFICES ASSUME IndInv, [Next]_vars  PROVE IndInv'
    OBVIOUS
  <1>1. CASE \E key \in Keys : Key(key)
    BY <1>1, KeyKeepsLine
  <1>2. CASE StartAction
    BY <1>2, StartKeepsLine
  <1>3. CASE StartTick
    BY <1>3, TickKeepsLine
  <1>4. CASE FinishAction
    BY <1>4, FinishKeepsLine
  <1>5. CASE EndLoop \/ InputFails \/ PostAnswers \/ UNCHANGED vars
    <2>1. /\ UNCHANGED <<mode, line, queue, running, compose>>
          /\ loop' \in {loop, "done", "failed"}
      BY <1>5 DEF EndLoop, InputFails, PostAnswers, vars, engine, app
    <2>2. Waiting' = Waiting
      BY <2>1 DEF Waiting
    <2> QED
      BY <2>1, <2>2 DEF IndInv, Sequences, SubmitsAreOver, LineIsShown, Range
  <1> QED
    BY <1>1, <1>2, <1>3, <1>4, <1>5 DEF Next

(* What the user sees in the line, once what waits has run, is what Enter  *)
(* will submit.                                                            *)
THEOREM LineIsAlwaysShown == Spec => []LineIsShown
  <1>1. IndInv => LineIsShown
    BY DEF IndInv
  <1> QED
    BY <1>1, InitInvariant, NextInvariant, PTL DEF Spec
=============================================================================
