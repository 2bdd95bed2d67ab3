-------------------------- MODULE PaginationProofs --------------------------
(***************************************************************************)
(* Proofs about the pages of the feed, for any feeds, numbers of pages and *)
(* cached copies: the cursor of the next page continues the page in sight, *)
(* and for an orderly user the history is the way back.  The inductive     *)
(* invariant says what a flip on its way remembers of the page it left,    *)
(* which is what its failure puts back.                                    *)
(***************************************************************************)
EXTENDS Pagination, SequenceTheorems, TLAPS

ShownIsAtPage == orderly /\ shown # None => shown.page = page

FlipRemembers ==
    Waiting =>
        /\ page \in {awaited.cursor, before.page}
        /\ awaited.kind = "next" =>
              /\ awaited.previous = before.page
              /\ page_history = Append(before.page_history, before.page)
        /\ awaited.kind = "previous" =>
              /\ awaited.previous = awaited.cursor
              /\ Len(page_history) < MaxHistory
              /\ before.page_history = Append(page_history, awaited.previous)

FlipLeavesThePath ==
    orderly /\ Waiting =>
        /\ before.page_history = Behind(before.page)
        /\ awaited.kind = "next" => awaited.cursor = before.page + 1
        /\ awaited.kind = "previous" => before.page = awaited.cursor + 1

IndInv ==
    /\ TypeOK
    /\ NextContinuesShown
    /\ ShownIsAtPage
    /\ FlipRemembers
    /\ HistoryIsThePath
    /\ FlipLeavesThePath

-----------------------------------------------------------------------------
(* What is put on a history comes off it again.                            *)
LEMMA PushPop ==
    ASSUME NEW h \in Seq(Cursors), NEW c \in Cursors
    PROVE  /\ Append(h, c) \in Seq(Cursors)
           /\ Len(Append(h, c)) = Len(h) + 1
           /\ Last(Append(h, c)) = c
           /\ Pop(Append(h, c)) = h
  BY DEF Last, Pop

(* And what is taken off can be put back.                                  *)
LEMMA PopPush ==
    ASSUME NEW h \in Seq(Cursors), h # <<>>
    PROVE  /\ Pop(h) \in Seq(Cursors)
           /\ Len(Pop(h)) = Len(h) - 1
           /\ Last(h) \in Cursors
           /\ Append(Pop(h), Last(h)) = h
  <1>1. Len(h) \in Nat \ {0} /\ Last(h) \in Cursors
    BY DEF Last
  <1>2. Pop(h) \in Seq(Cursors) /\ Len(Pop(h)) = Len(h) - 1
    BY <1>1, SubSeqProperties DEF Pop
  <1>3. \A n \in 1 .. Len(h) - 1 : Pop(h)[n] = h[n]
    BY <1>1 DEF Pop
  <1>4. Append(Pop(h), Last(h)) = h
    BY <1>1, <1>2, <1>3 DEF Last
  <1> QED
    BY <1>1, <1>2, <1>4

(* The way back grows by the page that is left.                            *)
LEMMA BehindGrows ==
    ASSUME NEW k \in Nat
    PROVE  /\ Append(Behind(k), k) = Behind(k + 1)
           /\ Len(Behind(k)) = k
           /\ Behind(k + 1) # <<>>
           /\ Last(Behind(k + 1)) = k
           /\ Pop(Behind(k + 1)) = Behind(k)
  <1>1. Behind(k) \in Seq(Nat) /\ Len(Behind(k)) = k
    BY DEF Behind
  <1>2. Behind(k + 1) \in Seq(Nat) /\ Len(Behind(k + 1)) = k + 1
    BY DEF Behind
  <1>3. Append(Behind(k), k) = Behind(k + 1)
    BY <1>1, <1>2 DEF Behind
  <1>4. Pop(Behind(k + 1)) = Behind(k)
    BY <1>1, <1>2 DEF Behind, Pop
  <1>5. Last(Behind(k + 1)) = k
    BY <1>2 DEF Behind, Last
  <1> QED
    BY <1>1, <1>2, <1>3, <1>4, <1>5

(* The posts and the cursor that Show puts in the view.                    *)
LEMMA Shows ==
    ASSUME NEW f \in Feeds, NEW cursor \in Cursors, Show(f, cursor)
    PROVE  /\ shown' = [feed |-> f, page |-> cursor]
           /\ shown' \in Pages /\ shown' # None
           /\ next_page' \in Cursors \union {None}
           /\ next_page' # None => next_page' = cursor + 1
  <1>1. shown' = [feed |-> f, page |-> cursor] /\ shown' \in Pages
    BY DEF Show, Pages
  <1>2. next_page' = IF cursor < LastPage THEN cursor + 1 ELSE None
    BY DEF Show
  <1> QED
    BY <1>1, <1>2, PagesAssumption, NoneIsNothing DEF Cursors
-----------------------------------------------------------------------------
LEMMA InitInvariant == Init => IndInv
  <1>1. Behind(0) = <<>>
    BY DEF Behind
  <1> QED
    BY <1>1, PagesAssumption, NoneIsNothing
    DEF Init, IndInv, TypeOK, NextContinuesShown, ShownIsAtPage, FlipRemembers,
        HistoryIsThePath, FlipLeavesThePath, Waiting, WaitingFor, Cursors

(* A flip remembers the page it leaves; only one that begins when no other *)
(* is on its way keeps the user on the path.                               *)
LEMMA FlipInvariant ==
    ASSUME IndInv,
           NEW kind \in {"next", "previous"}, NEW cursor \in Cursors, NEW previous \in Cursors,
           Flip(kind, cursor, previous),
           page_history' \in Seq(Cursors), Len(page_history') <= MaxHistory,
           kind = "next" => /\ previous = page
                            /\ page_history' = Append(page_history, page)
                            /\ orderly /\ ~ Waiting => cursor = page + 1,
           kind = "previous" => /\ previous = cursor
                                /\ Len(page_history') < MaxHistory
                                /\ page_history = Append(page_history', previous)
                                /\ orderly /\ ~ Waiting => page = cursor + 1
    PROVE  IndInv'
  <1> DEFINE flip == [kind |-> kind, cursor |-> cursor, previous |-> previous]
  <1>1. /\ before' = [page |-> page, page_history |-> page_history]
        /\ orderly' = (orderly /\ ~ Waiting)
        /\ awaited' = flip /\ flip \in Flips
        /\ feed' = feed
    BY DEF Flip, Flips
  <1>2. awaited' # None /\ awaited'.kind = kind /\ awaited'.cursor = cursor
        /\ awaited'.previous = previous
    BY <1>1, NoneIsNothing
  <1>3. Waiting'
    BY <1>2 DEF Waiting, WaitingFor
  <1>4. \/ page' = cursor /\ Show(feed, cursor)
        \/ UNCHANGED <<page, next_page, shown>>
    BY DEF Flip, ShowCached
  <1>5. page' \in Cursors /\ next_page' \in Cursors \union {None} /\ shown' \in Pages \union {None}
    BY <1>4, Shows DEF IndInv, TypeOK
  <1>6. TypeOK'
    BY <1>1, <1>5 DEF IndInv, TypeOK
  <1>7. NextContinuesShown'
    BY <1>1, <1>4, Shows DEF IndInv, TypeOK, NextContinuesShown
  <1>8. ShownIsAtPage'
    BY <1>1, <1>4, Shows DEF IndInv, TypeOK, ShownIsAtPage
  <1>9. page' \in {cursor, page}
    BY <1>4
  <1>10. FlipRemembers'
    BY <1>1, <1>2, <1>9 DEF FlipRemembers
  <1>11. HistoryIsThePath'
    BY <1>3 DEF HistoryIsThePath
  <1>12. FlipLeavesThePath'
    BY <1>1, <1>2 DEF FlipLeavesThePath, IndInv, HistoryIsThePath
  <1> QED
    BY <1>6, <1>7, <1>8, <1>10, <1>11, <1>12 DEF IndInv

(* Asking for another query, or for the same again, cuts a flip short.     *)
LEMMA AskInvariant ==
    ASSUME IndInv, NEW f \in Feeds, NEW cursor \in Cursors, Ask(f, cursor),
           \/ Show(f, cursor)
           \/ UNCHANGED shown /\ (next_page' = None \/ (UNCHANGED next_page /\ f = feed))
    PROVE  IndInv'
  <1>1. /\ awaited' = Refreshing /\ feed' = f /\ page' = cursor
        /\ orderly' = (orderly /\ ~ Waiting /\ cursor = page)
        /\ UNCHANGED <<page_history, before>>
    BY DEF Ask
  <1>2. ~ Waiting'
    BY <1>1 DEF Waiting, WaitingFor, Refreshing
  <1>3. next_page' \in Cursors \union {None} /\ shown' \in Pages \union {None}
    BY Shows DEF IndInv, TypeOK
  <1>4. TypeOK'
    BY <1>1, <1>3 DEF IndInv, TypeOK
  <1>5. NextContinuesShown'
    BY <1>1, Shows DEF IndInv, TypeOK, NextContinuesShown
  <1>6. ShownIsAtPage'
    <2>1. CASE Show(f, cursor)
      BY <1>1, <2>1, Shows DEF ShownIsAtPage
    <2>2. CASE UNCHANGED shown
      BY <1>1, <2>2 DEF IndInv, ShownIsAtPage
    <2> QED
      BY <2>1, <2>2
  <1>7. HistoryIsThePath'
    BY <1>1 DEF IndInv, HistoryIsThePath
  <1> QED
    BY <1>2, <1>4, <1>5, <1>6, <1>7 DEF IndInv, FlipRemembers, FlipLeavesThePath

(* Nothing awaited: what is left to show of an end of a wait.              *)
LEMMA SettledInvariant ==
    ASSUME TypeOK', NextContinuesShown', ShownIsAtPage', awaited' = None,
           orderly' => page_history' = Behind(page)'
    PROVE  IndInv'
  <1>1. ~ Waiting'
    BY DEF Waiting, WaitingFor
  <1> QED
    BY <1>1 DEF IndInv, FlipRemembers, FlipLeavesThePath, HistoryIsThePath

LEMMA FlipAnswered ==
    ASSUME IndInv, Waiting
    PROVE  /\ awaited \in Flips
           /\ awaited.cursor \in Cursors /\ awaited.previous \in Cursors
           /\ before.page \in Cursors /\ before.page_history \in Seq(Cursors)
           /\ page_history \in Seq(Cursors)
  BY DEF IndInv, TypeOK, Waiting, WaitingFor, Flips, Refreshing

LEMMA NextInvariant == IndInv /\ [Next]_vars => IndInv'
  <1> SUFFICES ASSUME IndInv, [Next]_vars PROVE IndInv'
    OBVIOUS
  <1>t. /\ feed \in Feeds /\ page \in Cursors /\ next_page \in Cursors \union {None}
        /\ page_history \in Seq(Cursors) /\ Len(page_history) <= MaxHistory
        /\ Len(page_history) \in Nat
    BY DEF IndInv, TypeOK
  <1>1. CASE NextPage
    <2>1. /\ next_page \in Cursors /\ next_page = shown.page + 1 /\ shown # None
          /\ Len(page_history) < MaxHistory
          /\ page_history' = Append(page_history, page)
          /\ Flip("next", next_page, page)
      BY <1>1, <1>t DEF NextPage, IndInv, NextContinuesShown
    <2>2. orderly => next_page = page + 1
      BY <2>1 DEF IndInv, ShownIsAtPage
    <2>3. page_history' \in Seq(Cursors) /\ Len(page_history') <= MaxHistory
      BY <1>t, <2>1, PushPop, PagesAssumption
    <2> QED
      BY <1>t, <2>1, <2>2, <2>3, FlipInvariant
  <1>2. CASE PreviousPage
    <2> DEFINE c == Last(page_history)
    <2>1. /\ page_history # <<>> /\ page_history' = Pop(page_history)
          /\ Flip("previous", c, c)
      BY <1>2 DEF PreviousPage
    <2>2. /\ page_history' \in Seq(Cursors) /\ Len(page_history') < MaxHistory
          /\ Len(page_history') <= MaxHistory
          /\ c \in Cursors /\ page_history = Append(page_history', c)
      BY <1>t, <2>1, PopPush, PagesAssumption
    <2>3. orderly /\ ~ Waiting => page = c + 1
      <3> SUFFICES ASSUME orderly, ~ Waiting PROVE page = c + 1
        OBVIOUS
      <3>1. page_history = Behind(page)
        BY DEF IndInv, HistoryIsThePath
      <3>2. page # 0
        BY <2>1, <3>1 DEF Behind
      <3>3. page - 1 \in Nat /\ page = (page - 1) + 1
        BY <1>t, <3>2 DEF Cursors
      <3> QED
        BY <3>1, <3>3, BehindGrows
    <2> HIDE DEF c
    <2> QED
      BY <2>1, <2>2, <2>3, FlipInvariant
  <1>3. CASE Refresh
    BY <1>3, <1>t, AskInvariant DEF Refresh, ShowCached
  <1>4. ASSUME NEW f \in Feeds, ChangeFeed(f) PROVE IndInv'
    <2>1. 0 \in Cursors
      BY PagesAssumption DEF Cursors
    <2> QED
      BY <1>4, <2>1, AskInvariant DEF ChangeFeed, Turn, ShowCached
  <1>5. ASSUME NEW f \in Feeds, Sort(f) PROVE IndInv'
    BY <1>5, <1>t, AskInvariant DEF Sort, Turn, ShowCached
  <1>6. CASE Cancel
    BY <1>6, SettledInvariant
    DEF Cancel, IndInv, TypeOK, NextContinuesShown, ShownIsAtPage, HistoryIsThePath, Behind
  <1>7. CASE SwitchContext
    <2>1. 0 \in Cursors /\ home \in Feeds
      BY PagesAssumption DEF Cursors
    <2>2. /\ awaited' = None /\ feed' = home /\ page' = 0 /\ next_page' = None
          /\ page_history' = <<>> /\ before' = [page |-> 0, page_history |-> <<>>]
          /\ shown' \in {None} \union [feed: {home}, page: CachedPages \intersect {0}]
          /\ orderly' = TRUE
      BY <1>7 DEF SwitchContext
    <2>3. TypeOK'
      BY <2>1, <2>2, PagesAssumption DEF TypeOK, Pages
    <2>4. NextContinuesShown' /\ ShownIsAtPage'
      BY <2>2 DEF NextContinuesShown, ShownIsAtPage
    <2>5. page_history' = Behind(page)'
      BY <2>2 DEF Behind
    <2> QED
      BY <2>2, <2>3, <2>4, <2>5, SettledInvariant
  <1>8. CASE FlipLands
    <2>1. /\ Waiting /\ page' = awaited.cursor /\ Show(feed, awaited.cursor)
          /\ awaited' = None /\ UNCHANGED <<feed, page_history, before, orderly>>
      BY <1>8 DEF FlipLands
    <2>2. TypeOK'
      BY <1>t, <2>1, FlipAnswered, Shows DEF IndInv, TypeOK
    <2>3. NextContinuesShown' /\ ShownIsAtPage'
      BY <1>t, <2>1, FlipAnswered, Shows DEF NextContinuesShown, ShownIsAtPage
    <2>4. orderly => page_history = Behind(awaited.cursor)
      <3> SUFFICES ASSUME orderly PROVE page_history = Behind(awaited.cursor)
        OBVIOUS
      <3>1. before.page_history = Behind(before.page)
        BY <2>1 DEF IndInv, FlipLeavesThePath
      <3>2. CASE awaited.kind = "next"
        <4>1. before.page \in Nat
          BY <2>1, FlipAnswered DEF Cursors
        <4>2. page_history = Append(before.page_history, before.page)
          BY <2>1, <3>2 DEF IndInv, FlipRemembers
        <4>3. awaited.cursor = before.page + 1
          BY <2>1, <3>2 DEF IndInv, FlipLeavesThePath
        <4> QED
          BY <3>1, <4>1, <4>2, <4>3, BehindGrows
      <3>3. CASE awaited.kind = "previous"
        <4>1. /\ before.page = awaited.cursor + 1
              /\ Append(page_history, awaited.cursor) = Behind(awaited.cursor + 1)
          BY <2>1, <3>1, <3>3 DEF IndInv, FlipRemembers, FlipLeavesThePath
        <4>2. page_history = Pop(Behind(awaited.cursor + 1))
          BY <2>1, <4>1, FlipAnswered, PushPop
        <4>3. awaited.cursor \in Nat
          BY <2>1, FlipAnswered DEF Cursors
        <4> QED
          BY <4>2, <4>3, BehindGrows
      <3> QED
        BY <2>1, <3>2, <3>3 DEF Waiting, WaitingFor
    <2>5. orderly' => page_history' = Behind(page)'
      BY <2>1, <2>4 DEF Behind
    <2> QED
      BY <2>1, <2>2, <2>3, <2>5, SettledInvariant
  <1>9. CASE NextFails
    <2>1. /\ Waiting /\ awaited.kind = "next" /\ page' = awaited.previous
          /\ page_history' = Pop(page_history)
          /\ orderly' = (orderly /\ page # awaited.cursor)
          /\ awaited' = None /\ UNCHANGED <<feed, next_page, shown, before>>
      BY <1>9 DEF NextFails, Waiting, WaitingFor
    <2>2. /\ page_history' = before.page_history /\ page' = before.page
          /\ Len(page_history') <= MaxHistory
      <3> DEFINE h == before.page_history
      <3>1. h \in Seq(Cursors) /\ before.page \in Cursors
        BY <2>1, FlipAnswered
      <3>2. page_history = Append(h, before.page) /\ awaited.previous = before.page
        BY <2>1 DEF IndInv, FlipRemembers
      <3>3. Pop(page_history) = h /\ Len(page_history) = Len(h) + 1 /\ Len(h) \in Nat
        BY <3>1, <3>2, PushPop
      <3> QED
        BY <1>t, <2>1, <3>2, <3>3, PagesAssumption
    <2>3. orderly' => page = before.page
      BY <2>1 DEF IndInv, FlipRemembers
    <2>4. TypeOK'
      BY <2>1, <2>2, FlipAnswered DEF IndInv, TypeOK
    <2>5. NextContinuesShown' /\ ShownIsAtPage'
      BY <2>1, <2>2, <2>3 DEF IndInv, NextContinuesShown, ShownIsAtPage
    <2>6. orderly' => page_history' = Behind(page)'
      BY <2>1, <2>2 DEF IndInv, FlipLeavesThePath, Behind
    <2> QED
      BY <2>1, <2>4, <2>5, <2>6, SettledInvariant
  <1>10. CASE PreviousFails
    <2>1. /\ Waiting /\ awaited.kind = "previous"
          /\ page_history' = Append(page_history, awaited.previous)
          /\ orderly' = (orderly /\ page # awaited.cursor)
          /\ awaited' = None /\ UNCHANGED <<feed, page, next_page, shown, before>>
      BY <1>10 DEF PreviousFails, Waiting, WaitingFor
    <2>2. /\ page_history' = before.page_history
          /\ page_history' \in Seq(Cursors)
          /\ Len(page_history') <= MaxHistory
      BY <1>t, <2>1, FlipAnswered, PushPop, PagesAssumption DEF IndInv, FlipRemembers
    <2>3. orderly' => page = before.page
      BY <2>1 DEF IndInv, FlipRemembers
    <2>4. TypeOK'
      BY <2>1, <2>2 DEF IndInv, TypeOK
    <2>5. NextContinuesShown' /\ ShownIsAtPage'
      BY <2>1 DEF IndInv, NextContinuesShown, ShownIsAtPage
    <2>6. orderly' => page_history' = Behind(page)'
      BY <2>1, <2>2, <2>3 DEF IndInv, FlipLeavesThePath, Behind
    <2> QED
      BY <2>1, <2>4, <2>5, <2>6, SettledInvariant
  <1>11. CASE RefreshLands
    <2>1. /\ awaited = Refreshing /\ Show(feed, page) /\ awaited' = None
          /\ UNCHANGED <<feed, page, page_history, before, orderly>>
      BY <1>11 DEF RefreshLands
    <2>2. ~ Waiting
      BY <2>1 DEF Waiting, WaitingFor, Refreshing
    <2>3. TypeOK'
      BY <1>t, <2>1, Shows DEF IndInv, TypeOK
    <2>4. NextContinuesShown' /\ ShownIsAtPage'
      BY <1>t, <2>1, Shows DEF NextContinuesShown, ShownIsAtPage
    <2>5. orderly' => page_history' = Behind(page)'
      BY <2>1, <2>2 DEF IndInv, HistoryIsThePath, Behind
    <2> QED
      BY <2>1, <2>3, <2>4, <2>5, SettledInvariant
  <1>12. CASE RefreshFails
    <2>1. /\ awaited = Refreshing /\ awaited' = None
          /\ UNCHANGED <<feed, page, next_page, page_history, shown, before, orderly>>
      BY <1>12 DEF RefreshFails
    <2>2. ~ Waiting
      BY <2>1 DEF Waiting, WaitingFor, Refreshing
    <2>3. TypeOK' /\ NextContinuesShown' /\ ShownIsAtPage'
      BY <2>1 DEF IndInv, TypeOK, NextContinuesShown, ShownIsAtPage
    <2>4. orderly' => page_history' = Behind(page)'
      BY <2>1, <2>2 DEF IndInv, HistoryIsThePath, Behind
    <2> QED
      BY <2>1, <2>3, <2>4, SettledInvariant
  <1>13. CASE UNCHANGED vars
    BY <1>13
    DEF vars, IndInv, TypeOK, NextContinuesShown, ShownIsAtPage, FlipRemembers,
        HistoryIsThePath, FlipLeavesThePath, Waiting, WaitingFor, Behind
  <1> QED
    BY <1>1, <1>2, <1>3, <1>4, <1>5, <1>6, <1>7, <1>8, <1>9, <1>10, <1>11, <1>12, <1>13
    DEF Next, FlipCommand, OtherCommand, Answer

-----------------------------------------------------------------------------
THEOREM Invariance == Spec => []IndInv
  BY InitInvariant, NextInvariant, PTL DEF Spec

(* The cursors stay on the pages the feeds have, and the history within    *)
(* its bound, also when a failed flip puts its page back.                  *)
THEOREM TypeCorrect == Spec => []TypeOK
  <1>1. IndInv => TypeOK
    BY DEF IndInv
  <1> QED
    BY <1>1, Invariance, PTL

(* The next page continues the page in sight, and never that of another    *)
(* feed (next_page, submit_line and refresh_feed in src/src/app/mod.rs).   *)
THEOREM NextAlwaysContinues == Spec => []NextContinuesShown
  <1>1. IndInv => NextContinuesShown
    BY DEF IndInv
  <1> QED
    BY <1>1, Invariance, PTL

(* For an orderly user the history is the way back, whatever fails: the    *)
(* answers of apply_api_result put back what next_page and previous_page   *)
(* took.                                                                   *)
THEOREM HistoryAlwaysLeadsBack == Spec => []HistoryIsThePath
  <1>1. IndInv => HistoryIsThePath
    BY DEF IndInv
  <1> QED
    BY <1>1, Invariance, PTL

(* And feed_query is at the page whose posts are on the screen.            *)
THEOREM CursorAlwaysShows == Spec => []CursorShowsThePage
  <1>1. IndInv => CursorShowsThePage
    BY DEF IndInv, ShownIsAtPage, CursorShowsThePage
  <1> QED
    BY <1>1, Invariance, PTL
=============================================================================
