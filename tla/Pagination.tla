----------------------------- MODULE Pagination -----------------------------
(***************************************************************************)
(* The pages of the feed (src/src/app/mod.rs): > and < replace the page    *)
(* on the screen, the cursors of the pages left behind are kept in a       *)
(* history, and a page comes twice: at once from the cache, if it is       *)
(* there, and later from the server.                                       *)
(*                                                                         *)
(* The feed has one request at a time that may land: module Requests       *)
(* proves that an answer that was superseded or given up never does.  So   *)
(* the only answer kept here is the one that is awaited.  A cursor is the  *)
(* number of the page it stands for; the first page, which has none in the *)
(* code, is page 0.                                                        *)
(***************************************************************************)
EXTENDS Naturals, Sequences

CONSTANTS
    Feeds,       \* the queries, their page aside
    home,        \* the query of the home feed
    LastPage,    \* the number of the last page of every feed
    CachedPages, \* the numbers of the pages the cache may have
    MaxHistory,  \* bound on the length of page_history
    None

ASSUME PagesAssumption ==
    /\ LastPage \in Nat
    /\ home \in Feeds
    /\ CachedPages \subseteq 0 .. LastPage
    /\ MaxHistory \in Nat
    /\ None \notin Nat

VARIABLES
    feed,          \* view.feed_query without its page
    page,          \* view.feed_query.page
    next_page,     \* view.next_page, or None
    page_history,  \* view.page_history
    shown,         \* the page whose posts are on the screen, or None
    awaited,       \* the request of the feed whose answer may land, or None
    before,        \* page and page_history when the last flip began
    orderly        \* in this context no flip was cut short, none failed after its
                   \* cached copy was shown, and feeds were left on their first page

vars == <<feed, page, next_page, page_history, shown, awaited, before, orderly>>

Cursors == 0 .. LastPage
Pages == [feed: Feeds, page: Cursors]

Flips == [kind: {"next", "previous"}, cursor: Cursors, previous: Cursors]
Refreshing == [kind |-> "refresh"]

ASSUME NoneIsNothing == None \notin Pages \union Flips \union {Refreshing}

WaitingFor(kind) == awaited # None /\ awaited.kind = kind
Waiting == WaitingFor("next") \/ WaitingFor("previous")

Init ==
    /\ feed = home
    /\ page = 0
    /\ next_page = None
    /\ page_history = <<>>
    /\ shown = None
    /\ awaited = None
    /\ before = [page |-> 0, page_history |-> <<>>]
    /\ orderly = TRUE

Behind(k) == [n \in 1 .. k |-> n - 1]
Last(history) == history[Len(history)]
Pop(history) == SubSeq(history, 1, Len(history) - 1)

(* apply_page, and the Feed arm of apply_api_result: the posts and the     *)
(* cursor of the page after them come together.                            *)
Show(f, cursor) ==
    /\ shown' = [feed |-> f, page |-> cursor]
    /\ next_page' = IF cursor < LastPage THEN cursor + 1 ELSE None

ShowCached(f, cursor) == cursor \in CachedPages /\ Show(f, cursor)

-----------------------------------------------------------------------------
(* A flip asks for a page; a cached copy is applied at once, as if it were *)
(* the answer.                                                             *)
Flip(kind, cursor, previous) ==
    /\ before' = [page |-> page, page_history |-> page_history]
    /\ orderly' = (orderly /\ ~ Waiting)
    /\ awaited' = [kind |-> kind, cursor |-> cursor, previous |-> previous]
    /\ \/ page' = cursor /\ ShowCached(feed, cursor)
       \/ UNCHANGED <<page, next_page, shown>>
    /\ UNCHANGED feed

(* Mutant of NextPage: the cursor of the page left behind is not kept.     *)
NextPageForgetful ==
    /\ next_page # None
    /\ Flip("next", next_page, page)
    /\ UNCHANGED page_history

NextPage ==
    /\ next_page # None
    /\ Len(page_history) < MaxHistory
    /\ page_history' = Append(page_history, page)
    /\ Flip("next", next_page, page)

PreviousPage ==
    /\ page_history # <<>>
    /\ page_history' = Pop(page_history)
    /\ Flip("previous", Last(page_history), Last(page_history))

(* refresh_feed, of the page that feed_query has.                          *)
Ask(f, cursor) ==
    /\ awaited' = Refreshing
    /\ feed' = f
    /\ page' = cursor
    /\ orderly' = (orderly /\ ~ Waiting /\ cursor = page)
    /\ UNCHANGED <<page_history, before>>

Refresh ==
    /\ Ask(feed, page)
    /\ ShowCached(feed, page) \/ UNCHANGED <<shown, next_page>>

(* Mutant of Turn: the cursor of the old feed's next page stays.           *)
TurnKeepingNext(f, cursor) ==
    /\ Ask(f, cursor)
    /\ ShowCached(f, cursor) \/ UNCHANGED <<shown, next_page>>

(* Another query: until it answers there is no next page, and the history  *)
(* stays as it is.                                                         *)
Turn(f, cursor) ==
    /\ Ask(f, cursor)
    /\ ShowCached(f, cursor) \/ (next_page' = None /\ UNCHANGED shown)

(* :feed, :subscribed, :search, :community and / start at the first page.  *)
ChangeFeed(f) == Turn(f, 0)

(* :sort keeps the page.                                                   *)
Sort(f) == Turn(f, page)

(* Esc with no modal open; a login, and an account command that fails.     *)
Cancel ==
    /\ awaited' = None
    /\ orderly' = (orderly /\ ~ Waiting)
    /\ UNCHANGED <<feed, page, next_page, page_history, shown, before>>

(* A logout or a switch of profile; a switch shows the cached home feed    *)
(* without the cursor of its next page.                                    *)
SwitchContext ==
    /\ awaited' = None
    /\ feed' = home
    /\ page' = 0
    /\ next_page' = None
    /\ page_history' = <<>>
    /\ shown' \in {None} \union [feed: {home}, page: CachedPages \intersect {0}]
    /\ before' = [page |-> 0, page_history |-> <<>>]
    /\ orderly' = TRUE

-----------------------------------------------------------------------------
(* The answers.                                                            *)
(* Mutant of FlipLands: the cursor moves, the posts stay.                  *)
FlipLandsUnshown ==
    /\ Waiting
    /\ page' = awaited.cursor
    /\ awaited' = None
    /\ UNCHANGED <<feed, next_page, page_history, shown, before, orderly>>

FlipLands ==
    /\ Waiting
    /\ page' = awaited.cursor
    /\ Show(feed, awaited.cursor)
    /\ awaited' = None
    /\ UNCHANGED <<feed, page_history, before, orderly>>

NextFails ==
    /\ WaitingFor("next")
    /\ page_history' = Pop(page_history)
    /\ page' = awaited.previous
    /\ orderly' = (orderly /\ page # awaited.cursor)
    /\ awaited' = None
    /\ UNCHANGED <<feed, next_page, shown, before>>

PreviousFails ==
    /\ WaitingFor("previous")
    /\ page_history' = Append(page_history, awaited.previous)
    /\ orderly' = (orderly /\ page # awaited.cursor)
    /\ awaited' = None
    /\ UNCHANGED <<feed, page, next_page, shown, before>>

RefreshLands ==
    /\ awaited = Refreshing
    /\ Show(feed, page)
    /\ awaited' = None
    /\ UNCHANGED <<feed, page, page_history, before, orderly>>

RefreshFails ==
    /\ awaited = Refreshing
    /\ awaited' = None
    /\ UNCHANGED <<feed, page, next_page, page_history, shown, before, orderly>>

Answer == FlipLands \/ NextFails \/ PreviousFails \/ RefreshLands \/ RefreshFails

FlipCommand == NextPage \/ PreviousPage

OtherCommand ==
    \/ Refresh \/ Cancel \/ SwitchContext
    \/ \E f \in Feeds : ChangeFeed(f) \/ Sort(f)

Next == FlipCommand \/ OtherCommand \/ Answer

Spec == Init /\ [][Next]_vars

-----------------------------------------------------------------------------
TypeOK ==
    /\ feed \in Feeds
    /\ page \in Cursors
    /\ next_page \in Cursors \union {None}
    /\ page_history \in Seq(Cursors) /\ Len(page_history) <= MaxHistory
    /\ shown \in Pages \union {None}
    /\ awaited \in Flips \union {Refreshing, None}
    /\ before \in [page: Cursors, page_history: Seq(Cursors)]
    /\ orderly \in BOOLEAN

(* "the previous feed's `next_page` is stale and must not be reused"       *)
(* (src/src/app/mod.rs:1448): the cursor of the next page continues the    *)
(* page in sight, and that page is of the current feed.                    *)
NextContinuesShown ==
    next_page # None => /\ shown # None
                        /\ shown.feed = feed
                        /\ next_page = shown.page + 1

(* "The failed flip never happened: restore the cursor and history state   *)
(* from before the flip" (src/src/app/mod.rs:2902).  It does not hold of a *)
(* < whose page was painted from the cache.                                *)
Restored == [page |-> page', page_history |-> page_history'] = before

FailedPreviousRestores == [][PreviousFails => Restored]_vars

(* "Cursors of the pages behind the current one, oldest first"             *)
(* (src/src/app/state.rs:80), as long as the user is orderly and whatever  *)
(* fails.  A change of feed on a later page, a flip cut short by another   *)
(* command, and a flip that fails after its cached copy was shown each     *)
(* break it.                                                               *)
HistoryIsThePath == orderly /\ ~ Waiting => page_history = Behind(page)

(* The page of the feed in sight is then the one feed_query is at.         *)
CursorShowsThePage ==
    orderly /\ awaited = None /\ shown # None /\ shown.feed = feed => shown.page = page
=============================================================================
