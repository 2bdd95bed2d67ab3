-------------------------------- MODULE Reads --------------------------------
(***************************************************************************)
(* The reads of App on the screen: the commands that open, cover, refresh  *)
(* and close the modals over the feed (src/app/mod.rs, src/app/state.rs),  *)
(* each with what it does to the request pipeline (module Requests), and   *)
(* the arms of apply_api_result that put an answer into the view.          *)
(*                                                                         *)
(* Cached copies are there or not, as the user's history has it.  Flips,   *)
(* mutations other than the deletion of a post, and the downloads panel    *)
(* are left to other modules.                                              *)
(*                                                                         *)
(* A thread that comes off the screen comes off in one of two ways, which  *)
(* the properties tell apart: the user closes it, or the feed it belongs   *)
(* to goes away.  gone records the way for each post, until it is opened   *)
(* again.                                                                  *)
(***************************************************************************)
EXTENDS Requests, Vectors

CONSTANTS
    Posts,          \* posts the server knows
    Queries,        \* what a feed can be asked for: the home feed, searches
    home            \* the query of the home feed

MaxModals == 3

VARIABLES
    query,     \* view.feed_query
    posts,     \* the posts of the feed on the screen
    selected,  \* the selected post, or None
    modals,    \* the stack, bottom first
    loading,   \* view.loading
    feeding,   \* the generation of the feed refresh that has not answered, or None
    opening,   \* the post open_selected is in the middle of opening, or None
    staged,    \* the post whose deletion waits to be confirmed, or None
    gone       \* how the threads of a post last came off the screen

feed == <<query, posts, selected>>
viewVars == <<vars, feed, modals, loading, feeding, opening, staged, gone>>

-----------------------------------------------------------------------------
Feed == <<"feed">>
Communities == <<"communities">>
Post(p) == <<"post", p>>
Comments(p) == <<"comments", p>>
ReadsOf(p) == {Post(p), Comments(p)}

(* What App asks for, and what it gives up together.                       *)
AppIdentities == {Feed, Communities} \union UNION {ReadsOf(p) : p \in Posts}
AppGroups == {{Communities}} \union {ReadsOf(p) : p \in Posts}

ASSUME ViewConstants ==
    /\ Identities = AppIdentities
    /\ Groups = AppGroups
    /\ home \in Queries
    /\ None \notin Posts

(* filled and comments say what has landed in a thread, and in which feed  *)
(* it was opened; a picker is empty until its list lands or fails.         *)
Threads == [kind: {"thread"}, post: Posts, comments: Posts \union {None}, of: Queries]
Pickers == [kind: {"picker"}, list: {"empty", "filled", "failed"}]
Modals == Threads \union Pickers \union [kind: {"help"}]

Help == [kind |-> "help"]
Picker == [kind |-> "picker", list |-> "empty"]
Thread(p) == [kind |-> "thread", post |-> p, comments |-> None, of |-> query]

Top == IF modals = <<>> THEN None ELSE modals[Len(modals)]
TopIs(kind) == modals # <<>> /\ Top.kind = kind
Pop(stack) == SubSeq(stack, 1, Len(stack) - 1)
SetTop(stack, modal) == [stack EXCEPT ![Len(stack)] = modal]

(* push_modal evicts the oldest when the stack is full.                    *)
Push(stack, modal) == Append(IF Len(stack) >= MaxModals THEN Tail(stack) ELSE stack, modal)

IsThread(modal) == modal.kind = "thread"
IsThreadOf(modal, p) == IsThread(modal) /\ modal.post = p
Shows(stack, p) == \E k \in DOMAIN stack : IsThreadOf(stack[k], p)

Dismissed(stack) == Retained(stack, {modal \in Modals : ~ IsThread(modal)})
Without(stack, p) == Retained(stack, {modal \in Modals : ~ IsThreadOf(modal, p)})

(* The posts whose threads all come off when the stack becomes this one.   *)
Leaving(way, stack) ==
    [p \in Posts |-> IF Shows(modals, p) /\ ~ Shows(stack, p) THEN way ELSE gone[p]]

ViewInit ==
    /\ Init
    /\ query = home
    /\ posts = {}
    /\ selected = None
    /\ modals = <<>>
    /\ loading = FALSE
    /\ feeding = None
    /\ opening = None
    /\ staged = None
    /\ gone = [p \in Posts |-> "open"]

Idle == opening = None

-----------------------------------------------------------------------------
(* What an answer does to the view: the arms of apply_api_result.          *)

(* A post fills the thread on top, whatever post that thread is of, or is  *)
(* pushed as a thread of its own.                                          *)
LandPost(stack, p, ok) ==
    /\ loading' = FALSE
    /\ modals' = IF ~ ok \/ selected # p THEN stack
                 ELSE IF stack # <<>> /\ IsThread(stack[Len(stack)])
                 THEN SetTop(stack, [stack[Len(stack)] EXCEPT !.post = p])
                 ELSE Push(stack, Thread(p))

LandComments(p, ok) ==
    /\ loading' = FALSE
    /\ modals' = IF ok /\ TopIs("thread") /\ Top.post = p
                 THEN SetTop(modals, [Top EXCEPT !.comments = p]) ELSE modals

LandCommunities(stack, ok) ==
    /\ loading' = FALSE
    /\ modals' = IF stack # <<>> /\ stack[Len(stack)].kind = "picker"
                 THEN SetTop(stack, [kind |-> "picker", list |-> IF ok THEN "filled" ELSE "failed"])
                 ELSE stack

(* What each of the answers does, once it may land.                        *)
Applied(read, ok) ==
    \/ /\ read.identity = Communities
       /\ LandCommunities(modals, ok)
    \/ \E p \in Posts :
          \/ /\ read.identity = Post(p)
             /\ LandPost(modals, p, ok)
          \/ /\ read.identity = Comments(p)
             /\ LandComments(p, ok)

(* Mutant of Land: an answer lands in the view whatever became of it.      *)
LandUnguarded(read, ok) == Applied(read, ok)

Land(read, ok) ==
    IF Accepts(read) THEN Applied(read, ok) ELSE UNCHANGED <<modals, loading>>

PollAndApply ==
    /\ Idle
    /\ PollCompleted
    /\ \E ok \in BOOLEAN : Land(Head(completed), ok)
    /\ UNCHANGED <<feed, feeding, opening, staged, gone>>

(* The background refresh of the feed answers, and the Tick finds it.  The *)
(* selection stays on its post if the new page has it.                     *)
ShowFeed(page) ==
    /\ posts' = page
    /\ selected' \in IF selected \in page THEN {selected}
                     ELSE IF page = {} THEN {None} ELSE page

PollFeedRefresh ==
    /\ Idle
    /\ feeding # None
    /\ feeding' = None
    /\ IF requests[Feed] # feeding THEN UNCHANGED <<posts, selected, loading>>
       ELSE /\ loading' = FALSE
            /\ \/ \E page \in SUBSET Posts : ShowFeed(page)
               \/ UNCHANGED <<posts, selected>>
    /\ UNCHANGED <<vars, query, modals, opening, staged, gone>>

-----------------------------------------------------------------------------
(* The commands.                                                           *)

(* open_selected: the thread is pushed and the post asked for ...          *)
OpenSelected ==
    /\ Idle
    /\ modals = <<>> \/ TopIs("thread")
    /\ selected # None
    /\ next_generation + 1 < MaxGeneration   \* room for its two reads
    /\ LET p == selected
       IN  /\ BeginRead(Post(p))
           /\ opening' = p
           /\ gone' = [gone EXCEPT ![p] = "open"]
           /\ \/ LandPost(Push(modals, Thread(p)), p, TRUE)
              \/ modals' = Push(modals, Thread(p)) /\ loading' = TRUE
    /\ UNCHANGED <<feed, feeding, staged>>

(* ... and then its comments.                                              *)
OpenComments ==
    /\ opening # None
    /\ BeginRead(Comments(opening))
    /\ opening' = None
    /\ \/ LandComments(opening, TRUE)
       \/ loading' = TRUE /\ UNCHANGED modals
    /\ UNCHANGED <<feed, feeding, staged, gone>>

RefreshThread ==
    /\ Idle
    /\ TopIs("thread")
    /\ BeginRead(Comments(Top.post))
    /\ \/ LandComments(Top.post, TRUE)
       \/ UNCHANGED <<modals, loading>>
    /\ UNCHANGED <<feed, feeding, opening, staged, gone>>

AskCommunities(stack) ==
    /\ BeginRead(Communities)
    /\ \/ LandCommunities(stack, TRUE)
       \/ modals' = stack /\ loading' = TRUE
    /\ UNCHANGED <<feed, feeding, opening, staged, gone>>

ShowCommunities ==
    /\ Idle
    /\ ~ TopIs("picker")
    /\ AskCommunities(Push(modals, Picker))

(* The same key takes the picker away, and leaves its request alone.       *)
HideCommunities ==
    /\ Idle
    /\ TopIs("picker")
    /\ modals' = Pop(modals)
    /\ UNCHANGED <<vars, feed, loading, feeding, opening, staged, gone>>

(* r, and :sort, which changes the listing.                                *)
RefreshCommunities ==
    /\ Idle
    /\ TopIs("picker")
    /\ AskCommunities(modals)

ShowHelp ==
    /\ Idle
    /\ modals' = Push(IF TopIs("help") THEN Pop(modals) ELSE modals, Help)
    /\ UNCHANGED <<vars, feed, loading, feeding, opening, staged, gone>>

(* refresh_feed with a query: a cached page is shown at once, and a true   *)
(* miss shows that the feed is being loaded.                               *)
RefreshFeed(q, stack) ==
    /\ BeginInline(Feed)
    /\ query' = q
    /\ modals' = stack
    /\ feeding' = next_generation'
    /\ \/ (\E page \in SUBSET Posts : ShowFeed(page)) /\ loading' = FALSE
       \/ loading' = TRUE /\ UNCHANGED <<posts, selected>>
    /\ gone' = Leaving("dismissed", stack)
    /\ UNCHANGED <<opening, staged>>

Refresh == Idle /\ modals = <<>> /\ RefreshFeed(query, modals)

(* :feed, :search, :sort, :community: the threads go, their requests stay. *)
Navigate(q) == Idle /\ ~ TopIs("picker") /\ RefreshFeed(q, Dismissed(modals))

(* Enter in the picker.                                                    *)
OpenCommunity(q) ==
    /\ Idle
    /\ TopIs("picker") /\ Top.list = "filled"
    /\ RefreshFeed(q, Dismissed(Pop(modals)))

(* A line entered with / is submitted whatever is open.                    *)
SubmitSearch(q) == Idle /\ RefreshFeed(q, modals)

MoveSelection(p) ==
    /\ Idle
    /\ modals = <<>>
    /\ p \in posts
    /\ selected' = p
    /\ UNCHANGED <<vars, query, posts, modals, loading, feeding, opening, staged, gone>>

(* gg and G look for the picker only.                                      *)
GoToRow(p) ==
    /\ Idle
    /\ ~ TopIs("picker")
    /\ p \in posts
    /\ selected' = p
    /\ UNCHANGED <<vars, query, posts, modals, loading, feeding, opening, staged, gone>>

(* Mutant of ClosePane: the thread goes and its requests stay.             *)
ClosePaneOnly ==
    /\ Idle
    /\ modals # <<>>
    /\ UNCHANGED vars
    /\ modals' = Pop(modals)
    /\ gone' = Leaving("closed", Pop(modals))
    /\ UNCHANGED <<feed, loading, feeding, opening, staged>>

(* close_top_modal: the modal goes with its requests.                      *)
ClosePane ==
    /\ Idle
    /\ modals # <<>>
    /\ CASE TopIs("thread") -> Drop(ReadsOf(Top.post))
         [] TopIs("picker") -> Drop({Communities})
         [] TopIs("help") -> UNCHANGED vars
    /\ modals' = Pop(modals)
    /\ gone' = Leaving("closed", Pop(modals))
    /\ UNCHANGED <<feed, loading, feeding, opening, staged>>

(* Esc closes the modal, if there is one, and gives every read up.         *)
Back ==
    /\ Idle
    /\ Cancel
    /\ modals' = IF modals = <<>> THEN modals ELSE Pop(modals)
    /\ gone' = Leaving("closed", modals')
    /\ loading' = FALSE
    /\ staged' = None
    /\ UNCHANGED <<feed, feeding, opening>>

Stage ==
    /\ Idle
    /\ modals = <<>> \/ TopIs("thread")
    /\ selected # None
    /\ staged' = selected
    /\ UNCHANGED <<vars, feed, modals, loading, feeding, opening, gone>>

(* The deletion is confirmed by the user and by the server: the threads of *)
(* the post go, its tokens too, its handles stay.  The selection is a row, *)
(* and the post under it may be another one afterwards.                    *)
DeletePost ==
    /\ Idle
    /\ staged # None
    /\ Forget(ReadsOf(staged))
    /\ posts' = posts \ {staged}
    /\ selected' \in IF selected = None \/ posts' = {} THEN {None}
                     ELSE IF staged \notin posts THEN {selected} ELSE posts'
    /\ modals' = Without(modals, staged)
    /\ gone' = Leaving("closed", modals')
    /\ staged' = None
    /\ UNCHANGED <<query, loading, feeding, opening>>

(* Logout and profile switch: switch_context clears the view; a switch     *)
(* shows the cached home feed with no post selected.                       *)
SwitchContext(p) ==
    /\ Idle
    /\ ChangeContext(p)
    /\ posts' \in SUBSET Posts
    /\ selected' = None
    /\ query' = home
    /\ modals' = <<>>
    /\ loading' = FALSE
    /\ staged' = None
    /\ gone' = Leaving("closed", <<>>)
    /\ UNCHANGED <<feeding, opening>>

(* A login changes the session, and a login, logout or switch that fails   *)
(* changes nothing, but each has given up the reads by then.               *)
Login == ChangeContext(profile)

AccountCommand ==
    /\ Idle
    /\ Login \/ Cancel
    /\ UNCHANGED <<feed, modals, loading, feeding, opening, staged, gone>>

Command ==
    \/ OpenSelected \/ RefreshThread \/ ShowCommunities \/ HideCommunities \/ RefreshCommunities
    \/ ShowHelp \/ Refresh \/ ClosePane \/ Back \/ Stage \/ DeletePost \/ AccountCommand
    \/ \E q \in Queries : Navigate(q) \/ OpenCommunity(q) \/ SubmitSearch(q)
    \/ \E p \in Posts : MoveSelection(p) \/ GoToRow(p)
    \/ \E p \in Profiles : SwitchContext(p)

Detached ==
    /\ TaskStep
    /\ UNCHANGED <<feed, modals, loading, feeding, opening, staged, gone>>

ViewNext == Command \/ OpenComments \/ PollAndApply \/ PollFeedRefresh \/ Detached

ViewSpec == ViewInit /\ [][ViewNext]_viewVars

-----------------------------------------------------------------------------
ViewTypeOK ==
    /\ query \in Queries
    /\ posts \subseteq Posts
    /\ selected \in posts \union {None}
    /\ modals \in Seq(Modals) /\ Len(modals) <= MaxModals
    /\ loading \in BOOLEAN
    /\ feeding \in 1 .. next_generation \union {None}
    /\ opening \in Posts \union {None}
    /\ staged \in Posts \union {None}
    /\ gone \in [Posts -> {"open", "closed", "dismissed"}]

(* A thread the user closed stays closed until the user opens it again:    *)
(* answers that were on their way, or that a late abort did not reach, do  *)
(* not bring it back ("so a stale result can never land in a later thread  *)
(* for the same post", src/src/app/mod.rs:1193).                           *)
ClosedThreadsStayClosed ==
    \A p \in Posts : gone[p] = "closed" => ~ Shows(modals, p)

(* "A read load is in flight and no cached content has landed yet ... the  *)
(* flag clears when the load lands (or is cancelled)"                      *)
(* (src/src/app/state.rs:75): while it is set, an answer that may land is  *)
(* on its way.                                                             *)
LoadingMeansReading ==
    loading => \E i \in Identities :
                  /\ requests[i] # None
                  /\ Coming(i, requests[i]) \/ (i = Feed /\ feeding = requests[i])

(* "changing the feed must never leave the old thread visible"             *)
(* (src/src/app/state.rs:305).                                             *)
ThreadIsOfThisFeed ==
    \A k \in DOMAIN modals : IsThread(modals[k]) => modals[k].of = query

(* The same sentence of threads that navigation has taken off the screen:  *)
(* they do not come back by themselves.                                    *)
DismissedThreadsStayDismissed ==
    \A p \in Posts : gone[p] = "dismissed" => ~ Shows(modals, p)

(* The comments under a post are its own.                                  *)
CommentsAreOfThePost ==
    \A k \in DOMAIN modals :
        IsThread(modals[k]) => modals[k].comments \in {None, modals[k].post}

(* "The post result fills the thread modal: it replaces the placeholder    *)
(* pushed by `open_selected`" (src/src/app/mod.rs:2929): an answer opens   *)
(* nothing and touches nothing under the modal on top.                     *)
AnswersOnlyFill ==
    [][Len(completed') < Len(completed) =>
          /\ Len(modals') = Len(modals)
          /\ \A k \in 1 .. Len(modals) - 1 : modals'[k] = modals[k]]_viewVars

(* Feed-post actions run over a thread because "its post is what you are   *)
(* looking at" (src/src/app/mod.rs:1482): the thread in sight is the one   *)
(* of the selected post.                                                   *)
TopThreadIsSelected ==
    Idle /\ TopIs("thread") => Top.post = selected

(* A list is thrown away only when "the picker was closed while the fetch  *)
(* was in flight" (src/src/app/mod.rs:3108): an open picker gets it.       *)
OpenPickerGetsItsList ==
    [][(/\ Len(completed') < Len(completed)
        /\ Head(completed).identity = Communities
        /\ Accepts(Head(completed))
        /\ \E k \in DOMAIN modals : modals[k].kind = "picker")
          => \E k \in DOMAIN modals' :
                modals'[k].kind = "picker" /\ modals'[k].list # "empty"]_viewVars
=============================================================================
