------------------------------ MODULE ThreadView ------------------------------
(***************************************************************************)
(* The open thread (Modal::Thread): its comments as they land and change,  *)
(* the folds, the cursor and the scroll offset, as the keys and the        *)
(* answers move them (src/app/mod.rs).  A comment keeps its parent; which  *)
(* comments the server sends, and in what order, is arbitrary.             *)
(*                                                                         *)
(* The text of a comment is two numbers: the lines the App estimates it at *)
(* and the rows the terminal draws of it, which wraps by words and knows   *)
(* no newlines inside a text.  The width is fixed.                         *)
(***************************************************************************)
EXTENDS CommentTree

CONSTANTS
    Ids,            \* comment ids
    Forests,        \* the parents the paths may give
    Lines,          \* the lines of each comment's text, as the App counts them
    HeaderLines,    \* the lines before the first comment, as the App counts them
    Drawn,          \* the rows drawn of each comment after its header's first
    HeaderDrawn,    \* the rows drawn before the first comment
    HeaderEntries,  \* the renderer's lines, before wrapping, for those rows
    Heights,        \* the heights of the viewport
    Step,           \* DETAIL_SCROLL_STEP
    MaxCount,       \* bound on a motion's count
    MaxScroll       \* bound on the scroll offset

ASSUME ThreadConstants ==
    /\ NoComment \notin Ids
    /\ IsFiniteSet(Ids)
    /\ Forests \subseteq [Ids -> Ids \union {NoComment}]
    /\ \A forest \in Forests, S \in SUBSET Ids : S # {} => \E c \in S : forest[c] \notin S
    /\ Lines \in [Ids -> Nat] /\ HeaderLines \in Nat
    /\ Drawn \in [Ids -> Nat \ {0}] /\ HeaderDrawn \in Nat /\ HeaderEntries \in Nat
    /\ Heights \subseteq Nat \ {0}
    /\ Step \in Nat /\ MaxCount \in Nat /\ MaxScroll \in Nat

VARIABLES
    parents,    \* what the paths say; never changes
    defaulted,  \* default_collapsed_threads
    comments,   \* thread.post.comments, by id
    focused,    \* thread.selected
    collapsed,  \* thread.collapsed
    scroll,     \* thread.scroll
    height      \* of the thread's viewport

thread == <<comments, focused, collapsed, scroll>>
threadVars == <<parents, defaulted, thread, height>>

Lists == UNION {SetToSeqs(S) : S \in SUBSET Ids}

ThreadInit ==
    /\ parents \in Forests
    /\ defaulted \in BOOLEAN
    /\ comments = <<>>
    /\ focused = NoComment
    /\ collapsed = {}
    /\ scroll = 0
    /\ height \in Heights

-----------------------------------------------------------------------------
(* keep_thread_cursor_visible.                                             *)

Shown(folds) == Visible(comments, parents, folds)

(* Where the header of a visible row is when the rows above it take so     *)
(* many lines: a blank line is above it.                                   *)
HeaderAt(visible, at, before, lines) ==
    LET row[i \in 1 .. at] ==
            IF i = 1 THEN before + 1 ELSE row[i - 1] + 2 + lines[visible[i - 1].id]
    IN  row[at]

(* visible_row_start and thread_header_lines: what the App takes it to be. *)
HeaderOf(visible, at) == HeaderAt(visible, at, HeaderLines, Lines)

Position(visible, id) == {i \in DOMAIN visible : visible[i].id = id}

(* Mutant of Anchored: the last line of the viewport is forgotten.         *)
AnchoredOneOff(visible, id) ==
    IF Position(visible, id) = {} THEN scroll
    ELSE LET header == HeaderOf(visible, CHOOSE i \in Position(visible, id) : TRUE)
         IN  CASE header < scroll -> header
               [] header > scroll + height -> header + 1 - height
               [] OTHER -> scroll

Anchored(visible, id) ==
    IF Position(visible, id) = {} THEN scroll
    ELSE LET header == HeaderOf(visible, CHOOSE i \in Position(visible, id) : TRUE)
         IN  CASE header < scroll -> header
               [] header >= scroll + height ->
                     IF header + 1 > height THEN header + 1 - height ELSE 0
               [] OTHER -> scroll

-----------------------------------------------------------------------------
(* render_thread: the paragraph is wrapped after its offset was held to    *)
(* the number of its lines before wrapping, three for each comment.        *)

DrawnAt(visible, at) == HeaderAt(visible, at, HeaderDrawn, Drawn)

DrawnRows(visible) ==
    LET n == Len(visible)
    IN  IF n = 0 THEN HeaderDrawn ELSE DrawnAt(visible, n) + 1 + Drawn[visible[n].id]

Entries(visible) == HeaderEntries + 3 * Len(visible)

ShownScroll(visible, offset) ==
    CASE Entries(visible) <= height -> 0
      [] Entries(visible) > height + offset -> offset
      [] OTHER -> Entries(visible) - height

Displayed(visible, at, offset) ==
    /\ ShownScroll(visible, offset) <= DrawnAt(visible, at)
    /\ DrawnAt(visible, at) < ShownScroll(visible, offset) + height

-----------------------------------------------------------------------------
(* The keys.                                                               *)

Keeps == UNCHANGED <<parents, defaulted, comments, height>>

Target(visible, count, down) ==
    LET at == Position(visible, focused)
        here == CHOOSE i \in at : TRUE
    IN  CASE at = {} -> 1
          [] at # {} /\ down -> IF here + count > Len(visible) THEN Len(visible) ELSE here + count
          [] OTHER -> IF here > count THEN here - count ELSE 1

(* MoveDown and MoveUp: move_thread_cursor.                                *)
Move(count, down) ==
    /\ Keeps
    /\ UNCHANGED collapsed
    /\ \E visible \in {Shown(collapsed)} :
          /\ visible # <<>>
          /\ focused' = visible[Target(visible, count, down)].id
          /\ scroll' = Anchored(visible, focused')

ToggleCommentThread ==
    /\ focused # NoComment /\ HasReplies(comments, parents, focused)
    /\ collapsed' = IF focused \in collapsed THEN collapsed \ {focused}
                    ELSE collapsed \union {focused}
    /\ UNCHANGED <<focused, scroll>>
    /\ Keeps

CollapseAll ==
    /\ Keeps
    /\ collapsed' = Collapsible(comments, parents)
    /\ focused' = IF focused = NoComment THEN NoComment
                  ELSE NearestVisible(comments, parents, collapsed', focused)
    /\ \E visible \in {Shown(collapsed')} :
          scroll' = IF focused = NoComment THEN scroll ELSE Anchored(visible, focused')

ExpandAll ==
    /\ Keeps
    /\ collapsed' = {}
    /\ UNCHANGED focused
    /\ \E visible \in {Shown(collapsed')} :
          scroll' = IF focused = NoComment THEN scroll ELSE Anchored(visible, focused)

ScrollDetail(count) ==
    /\ \/ scroll + Step * count <= MaxScroll /\ scroll' = scroll + Step * count
       \/ scroll' = IF scroll > Step * count THEN scroll - Step * count ELSE 0
    /\ UNCHANGED <<focused, collapsed>>
    /\ Keeps

-----------------------------------------------------------------------------
(* The answers, and the terminal.                                          *)

Folded(list) == IF comments = <<>> /\ defaulted THEN Collapsible(list, parents) ELSE collapsed

CommentsLand(list) ==
    /\ comments' = list
    /\ collapsed' = Folded(list)
    /\ UNCHANGED <<parents, defaulted, focused, scroll, height>>

(* The post brings comments of its own, and gives way to those that are    *)
(* there already.                                                          *)
PostLands ==
    /\ IF comments = <<>> THEN \E list \in Lists : comments' = list ELSE UNCHANGED comments
    /\ scroll' = 0
    /\ UNCHANGED <<parents, defaulted, focused, collapsed, height>>

CommentCreated(id) ==
    /\ id \notin Range(comments)
    /\ comments' = Append(comments, id)
    /\ UNCHANGED <<parents, defaulted, focused, collapsed, scroll, height>>

CommentDeleted(id) ==
    /\ id \in Range(comments)
    /\ comments' = Retained(comments, Range(comments) \ {id})
    /\ UNCHANGED <<parents, defaulted, focused, collapsed, scroll, height>>

(* open_selected replaces the thread by an empty one.                      *)
Reopen ==
    /\ comments' = <<>> /\ focused' = NoComment /\ collapsed' = {} /\ scroll' = 0
    /\ UNCHANGED <<parents, defaulted, height>>

Resize ==
    /\ height' \in Heights
    /\ UNCHANGED <<parents, defaulted, thread>>

ThreadNext ==
    \/ \E count \in 1 .. MaxCount : Move(count, TRUE) \/ Move(count, FALSE) \/ ScrollDetail(count)
    \/ ToggleCommentThread \/ CollapseAll \/ ExpandAll
    \/ (\E list \in Lists : CommentsLand(list)) \/ PostLands
    \/ \E id \in Ids : CommentCreated(id) \/ CommentDeleted(id)
    \/ Reopen \/ Resize

ThreadSpec == ThreadInit /\ [][ThreadNext]_threadVars

-----------------------------------------------------------------------------
ThreadTypeOK ==
    /\ parents \in Forests
    /\ defaulted \in BOOLEAN
    /\ comments \in Lists
    /\ focused \in Ids \union {NoComment}
    /\ collapsed \subseteq Ids
    /\ scroll \in Nat
    /\ height \in Heights

(* The comments above another, by the paths alone: what is in every set    *)
(* that holds it and, with a comment, its parent.                          *)
Line(list, id) ==
    {a \in Range(list) :
        \A S \in SUBSET Range(list) :
            id \in S /\ (\A c \in S : parents[c] \in Range(list) => parents[c] \in S) => a \in S}

AncestorsIn(list, id) == Line(list, id) \ {id}

Below(list, id) == {c \in Range(list) : id \in AncestorsIn(list, c)}

(* Whatever the server sends and in whatever order, each comment has one   *)
(* row, and under it, without a gap, the rows of exactly the comments      *)
(* below it: replies whose parent is missing are promoted, not dropped.    *)
(* Its depth is the number of comments above it, as a u8 counts them.      *)
RowsAreTheThread ==
    LET rows == Rows(comments, parents)
    IN  /\ Len(rows) = Len(comments)
        /\ {row.id : row \in Range(rows)} = Range(comments)
        /\ \A i \in DOMAIN rows :
            /\ {rows[k].id : k \in i + 1 .. i + rows[i].replies} = Below(comments, rows[i].id)
            /\ rows[i].replies = Cardinality(Below(comments, rows[i].id))
            /\ rows[i].depth = Cardinality(AncestorsIn(comments, rows[i].id)) % 256

(* A comment is on the screen unless one it answers, directly or not, is   *)
(* collapsed.                                                              *)
FoldsHideReplies ==
    {row.id : row \in Range(Shown(collapsed))} =
        {c \in Range(comments) : AncestorsIn(comments, c) \intersect collapsed = {}}

(* Nothing above a row is wrapped or broken, and the App knows it.         *)
Unwrapped(visible, at) ==
    /\ HeaderLines = HeaderEntries /\ HeaderDrawn = HeaderEntries
    /\ \A i \in 1 .. at - 1 : Lines[visible[i].id] = 1 /\ Drawn[visible[i].id] = 1

Within(visible, at, offset) ==
    offset <= HeaderOf(visible, at) /\ HeaderOf(visible, at) < offset + height

OnScreen(visible, id, offset) ==
    \E at \in Position(visible, id) :
        /\ Within(visible, at, offset)
        /\ Unwrapped(visible, at) => Displayed(visible, at, offset)

(* After a move, Z or :expand-all-threads the cursor is on a comment that  *)
(* is shown, and its header is within the viewport by the App's own count  *)
(* of lines, unless its comment is gone: wherever a refresh, a deletion, a *)
(* fold, a resize or Ctrl-d had left them.  The count is an estimate; if   *)
(* no text above the comment is wrapped, its header is really displayed,   *)
(* whatever the renderer made of the offset.                               *)
CursorIsFollowed ==
    [][\/ \E count \in 1 .. MaxCount : Move(count, TRUE) \/ Move(count, FALSE)
       \/ (CollapseAll \/ ExpandAll) /\ focused \in Range(comments)
       => \E visible \in {Visible(comments', parents, collapsed')} :
              OnScreen(visible, focused', scroll')]_threadVars

(* Ctrl-d reaches the end of the thread, be it after one more than the     *)
(* lines ask for (render.rs lines 333 to 335): scrolled down by as many    *)
(* lines as there are rows, its last row is displayed.                     *)
BottomIsReached ==
    \E visible \in {Shown(collapsed)} :
        scroll >= DrawnRows(visible) =>
            DrawnRows(visible) <= ShownScroll(visible, scroll) + height

(* The cursor stays on a comment that is shown as long as its comment is   *)
(* there (state.rs line 119: collapse changes never invalidate it).        *)
CursorIsShown ==
    focused \in Range(comments) => Position(Shown(collapsed), focused) # {}
=============================================================================
