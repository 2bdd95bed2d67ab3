----------------------------- MODULE CommentTree -----------------------------
(***************************************************************************)
(* The tree of a flat comment list (src/app/thread.rs): its rows in        *)
(* pre-order, their reply counts, and what a set of collapsed comments     *)
(* hides.  A comment is its id; the parent its path names comes with it    *)
(* (NoComment for a top-level comment or a malformed path).                *)
(***************************************************************************)
EXTENDS Vectors

CONSTANT NoComment

(* The depth is a u8 and counts on from 0 past 255.                        *)
Row(id, depth, replies) == [id |-> id, depth |-> depth % 256, replies |-> replies]

(* A comment whose parent is not in the list becomes a top-level one.      *)
ParentIn(comments, parents, id) ==
    IF id \in Range(comments) /\ parents[id] \in Range(comments) THEN parents[id] ELSE NoComment

Children(comments, parents, id) ==
    Retained(comments, {c \in Range(comments) : ParentIn(comments, parents, c) = id})

(* The rows of a comment at a depth and of all that is below it: there are *)
(* fewer depths than comments.                                             *)
Visit(comments, parents) ==
    LET visit[depth \in 0 .. Len(comments)] ==
            IF depth = Len(comments) THEN [id \in Range(comments) |-> <<>>]
            ELSE [id \in Range(comments) |->
                    LET kids == Children(comments, parents, id)
                        below == FlattenSeq([i \in DOMAIN kids |-> visit[depth + 1][kids[i]]])
                    IN  <<Row(id, depth, Len(below))>> \o below]
    IN  visit

Walk(comments, parents, roots) ==
    FlattenSeq([i \in DOMAIN roots |-> Visit(comments, parents)[0][roots[i]]])

(* Mutant of Rows: orphans are dropped.                                    *)
RowsWithoutOrphans(comments, parents) ==
    Walk(comments, parents, Retained(comments, {c \in Range(comments) : parents[c] = NoComment}))

Rows(comments, parents) ==
    Walk(comments, parents, Children(comments, parents, NoComment))

(* The comment, its parent, the parent of that, and so on to NoComment.    *)
Climb(comments, parents, id) ==
    LET up[n \in 0 .. Len(comments)] ==
            IF n = 0 THEN id ELSE ParentIn(comments, parents, up[n - 1])
    IN  up

(* Mutant of Hidden: only the parent is asked.                             *)
HiddenByParent(comments, parents, collapsed, id) ==
    ParentIn(comments, parents, id) \in collapsed

Hidden(comments, parents, collapsed, id) ==
    \E n \in 1 .. Len(comments) : Climb(comments, parents, id)[n] \in collapsed

Visible(comments, parents, collapsed) ==
    LET rows == Rows(comments, parents)
    IN  Retained(rows, {row \in Range(rows) : ~ Hidden(comments, parents, collapsed, row.id)})

HasReplies(comments, parents, id) ==
    \E row \in Range(Rows(comments, parents)) : row.id = id /\ row.replies > 0

Collapsible(comments, parents) ==
    {id \in Range(comments) : HasReplies(comments, parents, id)}

(* The first on the way up that is not hidden.  An id that is no row has   *)
(* no ancestors and is its own answer.                                     *)
NearestVisible(comments, parents, collapsed, id) ==
    LET up == Climb(comments, parents, id)
        shown == {n \in 0 .. Len(comments) : ~ Hidden(comments, parents, collapsed, up[n])}
    IN  up[CHOOSE n \in shown : \A m \in shown : n <= m]
=============================================================================
