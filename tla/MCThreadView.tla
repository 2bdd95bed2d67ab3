---------------------------- MODULE MCThreadView ----------------------------
EXTENDS ThreadView

(* A chain, two threads, and one comment with two replies.                 *)
MCForests == {
    [c \in Ids |-> CASE c = 1 -> NoComment [] c = 2 -> 1 [] c = 3 -> 2 [] c = 4 -> 3],
    [c \in Ids |-> CASE c = 1 -> NoComment [] c = 2 -> NoComment [] c = 3 -> 1 [] c = 4 -> 2],
    [c \in Ids |-> CASE c = 1 -> NoComment [] c = 2 -> 1 [] c = 3 -> 1 [] c = 4 -> 3]}

MCLines == [c \in Ids |-> IF c = 2 THEN 3 ELSE 1]

(* By words the second comment takes a row more than by characters.        *)
MCDrawn == [c \in Ids |-> IF c = 2 THEN 4 ELSE 1]
=============================================================================
