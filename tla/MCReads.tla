------------------------------- MODULE MCReads -------------------------------
(* Small instances of Reads: two posts, the home feed and a search.        *)
EXTENDS Reads, TLC

CONSTANTS a, b, search, alice

MCPosts == {a, b}
MCQueries == {home, search}
MCProfiles == {alice}

Symmetry == Permutations(MCPosts)
=============================================================================
