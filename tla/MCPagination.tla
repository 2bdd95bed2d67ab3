---------------------------- MODULE MCPagination ----------------------------
(* Small instances of Pagination: the home feed and a search.              *)
EXTENDS Pagination

CONSTANT search

MCFeeds == {home, search}
=============================================================================
