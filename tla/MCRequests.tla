------------------------------ MODULE MCRequests ------------------------------
(***************************************************************************)
(* Small instances of Requests: the feed, and the post and the comments of *)
(* one thread, which are dropped together.                                 *)
(***************************************************************************)
EXTENDS Requests

CONSTANTS feed, post, comments

MCIdentities == {feed, post, comments}
MCGroups == {{post, comments}}
=============================================================================
