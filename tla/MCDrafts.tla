------------------------------- MODULE MCDrafts -------------------------------
(* A small instance of Drafts. *)
EXTENDS Drafts

MCOperations == {"create_post", "create_comment", "edit_post"}
=============================================================================
