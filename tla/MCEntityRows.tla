---------------------------- MODULE MCEntityRows ----------------------------
(* A small instance of EntityRows: one of the lists of communities, rows   *)
(* of one byte but for a post that was edited, and room for two.           *)
EXTENDS EntityRows

CONSTANTS all

MCListings == <<all>>
MCKeys == {post, comments, all}
MCBytes(k, entity) == IF k = post /\ entity > 1 THEN 2 ELSE 1
=============================================================================
