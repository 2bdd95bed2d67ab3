---------------------------- MODULE MCFeedRefresh ----------------------------
(* Small instances of FeedRefresh: the home feed and its next page.        *)
EXTENDS FeedRefresh

CONSTANT next

MCKeys == {home, next}
MCFlipKeys == {next}
=============================================================================
