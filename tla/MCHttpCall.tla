----------------------------- MODULE MCHttpCall -----------------------------
(* A small instance of HttpCall: the deadlines in the ratio of the default *)
(* Timeouts, with a pause that is shorter than any of them.                *)
EXTENDS HttpCall
=============================================================================
