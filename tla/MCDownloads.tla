----------------------------- MODULE MCDownloads -----------------------------
(* Small instances of Downloads. *)
EXTENDS Downloads
=============================================================================
