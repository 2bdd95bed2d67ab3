------------------------------- MODULE Vectors -------------------------------
(***************************************************************************)
(* What the code does to its vectors.                                      *)
(***************************************************************************)
EXTENDS Naturals, SequencesExt

(* Vec::retain: the elements of a vector that are in a set, in their order. *)
Retained(vector, kept) ==
    FlattenSeq([n \in DOMAIN vector |-> IF vector[n] \in kept THEN <<vector[n]>> ELSE <<>>])
=============================================================================
