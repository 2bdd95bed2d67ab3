----------------------------- MODULE ReadContract -----------------------------
(***************************************************************************)
(* What App promises about the reads it starts, without tasks, handles or  *)
(* mailbox: for each thing that can be asked for, at most one request is   *)
(* wanted at a time; asking again, giving up and changing the context make *)
(* the earlier request unwanted; and an answer is shown only while its     *)
(* request is wanted, so in the context it was asked in.                   *)
(***************************************************************************)
EXTENDS Naturals

CONSTANTS Identities, None

VARIABLES
    asked,   \* identity -> number of the wanted request, or None
    count,   \* how many requests were made
    epoch,   \* how often the context changed
    shown    \* the answer shown last: which request, and in which context asked

vars == <<asked, count, epoch, shown>>

Init ==
    /\ asked = [i \in Identities |-> None]
    /\ count = 0
    /\ epoch = 0
    /\ shown = None

Ask(i) ==
    /\ count' = count + 1
    /\ asked' = [asked EXCEPT ![i] = count']
    /\ UNCHANGED <<epoch, shown>>

GiveUp(S) ==
    /\ asked' = [i \in Identities |-> IF i \in S THEN None ELSE asked[i]]
    /\ UNCHANGED <<count, epoch, shown>>

NewContext ==
    /\ epoch' = epoch + 1
    /\ asked' = [i \in Identities |-> None]
    /\ UNCHANGED <<count, shown>>

Show(i) ==
    /\ asked[i] # None
    /\ shown' = [identity |-> i, number |-> asked[i], epoch |-> epoch]
    /\ UNCHANGED <<asked, count, epoch>>

Next ==
    \/ \E i \in Identities : Ask(i) \/ Show(i)
    \/ \E S \in SUBSET Identities : GiveUp(S)
    \/ NewContext

Spec == Init /\ [][Next]_vars
=============================================================================
