----------------------------- MODULE DraftsProofs -----------------------------
(***************************************************************************)
(* Proofs about Drafts, for every set of profiles, posts, operations and   *)
(* texts and every bound.                                                  *)
(*                                                                         *)
(* Books relates the history to what the program keeps: it is what makes   *)
(* the invariants of Drafts inductive.                                     *)
(***************************************************************************)
EXTENDS Drafts, TLAPS

(* The entries are of the sessions so far, and those of this one have      *)
(* numbers that were given out.                                            *)
Numbered ==
    \A h \in history : /\ h.by <= session
                       /\ h.by = session => h.id.n < sequence

(* completed says what the history says of this session, and no more.      *)
Marked ==
    /\ \A h \in history : h.done <= session
    /\ \A h \in history : h.done = session => <<h.profile, h.id>> \in completed
    /\ \A c \in completed : \E h \in history : c = <<h.profile, h.id>>

Known(d) == \E h \in history : Same(h, d)

Of(m) == [profile |-> m.profile, id |-> m.draft, by |-> m.by]

(* Every row, and every mutation of a draft, is in the history.            *)
Recorded ==
    /\ \A d \in drafts : Known(d)
    /\ pending # None /\ pending.draft # None => Known(Of(pending))
    /\ op # None /\ op.draft # None => Known(Of(op))

(* The mutation under way is of this profile.                              *)
UnderWay == op # None => op.profile = profile

Books == Numbered /\ Marked /\ Recorded /\ UnderWay

-----------------------------------------------------------------------------
(* Types.                                                                  *)

LEMMA TypeInit == Init => TypeOK
<1>1. 1 \in Sessions /\ 1 \in 1 .. MaxDrafts + 1
  BY DraftConstants DEF Sessions
<1> QED BY <1>1 DEF Init, TypeOK

LEMMA OpenTyped ==
    ASSUME TypeOK, NEW d \in Open
    PROVE  d \in Rows /\ d.profile = profile /\ <<profile, d.id>> \notin completed
  BY DEF TypeOK, Open

(* What is put in the table, and what becomes of the history.              *)
LEMMA SavedTyped ==
    ASSUME TypeOK, NEW d \in Rows
    PROVE  Saved(d) \subseteq Rows
  BY DEF TypeOK, Saved

LEMMA RewrittenTyped ==
    ASSUME TypeOK, NEW d, NEW content \in Contents
    PROVE  Rewritten(d, content) \subseteq Entries
  BY DEF TypeOK, Rewritten, Entries

LEMMA ClosedTyped ==
    ASSUME TypeOK, NEW d
    PROVE  Closed(d) \subseteq Entries
  BY DraftConstants DEF TypeOK, Closed, Entries, Sessions

(* What Begin puts in the table and in the history.                        *)
New(operation) ==
    [profile |-> profile, id |-> [op |-> operation, n |-> sequence],
     by |-> session, content |-> Placeholder(operation)]

LEMMA NewTyped ==
    ASSUME TypeOK, NEW operation \in Operations, sequence <= MaxDrafts
    PROVE  New(operation) \in Rows /\ Begun(New(operation)) \in Entries
  BY DraftConstants
     DEF TypeOK, New, Rows, Entries, Begun, Ids, Contents, Placeholder, Sessions

LEMMA DraftlessTyped ==
    ASSUME TypeOK, NEW kind \in Destructive \union {"say", "file"}, NEW post \in Posts \union {None}
    PROVE  Draftless(kind, post) \in Mutations
  BY DraftConstants DEF TypeOK, Draftless, Mutations

LEMMA MutationTyped ==
    ASSUME TypeOK, NEW d \in Open
    PROVE  MutationFor(d) \in Mutations
<1>1. /\ d.id \in Ids /\ d.content \in Contents /\ d.by \in 0 .. MaxSessions
      /\ profile \in Profiles /\ selected \in Posts \union {None}
  <2>1. d \in Rows
    BY OpenTyped
  <2>2. d.by \in Sessions /\ Sessions \subseteq 0 .. MaxSessions
    BY <2>1, DraftConstants DEF Rows, Sessions
  <2> QED BY <2>1, <2>2 DEF TypeOK, Rows
<1>2. (IF d.id.op = "create_post" THEN "create" ELSE "say") \in Destructive \union {"say", "file"}
  BY DEF Destructive
<1> QED BY ONLY <1>1, <1>2 DEF MutationFor, Mutations

LEMMA StartTyped ==
    ASSUME TypeOK, NEW m \in Mutations, Start(m)
    PROVE  /\ pending' \in Mutations \union {None}
           /\ op' \in Mutations \union {None}
           /\ prompt' \in BOOLEAN
  BY DEF TypeOK, Start, Stage, dialog

LEMMA TypeStep ==
    ASSUME TypeOK, [Next]_vars
    PROVE  TypeOK'
<1> USE DEF store, place, dialog
<1>1. ASSUME NEW operation \in Operations, Begin(operation) PROVE TypeOK'
  <2>1. sequence <= MaxDrafts /\ New(operation) \in Rows /\ Begun(New(operation)) \in Entries
    BY <1>1, NewTyped DEF Begin
  <2>2. drafts' \subseteq Rows /\ history' \subseteq Entries
    BY <1>1, <2>1, SavedTyped DEF Begin, New, TypeOK
  <2>3. sequence' \in 1 .. MaxDrafts + 1
    BY <1>1, <2>1, DraftConstants DEF Begin, TypeOK
  <2> QED BY <1>1, <2>2, <2>3 DEF Begin, TypeOK
<1>2. ASSUME NEW d \in Open, NEW content \in Contents, Update(d, content) PROVE TypeOK'
  <2>1. [d EXCEPT !.content = content] \in Rows
    BY OpenTyped DEF Rows
  <2> QED BY <1>2, <2>1, SavedTyped, RewrittenTyped DEF Update, TypeOK
<1>3. ASSUME NEW d \in Open, Discard(d) PROVE TypeOK'
  <2>1. <<profile, d.id>> \in Profiles \X Ids
    BY OpenTyped DEF Rows, TypeOK
  <2> QED BY <1>3, <2>1, ClosedTyped DEF Discard, Reported, TypeOK
<1>4. ASSUME NEW d \in Open, Submit(d) PROVE TypeOK'
  BY <1>4, MutationTyped, StartTyped DEF Submit, Reported, TypeOK
<1>5. CASE Say
  <2>1. Draftless("say", selected) \in Mutations
    BY DraftlessTyped DEF TypeOK
  <2> QED BY <1>5, <2>1, StartTyped DEF Say, Reported, TypeOK
<1>6. CASE Delete
  <2>1. Draftless("delete", selected) \in Mutations
    BY DraftlessTyped DEF TypeOK, Destructive
  <2> QED BY <1>6, <2>1 DEF Delete, Stage, Reported, TypeOK
<1>7. CASE StageFile
  BY <1>7, DraftlessTyped DEF StageFile, Stage, TypeOK
<1>8. ASSUME NEW interface \in Interfaces, Confirm(interface) PROVE TypeOK'
  BY <1>8 DEF Confirm, Asked, TypeOK
<1>9. CASE Cancel
  BY <1>9 DEF Cancel, TypeOK
<1>10. CASE Answered
  <2>1. history' \subseteq Entries
    BY <1>10, ClosedTyped DEF Answered, TypeOK
  <2>2. completed' \subseteq Profiles \X Ids
    BY <1>10 DEF Answered, TypeOK, Mutations
  <2>3. selected' \in Posts \union {None}
    BY <1>10 DEF Answered, TypeOK
  <2> QED BY <1>10, <2>1, <2>2, <2>3 DEF Answered, Reported, TypeOK
<1>11. CASE Refused
  BY <1>11 DEF Refused, Reported, TypeOK
<1>12. CASE Report
  BY <1>12 DEF Report, Reported, TypeOK
<1>13. ASSUME NEW post \in Posts \union {None}, Select(post) PROVE TypeOK'
  BY <1>13 DEF Select, TypeOK
<1>14. ASSUME NEW p \in Profiles, Switch(p) PROVE TypeOK'
  BY <1>14 DEF Switch, TypeOK
<1>15. CASE Restart
  <2>1. session' \in Sessions /\ sequence' \in 1 .. MaxDrafts + 1
    BY <1>15, DraftConstants DEF Restart, TypeOK, Sessions
  <2> QED BY <1>15, <2>1 DEF Restart, TypeOK
<1>16. CASE UNCHANGED vars
  BY <1>16 DEF vars, TypeOK
<1>17. ASSUME NEW kind \in Destructive \union {"say"}, NEW post \in Posts, Mutate(kind, post)
       PROVE  TypeOK'
  <2>1. Draftless(kind, post) \in Mutations
    BY DraftlessTyped
  <2> QED BY <1>17, <2>1 DEF Mutate, Stage, TypeOK
<1> QED BY <1>1, <1>2, <1>3, <1>4, <1>5, <1>6, <1>7, <1>8, <1>9, <1>10, <1>11, <1>12,
           <1>13, <1>14, <1>15, <1>16, <1>17 DEF Next

(* The table, the marks, what is staged and what is sent stay within their *)
(* types: no draft without a profile, no mutation without its target.      *)
THEOREM TypeCorrect == Spec => []TypeOK
  BY TypeInit, TypeStep, PTL DEF Spec

-----------------------------------------------------------------------------
(* Consent.                                                                *)

LEMMA StageLive ==
    ASSUME TypeOK, NEW m \in Mutations, Stage(m), UNCHANGED <<profile, completed>>,
           m.profile = profile, m.draft # None => <<profile, m.draft>> \notin completed
    PROVE  PromptIsLive'
  BY NoneIsNoMutation DEF Stage, PromptIsLive

(* With no prompt, or with the prompt and what it is about as they were.   *)
LEMMA NoPromptLive ==
    ASSUME PromptIsLive,
           prompt' = FALSE \/ UNCHANGED <<profile, completed, pending, prompt>>
    PROVE  PromptIsLive'
<1>1. CASE prompt' = FALSE
  BY <1>1 DEF PromptIsLive
<1>2. CASE UNCHANGED <<profile, completed, pending, prompt>>
  <2>1. /\ profile' = profile /\ completed' = completed
        /\ pending' = pending /\ prompt' = prompt
    BY <1>2
  <2> QED BY <2>1 DEF PromptIsLive
<1> QED BY <1>1, <1>2

LEMMA PromptStep ==
    ASSUME TypeOK, PromptIsLive, [Next]_vars
    PROVE  PromptIsLive'
<1> USE DEF store, place, dialog
<1>1. ASSUME NEW operation \in Operations, Begin(operation) PROVE PromptIsLive'
  BY <1>1, NoPromptLive DEF Begin
<1>2. ASSUME NEW d \in Open, NEW content \in Contents, Update(d, content) PROVE PromptIsLive'
  BY <1>2, NoPromptLive DEF Update
<1>3. ASSUME NEW d \in Open, Discard(d) PROVE PromptIsLive'
  BY <1>3, NoPromptLive DEF Discard, Reported
<1>4. ASSUME NEW d \in Open, Submit(d) PROVE PromptIsLive'
  <2>1. CASE Stage(MutationFor(d))
    <3>1. /\ MutationFor(d).profile = profile
          /\ MutationFor(d).draft = d.id
      BY DEF MutationFor
    <3> QED BY <1>4, <2>1, <3>1, MutationTyped, OpenTyped, StageLive DEF Submit
  <2>2. CASE ~ Stage(MutationFor(d))
    BY <1>4, <2>2, NoPromptLive DEF Submit, Start, Reported
  <2> QED BY <2>1, <2>2
<1>5. CASE Say
  <2>1. Draftless("say", selected).kind \notin Destructive
    BY DEF Draftless, Destructive
  <2> QED BY <1>5, <2>1, NoPromptLive DEF Say, Start, Reported
<1>6. CASE Delete
  <2>1. CASE selected = None
    BY <1>6, <2>1, NoPromptLive DEF Delete, Reported
  <2>2. CASE selected # None
    <3>1. Draftless("delete", selected) \in Mutations
      BY DraftlessTyped DEF TypeOK, Destructive
    <3>2. /\ Draftless("delete", selected).profile = profile
          /\ Draftless("delete", selected).draft = None
      BY DEF Draftless
    <3> QED BY <1>6, <2>2, <3>1, <3>2, StageLive DEF Delete
  <2> QED BY <2>1, <2>2
<1>7. CASE StageFile
  <2>1. Draftless("file", None) \in Mutations
    BY DraftlessTyped
  <2>2. Draftless("file", None).profile = profile /\ Draftless("file", None).draft = None
    BY DEF Draftless
  <2> QED BY <1>7, <2>1, <2>2, StageLive DEF StageFile
<1>8. CASE (\E interface \in Interfaces : Confirm(interface))
           \/ Cancel \/ Answered \/ Refused \/ Report \/ Restart
  BY <1>8, NoPromptLive DEF Confirm, Cancel, Answered, Refused, Report, Restart, Reported
<1>9. ASSUME NEW post \in Posts \union {None}, Select(post) PROVE PromptIsLive'
  BY <1>9, NoPromptLive DEF Select
<1>10. ASSUME NEW p \in Profiles, Switch(p) PROVE PromptIsLive'
  BY <1>10, NoPromptLive DEF Switch
<1>11. CASE UNCHANGED vars
  BY <1>11, NoPromptLive DEF vars
<1>12. ASSUME NEW kind \in Destructive \union {"say"}, NEW post \in Posts, Mutate(kind, post)
       PROVE  PromptIsLive'
  <2>1. /\ Draftless(kind, post) \in Mutations
        /\ Draftless(kind, post).profile = profile
        /\ Draftless(kind, post).draft = None
    BY DraftlessTyped DEF Draftless
  <2> QED BY <1>12, <2>1, StageLive, NoPromptLive DEF Mutate
<1> QED BY <1>1, <1>2, <1>3, <1>4, <1>5, <1>6, <1>7, <1>8, <1>9, <1>10, <1>11, <1>12 DEF Next

(* Whoever is asked is asked about something of this profile that can      *)
(* still be done.                                                          *)
THEOREM PromptAlwaysLive == Spec => []PromptIsLive
<1>1. Init => PromptIsLive
  BY DEF Init, PromptIsLive
<1> QED BY <1>1, TypeInit, TypeStep, PromptStep, PTL DEF Spec

(* A mutation is under way by Confirm, or by what needs no consent.        *)
LEMMA Sent ==
    ASSUME [Next]_vars, op = None, op' # None
    PROVE  \/ \E interface \in Interfaces : Confirm(interface) /\ op' = pending
           \/ \E d \in Open : Submit(d) /\ op' = MutationFor(d) /\ op'.kind \notin Destructive
           \/ op'.draft = None /\ op'.profile = profile /\ profile' = profile
              /\ op'.kind \notin Destructive
<1> USE DEF store, place, dialog
<1>1. ASSUME NEW d \in Open, Submit(d)
      PROVE op' = MutationFor(d) /\ op'.kind \notin Destructive
  BY <1>1 DEF Submit, Start, Stage
<1>2. CASE Say
  <2>1. /\ Draftless("say", selected).kind \notin Destructive
        /\ Draftless("say", selected).draft = None
        /\ Draftless("say", selected).profile = profile
    BY DEF Draftless, Destructive
  <2> QED BY <1>2, <2>1 DEF Say, Start, Stage
<1>3. ASSUME NEW interface \in Interfaces, Confirm(interface) PROVE op' = pending
  BY <1>3 DEF Confirm
<1>4. ASSUME NEW operation \in Operations, Begin(operation) PROVE FALSE
  BY <1>4 DEF Begin
<1>5. ASSUME NEW d \in Open, NEW content \in Contents, Update(d, content) PROVE FALSE
  BY <1>5 DEF Update
<1>6. ASSUME NEW d \in Open, Discard(d) PROVE FALSE
  BY <1>6 DEF Discard
<1>7. CASE Delete \/ StageFile \/ Cancel \/ Answered \/ Refused \/ Report \/ Restart
  BY <1>7 DEF Delete, StageFile, Stage, Cancel, Answered, Refused, Report, Restart
<1>8. ASSUME NEW post \in Posts \union {None}, Select(post) PROVE FALSE
  BY <1>8 DEF Select
<1>9. ASSUME NEW p \in Profiles, Switch(p) PROVE FALSE
  BY <1>9 DEF Switch
<1>10. CASE UNCHANGED vars
  BY <1>10 DEF vars
<1>11. ASSUME NEW kind \in Destructive \union {"say"}, NEW post \in Posts, Mutate(kind, post)
       PROVE  /\ op'.draft = None /\ op'.profile = profile /\ profile' = profile
              /\ op'.kind \notin Destructive
  <2>1. op' = Draftless(kind, post) /\ kind \notin Destructive /\ profile' = profile
    BY <1>11 DEF Mutate, Stage
  <2> QED BY <2>1 DEF Draftless
<1> QED BY <1>1, <1>2, <1>3, <1>4, <1>5, <1>6, <1>7, <1>8, <1>9, <1>10, <1>11 DEF Next

(* A post is created or deleted only by the answer to a prompt about it,   *)
(* where the key is what confirms.                                         *)
THEOREM ConsentAlwaysFirst ==
    ASSUME "action" \notin Interfaces
    PROVE  Spec => ConsentComesFirst
<1>0. \A interface \in Interfaces : interface = "key"
  BY DraftConstants
<1>1. ASSUME [Next]_vars, op = None, op' # None, op'.kind \in Destructive
      PROVE prompt /\ pending = op'
  BY <1>0, <1>1, Sent DEF Confirm, Asked
<1> QED BY <1>1, PTL DEF Spec, ConsentComesFirst

-----------------------------------------------------------------------------
(* The books.                                                              *)

(* The steps that change the books.                                        *)
LEMMA Bookings ==
    ASSUME [Next]_vars
    PROVE  \/ UNCHANGED <<drafts, completed, sequence, history, session>>
           \/ \E operation \in Operations : Begin(operation)
           \/ \E d \in Open : (\E content \in Contents : Update(d, content)) \/ Discard(d)
           \/ Answered /\ op.draft # None
           \/ Restart
<1> USE DEF store, place, dialog
<1>1. ASSUME NEW d \in Open, Submit(d)
      PROVE UNCHANGED <<drafts, completed, sequence, history, session>>
  BY <1>1 DEF Submit
<1>2. CASE Say \/ Delete \/ StageFile \/ (\E interface \in Interfaces : Confirm(interface))
           \/ Cancel \/ Refused \/ Report
  BY <1>2 DEF Say, Delete, StageFile, Confirm, Cancel, Refused, Report
<1>3. CASE Answered /\ op.draft = None
  BY <1>3 DEF Answered
<1>4. ASSUME NEW post \in Posts \union {None}, Select(post)
      PROVE UNCHANGED <<drafts, completed, sequence, history, session>>
  BY <1>4 DEF Select
<1>5. ASSUME NEW p \in Profiles, Switch(p)
      PROVE UNCHANGED <<drafts, completed, sequence, history, session>>
  BY <1>5 DEF Switch
<1>6. CASE UNCHANGED vars
  BY <1>6 DEF vars
<1>7. ASSUME NEW kind \in Destructive \union {"say"}, NEW post \in Posts, Mutate(kind, post)
      PROVE UNCHANGED <<drafts, completed, sequence, history, session>>
  BY <1>7 DEF Mutate
<1> QED BY <1>1, <1>2, <1>3, <1>4, <1>5, <1>6, <1>7 DEF Next

(* While an answer is awaited nothing else is done.                        *)
LEMMA Waiting ==
    ASSUME [Next]_vars, op # None
    PROVE  op' = None \/ UNCHANGED vars
<1>1. CASE Say \/ Delete \/ StageFile \/ (\E interface \in Interfaces : Confirm(interface))
           \/ Cancel \/ Report
  BY <1>1 DEF Say, Delete, StageFile, Confirm, Cancel, Report
<1>2. CASE Answered \/ Refused \/ Restart
  BY <1>2 DEF Answered, Refused, Restart
<1>3. ASSUME NEW d \in Open, NEW content \in Contents, Update(d, content) PROVE FALSE
  BY <1>3 DEF Update
<1>4. ASSUME NEW d \in Open, Discard(d) \/ Submit(d) PROVE FALSE
  BY <1>4 DEF Discard, Submit
<1> QED BY <1>1, <1>2, <1>3, <1>4 DEF Next, Begin, Select, Switch, Mutate

(* What the two operators on the history do to its entries.                *)
LEMMA RewrittenParts ==
    ASSUME TypeOK, NEW d, NEW content
    PROVE  /\ \A h \in history : \E g \in Rewritten(d, content) : Same(g, h)
           /\ \A g \in Rewritten(d, content) : \E h \in history :
                Same(h, g) /\ g.done = h.done
                /\ IF Same(h, d) THEN g.content = content ELSE g = h
<1>1. ASSUME NEW h \in history
      PROVE  LET g == [h EXCEPT !.content = content]
             IN  Same(g, h) /\ Same(h, g) /\ g.done = h.done /\ g.content = content
  BY DEF TypeOK, Entries, Same
<1>2. \A h \in history : Same(h, h)
  BY DEF Same
<1> QED BY <1>1, <1>2 DEF Rewritten

LEMMA ClosedParts ==
    ASSUME TypeOK, NEW d
    PROVE  /\ \A h \in history : \E g \in Closed(d) : Same(g, h)
           /\ \A g \in Closed(d) : \E h \in history :
                Same(h, g) /\ IF Same(h, d) THEN g.done = session ELSE g = h
<1>1. ASSUME NEW h \in history
      PROVE  LET g == [h EXCEPT !.done = session]
             IN  Same(g, h) /\ Same(h, g) /\ g.done = session
  BY DEF TypeOK, Entries, Same
<1>2. \A h \in history : Same(h, h)
  BY DEF Same
<1> QED BY <1>1, <1>2 DEF Closed

LEMMA NumberedStep ==
    ASSUME TypeOK, Numbered, [Next]_vars
    PROVE  Numbered'
<1>0. /\ session \in Nat /\ sequence \in Nat
      /\ \A h \in history : h.by \in Nat /\ h.id.n \in Nat
  BY DraftConstants DEF TypeOK, Entries, Ids, Sessions
<1>1. CASE UNCHANGED <<drafts, completed, sequence, history, session>>
  BY <1>1 DEF Numbered
<1>2. ASSUME NEW operation \in Operations, Begin(operation) PROVE Numbered'
  <2>1. /\ Begun(New(operation)).by = session
        /\ Begun(New(operation)).id.n = sequence
    BY DEF Begun, New
  <2>2. \A h \in history' : h \in history \/ h = Begun(New(operation))
    BY <1>2 DEF Begin, New
  <2>3. sequence' = sequence + 1 /\ session' = session
    BY <1>2 DEF Begin, place
  <2> QED BY <1>0, <2>1, <2>2, <2>3 DEF Numbered
<1>3. ASSUME NEW d \in Open, NEW content \in Contents, Update(d, content) PROVE Numbered'
  <2>1. history' = Rewritten(d, content) /\ UNCHANGED <<sequence, session>>
    BY <1>3 DEF Update, place
  <2> QED BY <2>1, RewrittenParts DEF Numbered, Same
<1>4. ASSUME NEW d, history' = Closed(d), UNCHANGED <<sequence, session>> PROVE Numbered'
  <2>1. \A g \in history' : \E h \in history : Same(h, g)
    BY <1>4, ClosedParts
  <2> QED BY <1>4, <2>1 DEF Numbered, Same
<1>5. ASSUME NEW d \in Open, Discard(d) PROVE Numbered'
  BY <1>4, <1>5 DEF Discard, place
<1>6. CASE Answered /\ op.draft # None
  BY <1>4, <1>6 DEF Answered
<1>7. CASE Restart
  BY <1>0, <1>7 DEF Restart, Numbered
<1> QED BY <1>1, <1>2, <1>3, <1>5, <1>6, <1>7, Bookings

LEMMA MarkedStep ==
    ASSUME TypeOK, Marked, Recorded, UnderWay, [Next]_vars
    PROVE  Marked'
<1>0. session \in Nat \ {0} /\ \A h \in history : h.done \in Nat
  BY DraftConstants DEF TypeOK, Entries, Sessions
<1>1. CASE UNCHANGED <<drafts, completed, sequence, history, session>>
  BY <1>1 DEF Marked
<1>2. ASSUME NEW operation \in Operations, Begin(operation) PROVE Marked'
  <2>1. Begun(New(operation)).done = 0
    BY DEF Begun
  <2>2. /\ \A h \in history' : h \in history \/ h = Begun(New(operation))
        /\ history \subseteq history'
    BY <1>2 DEF Begin, New
  <2>3. UNCHANGED <<completed, session>>
    BY <1>2 DEF Begin, place
  <2> QED BY <1>0, <2>1, <2>2, <2>3 DEF Marked
<1>3. ASSUME NEW d \in Open, NEW content \in Contents, Update(d, content) PROVE Marked'
  <2>1. history' = Rewritten(d, content) /\ UNCHANGED <<completed, session>>
    BY <1>3 DEF Update, place
  <2> QED BY <2>1, RewrittenParts DEF Marked, Same
<1>4. ASSUME NEW d, Known(d), history' = Closed(d), UNCHANGED session,
             completed' = completed \union {<<d.profile, d.id>>}
      PROVE  Marked'
  <2>1. /\ \A g \in history' : \E h \in history :
               Same(h, g) /\ IF Same(h, d) THEN g.done = session ELSE g = h
        /\ \A h \in history : \E g \in history' : Same(g, h)
    BY <1>4, ClosedParts
  <2>2. ASSUME NEW g \in history'
        PROVE  /\ g.done <= session'
               /\ g.done = session' => <<g.profile, g.id>> \in completed'
    <3>1. PICK h \in history : Same(h, g) /\ IF Same(h, d) THEN g.done = session ELSE g = h
      BY <2>1
    <3>2. CASE Same(h, d)
      <4>1. g.profile = d.profile /\ g.id = d.id /\ g.done = session
        BY <3>1, <3>2 DEF Same
      <4> QED BY <1>0, <1>4, <4>1
    <3>3. CASE g = h
      BY <1>4, <3>3 DEF Marked
    <3> QED BY <3>1, <3>2, <3>3
  <2>3. ASSUME NEW c \in completed' PROVE \E g \in history' : c = <<g.profile, g.id>>
    <3>1. PICK h \in history : c = <<h.profile, h.id>>
      BY <1>4, <2>3 DEF Marked, Known, Same
    <3>2. PICK g \in history' : Same(g, h)
      BY <2>1
    <3> QED BY <3>1, <3>2 DEF Same
  <2> QED BY <2>2, <2>3 DEF Marked
<1>5. ASSUME NEW d \in Open, Discard(d) PROVE Marked'
  <2>1. Known(d) /\ d.profile = profile
    BY DEF Recorded, Open
  <2> QED BY <1>4, <1>5, <2>1 DEF Discard, place
<1>6. CASE Answered /\ op.draft # None
  <2>1. Known(Of(op)) /\ op.profile = profile
    BY <1>6 DEF Recorded, UnderWay, Answered
  <2>2. Of(op) = [profile |-> profile, id |-> op.draft, by |-> op.by]
    BY <2>1 DEF Of
  <2>3. Of(op).profile = profile /\ Of(op).id = op.draft
    BY <2>2
  <2> QED BY <1>4, <1>6, <2>1, <2>2, <2>3 DEF Answered
<1>7. CASE Restart
  BY <1>0, <1>7 DEF Restart, Marked
<1> QED BY <1>1, <1>2, <1>3, <1>5, <1>6, <1>7, Bookings

(* No entry leaves the history.                                            *)
LEMMA EntriesStay ==
    ASSUME TypeOK, [Next]_vars
    PROVE  \A h \in history : \E g \in history' : Same(g, h)
<1>0. \A h \in history : Same(h, h)
  BY DEF Same
<1>1. CASE UNCHANGED <<drafts, completed, sequence, history, session>>
  BY <1>0, <1>1
<1>2. ASSUME NEW operation \in Operations, Begin(operation) PROVE history \subseteq history'
  BY <1>2 DEF Begin
<1>3. ASSUME NEW d \in Open, NEW content \in Contents, Update(d, content)
      PROVE  \A h \in history : \E g \in history' : Same(g, h)
  BY <1>3, RewrittenParts DEF Update
<1>4. ASSUME NEW d \in Open, Discard(d)
      PROVE  \A h \in history : \E g \in history' : Same(g, h)
  BY <1>4, ClosedParts DEF Discard
<1>5. CASE Answered /\ op.draft # None
  BY <1>5, ClosedParts DEF Answered
<1>6. CASE Restart
  BY <1>0, <1>6 DEF Restart
<1> QED BY <1>0, <1>1, <1>2, <1>3, <1>4, <1>5, <1>6, Bookings

(* The rows of the table are those before, rewritten, and what was begun.  *)
LEMMA RowsRecorded ==
    ASSUME TypeOK, Recorded, [Next]_vars, NEW r \in drafts'
    PROVE  \E h \in history' : Same(h, r)
<1>1. ASSUME NEW d \in drafts, Same(d, r) PROVE \E h \in history' : Same(h, r)
  <2>1. PICK h \in history : Same(h, d)
    BY DEF Recorded, Known
  <2>2. PICK g \in history' : Same(g, h)
    BY EntriesStay
  <2> QED BY <1>1, <2>1, <2>2 DEF Same
<1>2. CASE drafts' = drafts
  BY <1>1, <1>2 DEF Same
<1>3. ASSUME NEW operation \in Operations, Begin(operation), drafts' # drafts
      PROVE  \E h \in history' : Same(h, r)
  <2>1. r \in drafts \/ r = New(operation)
    BY <1>3 DEF Begin, New, Saved
  <2>2. Begun(New(operation)) \in history'
    BY <1>3 DEF Begin, New
  <2>3. Same(Begun(New(operation)), New(operation))
    BY DEF Begun, Same
  <2> QED BY <1>1, <2>1, <2>2, <2>3 DEF Same
<1>4. ASSUME NEW d \in Open, NEW content \in Contents, Update(d, content)
      PROVE  \E h \in history' : Same(h, r)
  <2>1. r \in drafts \/ r = [d EXCEPT !.content = content]
    BY <1>4 DEF Update, Saved
  <2>2. d \in drafts /\ Same(d, [d EXCEPT !.content = content])
    BY OpenTyped DEF Open, Rows, Same
  <2> QED BY <1>1, <2>1, <2>2 DEF Same
<1>5. ASSUME NEW d \in Open, Discard(d) PROVE drafts' = drafts
  BY <1>5 DEF Discard
<1>6. CASE Answered \/ Restart
  BY <1>2, <1>6 DEF Answered, Restart
<1> QED BY <1>2, <1>3, <1>4, <1>5, <1>6, Bookings

(* What is staged was there, or comes from an open draft, or from none.    *)
LEMMA Stagings ==
    ASSUME [Next]_vars
    PROVE  \/ pending' \in {pending, None}
           \/ \E d \in Open : pending' = MutationFor(d)
           \/ pending'.draft = None
<1> USE DEF store, place, dialog, Reported
<1>1. ASSUME NEW d \in Open, Submit(d) PROVE pending' \in {pending, MutationFor(d)}
  BY <1>1 DEF Submit, Start, Stage
<1>2. CASE Say
  <2>1. Draftless("say", selected).kind \notin Destructive
    BY DEF Draftless, Destructive
  <2> QED BY <1>2, <2>1 DEF Say, Start
<1>3. CASE Delete \/ StageFile
  BY <1>3 DEF Delete, StageFile, Stage, Draftless
<1>4. CASE (\E interface \in Interfaces : Confirm(interface))
           \/ Cancel \/ Answered \/ Refused \/ Report \/ Restart
  BY <1>4 DEF Confirm, Cancel, Answered, Refused, Report, Restart
<1>5. ASSUME NEW operation \in Operations, Begin(operation) PROVE pending' = pending
  BY <1>5 DEF Begin
<1>6. ASSUME NEW d \in Open, NEW content \in Contents, Update(d, content) PROVE pending' = pending
  BY <1>6 DEF Update
<1>7. ASSUME NEW d \in Open, Discard(d) PROVE pending' = pending
  BY <1>7 DEF Discard
<1>8. ASSUME NEW post \in Posts \union {None}, Select(post) PROVE pending' = pending
  BY <1>8 DEF Select
<1>9. ASSUME NEW p \in Profiles, Switch(p) PROVE pending' = None
  BY <1>9 DEF Switch
<1>10. CASE UNCHANGED vars
  BY <1>10 DEF vars
<1>11. ASSUME NEW kind \in Destructive \union {"say"}, NEW post \in Posts, Mutate(kind, post)
       PROVE  pending' = None \/ pending'.draft = None
  BY <1>11 DEF Mutate, Stage, Draftless
<1> QED BY <1>1, <1>2, <1>3, <1>4, <1>5, <1>6, <1>7, <1>8, <1>9, <1>10, <1>11 DEF Next

LEMMA StaysKnown ==
    ASSUME TypeOK, [Next]_vars, NEW d, Known(d)
    PROVE  \E g \in history' : Same(g, d)
<1>1. PICK h \in history : Same(h, d)
  BY DEF Known
<1>2. PICK g \in history' : Same(g, h)
  BY EntriesStay
<1> QED BY <1>1, <1>2 DEF Same

LEMMA MutationKnown ==
    ASSUME TypeOK, Recorded, [Next]_vars, NEW d \in Open
    PROVE  \E g \in history' : Same(g, Of(MutationFor(d)))
<1>1. PICK g \in history' : Same(g, d)
  BY StaysKnown DEF Recorded, Open
<1>2. /\ Of(MutationFor(d)).profile = d.profile
      /\ Of(MutationFor(d)).id = d.id
      /\ Of(MutationFor(d)).by = d.by
  BY DEF Of, MutationFor, Open
<1> QED BY <1>1, <1>2 DEF Same

LEMMA RecordedStep ==
    ASSUME TypeOK, Recorded, [Next]_vars
    PROVE  Recorded'
<1>1. \A d \in drafts' : Known(d)'
  BY RowsRecorded DEF Known
<1>2. ASSUME pending' # None, pending'.draft # None
      PROVE  \E g \in history' : Same(g, Of(pending'))
  <2>1. CASE pending' = pending
    BY <1>2, <2>1, StaysKnown DEF Recorded
  <2>2. ASSUME NEW d \in Open, pending' = MutationFor(d)
        PROVE  \E g \in history' : Same(g, Of(pending'))
    BY <2>2, MutationKnown
  <2> QED BY <1>2, <2>1, <2>2, Stagings
<1>3. ASSUME op' # None, op'.draft # None
      PROVE  \E g \in history' : Same(g, Of(op'))
  <2>1. CASE op # None
    <3>1. op' = op
      BY <1>3, <2>1, Waiting DEF vars
    <3> QED BY <1>3, <2>1, <3>1, StaysKnown DEF Recorded
  <2>2. CASE op = None /\ op' = pending
    BY <1>3, <2>2, StaysKnown DEF Recorded
  <2>3. ASSUME NEW d \in Open, op' = MutationFor(d)
        PROVE  \E g \in history' : Same(g, Of(op'))
    BY <2>3, MutationKnown
  <2> QED BY <1>3, <2>1, <2>2, <2>3, Sent
<1>4. Of(pending)' = Of(pending') /\ Of(op)' = Of(op')
  BY DEF Of
<1>5. /\ pending' # None /\ pending'.draft # None => Known(Of(pending))'
      /\ op' # None /\ op'.draft # None => Known(Of(op))'
  BY <1>2, <1>3, <1>4 DEF Known
<1> QED BY <1>1, <1>5 DEF Recorded

LEMMA UnderWayStep ==
    ASSUME UnderWay, [Next]_vars
    PROVE  UnderWay'
<1>1. CASE op # None
  BY <1>1, Waiting DEF UnderWay, vars
<1>2. CASE op = None /\ op' # None
  <2>1. ASSUME NEW interface \in Interfaces, Confirm(interface), op' = pending PROVE UnderWay'
    BY <1>2, <2>1 DEF Confirm, UnderWay, place
  <2>2. ASSUME NEW d \in Open, Submit(d), op' = MutationFor(d) PROVE UnderWay'
    BY <2>2 DEF Submit, MutationFor, UnderWay, place
  <2>3. CASE op'.profile = profile /\ profile' = profile
    BY <2>3 DEF UnderWay
  <2> QED BY <1>2, <2>1, <2>2, <2>3, Sent
<1> QED BY <1>1, <1>2 DEF UnderWay

LEMMA BooksInit == Init => Books
  BY DEF Init, Books, Numbered, Marked, Recorded, UnderWay

LEMMA BooksStep ==
    ASSUME TypeOK, Books, [Next]_vars
    PROVE  Books'
  BY NumberedStep, MarkedStep, RecordedStep, UnderWayStep DEF Books

-----------------------------------------------------------------------------
(* What is closed stays closed, and what is not is kept.                   *)

(* What was submitted or discarded is not sent in the session that did it, *)
(* where the key is what confirms.                                         *)
THEOREM ClosedAlwaysUnsent ==
    ASSUME "action" \notin Interfaces
    PROVE  Spec => ClosedStaysUnsent
<1>0. \A interface \in Interfaces : interface = "key"
  BY DraftConstants
<1>1. ASSUME TypeOK, PromptIsLive, Books, [Next]_vars, op = None, op' # None, op'.draft # None,
             NEW h \in history, Same(h, [profile |-> profile, id |-> op'.draft, by |-> op'.by])
      PROVE  h.done # session
  <2>1. <<profile, op'.draft>> \notin completed
    <3>1. ASSUME NEW interface \in Interfaces, Confirm(interface), op' = pending
          PROVE  <<profile, op'.draft>> \notin completed
      BY <1>0, <1>1, <3>1 DEF Confirm, Asked, PromptIsLive
    <3>2. ASSUME NEW d \in Open, op' = MutationFor(d) PROVE <<profile, op'.draft>> \notin completed
      BY <3>2, OpenTyped, <1>1 DEF MutationFor
    <3> QED BY <1>1, <3>1, <3>2, Sent
  <2>2. h.profile = profile /\ h.id = op'.draft
    BY <1>1 DEF Same
  <2> QED BY <1>1, <2>1, <2>2 DEF Books, Marked
<1>2. Init => PromptIsLive
  BY DEF Init, PromptIsLive
<1>3. TypeOK /\ PromptIsLive /\ Books /\ [Next]_vars
        => (op = None /\ op' # None /\ op'.draft # None
              => \A h \in history :
                   Same(h, [profile |-> profile, id |-> op'.draft, by |-> op'.by])
                     => h.done # session)
  BY <1>1
<1> QED BY <1>2, <1>3, TypeInit, TypeStep, BooksInit, BooksStep, PromptStep, PTL
        DEF Spec, ClosedStaysUnsent

(* A step that closes, at most, d: what is still to be kept is kept.       *)
LEMMA KeptOnClose ==
    ASSUME TypeOK, DraftsAreKept, NEW d, Known(d), history' = Closed(d),
           completed' = completed \union {<<d.profile, d.id>>}, drafts' = drafts
    PROVE  DraftsAreKept'
<1>0. session # 0
  BY DEF TypeOK, Sessions
<1>1. SUFFICES ASSUME NEW g \in history', g.done = 0, ~ Reissued(g)'
               PROVE  Kept(g)'
  BY DEF DraftsAreKept
<1>2. PICK h \in history : Same(h, g) /\ IF Same(h, d) THEN g.done = session ELSE g = h
  BY ClosedParts
<1>3. g = h /\ ~ Same(h, d)
  BY <1>0, <1>1, <1>2
<1>4. \A e \in history : \E f \in history' : Same(f, e)
  BY ClosedParts
<1>5. ~ Reissued(h)
  BY <1>1, <1>3, <1>4 DEF Reissued, Same
<1>6. Kept(h)
  BY <1>1, <1>3, <1>5 DEF DraftsAreKept
<1>7. <<g.profile, g.id>> # <<d.profile, d.id>>
  <2>1. PICK f \in history' : Same(f, d)
    BY <1>4 DEF Known, Same
  <2> QED BY <1>1, <1>3, <2>1 DEF Reissued, Same
<1> QED BY <1>3, <1>6, <1>7 DEF Kept

LEMMA KeptOnBegin ==
    ASSUME TypeOK, Numbered, Marked, DraftsAreKept,
           NEW operation \in Operations, Begin(operation)
    PROVE  DraftsAreKept'
<1> DEFINE d == New(operation)
<1>0. /\ d.profile = profile /\ d.by = session /\ d.id.n = sequence
      /\ d = [profile |-> d.profile, id |-> d.id, by |-> d.by, content |-> d.content]
  BY DEF New
<1>1. CASE UNCHANGED <<drafts, history, completed>>
  BY <1>1 DEF DraftsAreKept, Kept, Reissued
<1>2. CASE drafts' = Saved(d) /\ history' = history \union {Begun(d)}
  <2>1. Begun(d).profile = d.profile /\ Begun(d).id = d.id /\ Begun(d).by = d.by
    BY DEF Begun
  <2>2. \A h \in history : ~ Same(h, d)
    BY <1>0 DEF Numbered, Same, TypeOK
  <2>3. SUFFICES ASSUME NEW g \in history', g.done = 0, ~ Reissued(g)'
                 PROVE  Kept(g)'
    BY DEF DraftsAreKept
  <2>4. \A h \in history : h \in history' /\ h.by # g.by => h.profile # g.profile \/ h.id # g.id
    BY <2>3 DEF Reissued
  <2>5. completed' = completed
    BY DEF Begin
  <2>6. CASE g \in history
    <3>1. Kept(g)
      BY <1>2, <2>3, <2>6 DEF DraftsAreKept, Reissued
    <3>2. g.profile # d.profile \/ g.id # d.id
      BY <1>2, <2>1, <2>2, <2>3, <2>6 DEF Reissued, Same
    <3> QED BY <1>2, <2>5, <3>1, <3>2 DEF Kept, Saved
  <2>7. CASE g = Begun(d)
    <3>1. [profile |-> g.profile, id |-> g.id, by |-> g.by, content |-> g.content] = d
      BY <1>0, <2>7 DEF Begun
    <3>2. <<g.profile, g.id>> \notin completed
      <4>1. ASSUME NEW h \in history, <<g.profile, g.id>> = <<h.profile, h.id>> PROVE FALSE
        BY <1>2, <2>1, <2>2, <2>4, <2>7, <4>1 DEF Same
      <4> QED BY <4>1 DEF Marked
    <3> QED BY <1>2, <2>5, <3>1, <3>2 DEF Kept, Saved
  <2> QED BY <1>2, <2>3, <2>6, <2>7
<1> QED BY <1>1, <1>2 DEF Begin, New

LEMMA KeptOnUpdate ==
    ASSUME TypeOK, Recorded, DraftsAreKept,
           NEW d \in Open, NEW content \in Contents, Update(d, content)
    PROVE  DraftsAreKept'
<1>1. SUFFICES ASSUME NEW g \in history', g.done = 0, ~ Reissued(g)'
               PROVE  Kept(g)'
  BY DEF DraftsAreKept
<1>2. /\ drafts' = Saved([d EXCEPT !.content = content])
      /\ history' = Rewritten(d, content)
      /\ completed' = completed
  BY DEF Update
<1>3. PICK h \in history : Same(h, g) /\ g.done = h.done
                           /\ IF Same(h, d) THEN g.content = content ELSE g = h
  BY <1>2, RewrittenParts
<1>4. [d EXCEPT !.content = content]
        = [profile |-> d.profile, id |-> d.id, by |-> d.by, content |-> content]
  <2>1. d \in [profile: Profiles, id: Ids, by: Sessions, content: Contents]
    BY OpenTyped DEF Rows
  <2> QED BY ONLY <2>1
<1>5. \A e \in history : \E f \in history' : Same(f, e)
  BY <1>2, RewrittenParts
<1>6. ~ Reissued(h)
  BY <1>1, <1>3, <1>5 DEF Reissued, Same
<1>7. Kept(h)
  BY <1>1, <1>3, <1>6 DEF DraftsAreKept
<1>8. CASE Same(h, d)
  BY <1>2, <1>3, <1>4, <1>7, <1>8 DEF Kept, Saved, Same
<1>9. CASE ~ Same(h, d)
  <2>1. PICK e \in history : Same(e, d)
    BY DEF Recorded, Known, Open
  <2>2. PICK f \in history' : Same(f, e)
    BY <1>5
  <2>3. g.profile # d.profile \/ g.id # d.id
    BY <1>1, <1>3, <1>9, <2>1, <2>2 DEF Reissued, Same
  <2> QED BY <1>2, <1>3, <1>4, <1>7, <1>9, <2>3 DEF Kept, Saved
<1> QED BY <1>8, <1>9

LEMMA KeptStep ==
    ASSUME TypeOK, Books, DraftsAreKept, [Next]_vars
    PROVE  DraftsAreKept'
<1> USE DEF Books
<1>1. CASE UNCHANGED <<drafts, completed, sequence, history, session>>
  BY <1>1 DEF DraftsAreKept, Kept, Reissued
<1>2. ASSUME NEW d \in Open, Discard(d) PROVE DraftsAreKept'
  <2>1. Known(d) /\ d.profile = profile
    BY DEF Recorded, Open
  <2> QED BY <1>2, <2>1, KeptOnClose DEF Discard
<1>3. CASE Answered /\ op.draft # None
  <2>1. Known(Of(op)) /\ op.profile = profile
    BY <1>3 DEF Recorded, UnderWay, Answered
  <2>2. Of(op) = [profile |-> profile, id |-> op.draft, by |-> op.by]
    BY <2>1 DEF Of
  <2>3. Of(op).profile = profile /\ Of(op).id = op.draft
    BY <2>2
  <2> QED BY <1>3, <2>1, <2>2, <2>3, KeptOnClose DEF Answered
<1>4. CASE Restart
  BY <1>4 DEF Restart, DraftsAreKept, Kept, Reissued
<1> QED BY <1>1, <1>2, <1>3, <1>4, KeptOnBegin, KeptOnUpdate, Bookings

(* What the user wrote and did not close is in the table as last saved,    *)
(* whatever fails, and after every restart, unless its id was given again. *)
THEOREM DraftsAlwaysKept == Spec => []DraftsAreKept
<1>1. Init => DraftsAreKept
  BY DEF Init, DraftsAreKept
<1> QED BY <1>1, TypeInit, TypeStep, BooksInit, BooksStep, KeptStep, PTL DEF Spec
=============================================================================
