-------------------------------- MODULE Drafts --------------------------------
(***************************************************************************)
(* What the user writes and destroys: the drafts of DraftStore             *)
(* (src/app/state.rs), kept in the drafts table of the cache, and the      *)
(* mutations of App (src/app/mod.rs), of which the destructive ones are    *)
(* staged until they are confirmed.                                        *)
(*                                                                         *)
(* The table outlives the process.  What says that a draft was submitted   *)
(* or discarded, and the counter its ids are made with, do not.            *)
(*                                                                         *)
(* App runs one handler at a time; op is the mutation whose answer it      *)
(* awaits.  The process may stop while it waits.                           *)
(***************************************************************************)
EXTENDS Naturals, FiniteSets

CONSTANTS
    Profiles,     \* profile ids
    Posts,        \* the posts of the feed
    Operations,   \* what a draft may be of
    Texts,        \* contents that pass DraftStore::validate
    Untitled,     \* the one a new draft begins with
    Blank,        \* a content that does not pass
    None,
    Interfaces,   \* what confirms: the key, and AppAction::Confirm, which asks nothing
    MaxDrafts,    \* bound on the drafts begun, in a session and in all
    MaxSessions   \* bound on the launches

ASSUME DraftConstants ==
    /\ Operations \subseteq {"create_post", "create_comment", "edit_post", "edit_comment"}
    /\ Untitled \in Texts
    /\ Blank \notin Texts
    /\ None \notin Posts \union [op : Operations, n : 1 .. MaxDrafts]
    /\ Interfaces \subseteq {"key", "action"}
    /\ MaxDrafts \in Nat
    /\ MaxSessions \in Nat \ {0}

VARIABLES
    profile,    \* state.active.profile
    selected,   \* the post under the selection, or None
    drafts,     \* the drafts table
    completed,  \* DraftStore.completed
    sequence,   \* DraftStore.sequence
    pending,    \* state.pending, or None
    prompt,     \* status.confirmation_pending
    op,         \* the mutation under way, or None
    session,    \* the number of the launch
    history     \* history: every draft that was begun, and what became of it

vars == <<profile, selected, drafts, completed, sequence, pending, prompt, op, session, history>>

store == <<drafts, completed, sequence, history>>
place == <<profile, selected, session>>
dialog == <<pending, prompt>>

-----------------------------------------------------------------------------
Sessions == 1 .. MaxSessions
Ids == [op: Operations, n: 1 .. MaxDrafts]
Contents == Texts \union {Blank}

(* by says in which session a draft was begun: its id does not.            *)
Rows == [profile: Profiles, id: Ids, by: Sessions, content: Contents]

(* done is the session in which the draft was submitted or discarded, or 0. *)
Entries == [profile: Profiles, id: Ids, by: Sessions, content: Contents,
            done: 0 .. MaxSessions]

(* A mutation: a post is created or deleted, or one that asks no consent   *)
(* (comments, edits, votes, subscriptions).  A file is a download to delete. *)
Destructive == {"create", "delete"}
Mutations == [kind: Destructive \union {"say", "file"}, profile: Profiles,
              draft: Ids \union {None}, by: 0 .. MaxSessions, text: Contents \union {None},
              post: Posts \union {None}]

ASSUME NoneIsNoMutation == None \notin Mutations

Draftless(kind, post) ==
    [kind |-> kind, profile |-> profile, draft |-> None, by |-> 0, text |-> None, post |-> post]

Init ==
    /\ profile \in Profiles
    /\ selected = None
    /\ drafts = {}
    /\ completed = {}
    /\ sequence = 1
    /\ pending = None
    /\ prompt = FALSE
    /\ op = None
    /\ session = 1
    /\ history = {}

(* What draft() finds: the rows of the profile that are not completed.     *)
Open == {d \in drafts : d.profile = profile /\ <<profile, d.id>> \notin completed}

(* Mutant of Saved: the id alone is the key.                               *)
SavedById(d) == {r \in drafts : r.id # d.id} \union {d}

Saved(d) == {r \in drafts : r.profile # d.profile \/ r.id # d.id} \union {d}

Same(entry, d) == entry.profile = d.profile /\ entry.id = d.id /\ entry.by = d.by

Begun(d) == [profile |-> d.profile, id |-> d.id, by |-> d.by, content |-> d.content, done |-> 0]

Rewritten(d, content) ==
    {IF Same(h, d) THEN [h EXCEPT !.content = content] ELSE h : h \in history}

Closed(d) == {IF Same(h, d) THEN [h EXCEPT !.done = session] ELSE h : h \in history}

(* Status::failure, and success: either takes the prompt away.             *)
Reported == prompt' = FALSE /\ UNCHANGED pending

-----------------------------------------------------------------------------
(* Drafts.                                                                 *)

Placeholder(operation) ==
    IF operation \in {"edit_post", "edit_comment"} THEN Blank ELSE Untitled

(* A draft that cannot be saved is begun all the same, and is nowhere.     *)
Begin(operation) ==
    /\ op = None
    /\ sequence <= MaxDrafts /\ Cardinality(history) < MaxDrafts
    /\ sequence' = sequence + 1
    /\ LET d == [profile |-> profile, id |-> [op |-> operation, n |-> sequence],
                 by |-> session, content |-> Placeholder(operation)]
       IN  \/ drafts' = Saved(d) /\ history' = history \union {Begun(d)}
           \/ UNCHANGED <<drafts, history>>
    /\ UNCHANGED <<completed, place, dialog, op>>

(* update reads the draft, which must be open, and saves it.               *)
Update(d, content) ==
    /\ op = None
    /\ d \in Open
    /\ drafts' = Saved([d EXCEPT !.content = content])
    /\ history' = Rewritten(d, content)
    /\ UNCHANGED <<completed, sequence, place, dialog, op>>

(* Mutant of Discard: no message, so that the prompt stays.                *)
DiscardSilently(d) ==
    /\ op = None
    /\ d \in Open
    /\ completed' = completed \union {<<profile, d.id>>}
    /\ history' = Closed(d)
    /\ UNCHANGED <<drafts, sequence, place, dialog, op>>

Discard(d) ==
    /\ op = None
    /\ d \in Open
    /\ completed' = completed \union {<<profile, d.id>>}
    /\ history' = Closed(d)
    /\ Reported
    /\ UNCHANGED <<drafts, sequence, place, op>>

-----------------------------------------------------------------------------
(* Mutations: start_mutation stages the destructive ones, sends the others. *)

Stage(m) ==
    /\ pending' = m
    /\ prompt' = TRUE
    /\ UNCHANGED op

Start(m) ==
    IF m.kind \in Destructive THEN Stage(m)
    ELSE op' = m /\ UNCHANGED dialog

(* What validate lets pass.                                                *)
IsValid(d) == d.content # Blank

(* A comment is for the post that is selected now, a post for its community. *)
NeedsSelection(d) == d.id.op \in {"create_post", "create_comment"}

MutationFor(d) ==
    [kind |-> IF d.id.op = "create_post" THEN "create" ELSE "say", profile |-> profile,
     draft |-> d.id, by |-> d.by, text |-> d.content, post |-> selected]

Submit(d) ==
    /\ op = None
    /\ d \in Open
    /\ IF ~ IsValid(d) \/ (NeedsSelection(d) /\ selected = None)
       THEN Reported /\ UNCHANGED op
       ELSE Start(MutationFor(d))
    /\ UNCHANGED <<store, place>>

(* reply, edit, vote, save and subscribe, of the selected post.            *)
Say ==
    /\ op = None
    /\ IF selected = None THEN Reported /\ UNCHANGED op
       ELSE Start(Draftless("say", selected))
    /\ UNCHANGED <<store, place>>

Delete ==
    /\ op = None
    /\ IF selected = None THEN Reported /\ UNCHANGED op
       ELSE Stage(Draftless("delete", selected))
    /\ UNCHANGED <<store, place>>

(* A download that is Completed: module Downloads has the rest of it.      *)
StageFile ==
    /\ op = None
    /\ Stage(Draftless("file", None))
    /\ UNCHANGED <<store, place>>

(* AppAction::Mutate, which takes back what was staged.                    *)
Mutate(kind, post) ==
    /\ op = None
    /\ IF kind \in Destructive THEN Stage(Draftless(kind, post))
       ELSE op' = Draftless(kind, post) /\ pending' = None /\ prompt' = FALSE
    /\ UNCHANGED <<store, place>>

(* Mutant of Asked: whatever is staged may be confirmed.                   *)
Staged(interface) == pending # None

(* The key, or the command, does nothing without a prompt.                 *)
Asked(interface) == pending # None /\ (interface = "key" => prompt)

Confirm(interface) ==
    /\ op = None
    /\ Asked(interface)
    /\ pending' = None
    /\ prompt' = FALSE
    /\ op' = IF pending.kind = "file" \/ pending.profile # profile THEN None ELSE pending
    /\ UNCHANGED <<store, place>>

(* Mutant of Answered: the draft is not marked.                            *)
AnsweredUnmarked ==
    /\ op # None
    /\ op' = None
    /\ Reported
    /\ history' = IF op.draft = None THEN history
                  ELSE Closed([profile |-> profile, id |-> op.draft, by |-> op.by])
    /\ UNCHANGED <<drafts, completed, sequence, place>>

(* The answer confirms the mutation.  The post that was deleted leaves the *)
(* feed, and the index of the selection then stands for another.           *)
Answered ==
    /\ op # None
    /\ op' = None
    /\ Reported
    /\ IF op.draft = None THEN UNCHANGED <<completed, history>>
       ELSE /\ completed' = completed \union {<<profile, op.draft>>}
            /\ history' = Closed([profile |-> profile, id |-> op.draft, by |-> op.by])
    /\ IF op.kind = "delete" THEN selected' \in (Posts \ {op.post}) \union {None}
       ELSE UNCHANGED selected
    /\ UNCHANGED <<drafts, sequence, profile, session>>

(* It does not, or it is an error: refused, or lost.                       *)
Refused ==
    /\ op # None
    /\ op' = None
    /\ Reported
    /\ UNCHANGED <<store, place>>

-----------------------------------------------------------------------------
(* What else happens to the prompt and to what it is about.                *)

(* cancel_pending, and prepare_action before an action that goes out.      *)
Cancel ==
    /\ op = None
    /\ pending' = None
    /\ prompt' = FALSE
    /\ UNCHANGED <<store, place, op>>

(* Any other handler ends in a message, also one that applies the answer   *)
(* of a read in the background (with its feed): it takes the prompt, and   *)
(* leaves what is staged.                                                  *)
Report ==
    /\ op = None
    /\ Reported
    /\ selected' \in Posts \union {None}
    /\ UNCHANGED <<store, profile, session, op>>

(* The selection moves, or a stale feed is put under it.                   *)
Select(post) ==
    /\ op = None
    /\ selected' = post
    /\ UNCHANGED <<store, profile, session, dialog, op>>

(* switch_context: a feed may be painted, with nothing selected.           *)
Switch(p) ==
    /\ op = None
    /\ profile' = p
    /\ pending' = None
    /\ prompt' = FALSE
    /\ selected' = None
    /\ UNCHANGED <<store, session, op>>

(* The process stops, wherever it is, and is launched again.               *)
Restart ==
    /\ session < MaxSessions
    /\ session' = session + 1
    /\ profile' \in Profiles
    /\ selected' = None
    /\ completed' = {}
    /\ sequence' = 1
    /\ pending' = None
    /\ prompt' = FALSE
    /\ op' = None
    /\ UNCHANGED <<drafts, history>>

Next ==
    \/ \E operation \in Operations : Begin(operation)
    \/ \E d \in Open : (\E content \in Contents : Update(d, content)) \/ Discard(d) \/ Submit(d)
    \/ Say \/ Delete \/ StageFile
    \/ \E kind \in Destructive \union {"say"}, post \in Posts : Mutate(kind, post)
    \/ \E interface \in Interfaces : Confirm(interface)
    \/ Cancel
    \/ Answered \/ Refused
    \/ Report
    \/ \E post \in Posts \union {None} : Select(post)
    \/ \E p \in Profiles : Switch(p)
    \/ Restart

Spec == Init /\ [][Next]_vars

-----------------------------------------------------------------------------
TypeOK ==
    /\ profile \in Profiles
    /\ selected \in Posts \union {None}
    /\ drafts \subseteq Rows
    /\ completed \subseteq Profiles \X Ids
    /\ sequence \in 1 .. MaxDrafts + 1
    /\ pending \in Mutations \union {None}
    /\ prompt \in BOOLEAN
    /\ op \in Mutations \union {None}
    /\ session \in Sessions
    /\ history \subseteq Entries

(* While the user is asked, there is something to answer: what is staged   *)
(* is of the profile in use, and the draft it comes from was neither sent  *)
(* nor discarded in the meantime (confirm_pending,                         *)
(* src/src/app/mod.rs:2646, checks only the first).                        *)
PromptIsLive ==
    prompt => /\ pending # None
              /\ pending.profile = profile
              /\ pending.draft # None => <<profile, pending.draft>> \notin completed

(* A draft that the user has written and neither submitted nor discarded   *)
(* is there, with what was last saved in it, after every failure, switch   *)
(* and restart, as long as its id has been given out only once: "the draft *)
(* must survive an application restart on the same cache"                  *)
(* (src/tests/smoke.rs:410).                                               *)
Kept(h) ==
    /\ [profile |-> h.profile, id |-> h.id, by |-> h.by, content |-> h.content] \in drafts
    /\ <<h.profile, h.id>> \notin completed

Reissued(h) == \E g \in history : g.profile = h.profile /\ g.id = h.id /\ g.by # h.by

DraftsAreKept == \A h \in history : h.done = 0 /\ ~ Reissued(h) => Kept(h)

(* The same for every draft.  It does not hold: the counter begins at 1 in *)
(* every session (src/src/app/state.rs:425), and the first draft of a kind *)
(* takes the id, and the row, of the one a former session left.            *)
EveryDraftIsKept == \A h \in history : h.done = 0 => Kept(h)

(* Nothing is created or deleted on the server unless the user is asked at *)
(* that moment, and about that very mutation: "destructive_delete_requires *)
(* _confirmation_before_api_call" (src/tests/application.rs:221).  It is   *)
(* so of the key; AppAction::Confirm sends what a report left staged.      *)
ConsentComesFirst ==
    [][op = None /\ op' # None /\ op'.kind \in Destructive
            => prompt /\ pending = op']_vars

(* What was confirmed, or discarded, is not sent (again) while the program *)
(* runs, also when it was staged before ("successful_draft_stays_completed *)
(* _after_switching_profiles", src/tests/application.rs:2907).  It is so   *)
(* of the key; AppAction::Confirm sends a draft that was discarded after   *)
(* it was staged.                                                          *)
ClosedStaysUnsent ==
    [][op = None /\ op' # None /\ op'.draft # None
            => \A h \in history :
                 Same(h, [profile |-> profile, id |-> op'.draft, by |-> op'.by])
                    => h.done # session]_vars

(* A draft is submitted as it stands when it is marked.  It does not hold: *)
(* what was staged is sent, and an edit made since then goes with the      *)
(* draft (src/src/app/mod.rs:2684).                                        *)
SubmittedAsWritten ==
    [][\A h \in history : h.done = 0 /\ op # None /\ op.draft # None
            /\ Same(h, [profile |-> profile, id |-> op.draft, by |-> op.by])
            /\ <<profile, op.draft>> \in completed' \ completed
            => h.content = op.text]_vars
=============================================================================
