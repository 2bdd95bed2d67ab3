# A TLA+ model of lemex

lemex is a terminal client for Lemmy, driven by Vim-like keys. Most of what is
hard in it is concurrency on one screen: reads run as detached tokio tasks,
cached pages are painted before fresh ones arrive, the user cancels, closes,
retries and switches accounts while answers are on their way, and downloads
race with the keys that control them. These modules model that core from the
source under `src/src`. TLC checks them on small instances, and TLAPS proves
every safety property that a run finds to hold for every value of the constants;
liveness is left to TLC.

Line numbers below and in the modules are those of `src/src/app/mod.rs` unless
another file is named.

## 1. The system: an inventory

**Event loop** (63-248). State: the App, owned either by the loop or by the one
spawned action task, a FIFO of queued actions, the terminal. Operations: take
an input event, start the next queued action, complete an action, tick every
100 ms while idle. A tick polls the feed refresh, then the mailbox, then the
downloads. Because the App moves into the task, no two handlers run at the same
time, but a handler is suspended at each `await` while detached tasks run on
other threads. Hard: input queues behind a slow action; ticks stop meanwhile;
an error of one action ends the loop. Correct when: every queued action runs
once, in order, and the loop always comes back to its tick.

**Request pipeline** (415-483, 2810-2836). State: `next_generation`, `requests`
(identity -> token), `in_flight` (identity -> join handle), the mailbox
`completed`. Operations: begin, detach, deliver, drain, drop, cancel. Every
read on the screen goes through it, and the tick drains it. Hard: an abort
takes effect at the next `await` only, a result may already be in the mailbox,
tokens hold no session. Correct when: only the answer to the last, not given
up, request of an identity lands; none crosses a login, logout or switch;
handles say truthfully what is still coming; what is awaited lands.

**Feed refresh and reconciliation** (`src/src/app/repository.rs`, 1393-1437,
2730-2747). State: a cache row and a refresh state per feed, context epochs,
the confirmed and deleted posts, background tasks. Operations: hit, miss,
background refresh, completion, page flip, mutation, invalidation. Interacts
with the cache (rows), the App (tokens, the tick) and the server. Hard:
refreshes answer out of order and after a logout; a mutation is confirmed
between a read and a write of the same row; a page read is aborted while its
write is in the blocking pool. Correct when: what was confirmed stays
confirmed, newer pages are not replaced by older ones, nothing is written for a
session that ended, and every wait ends.

**Views** (588-776, 1058-1223, 1439-1600, 2090-2166, 2837-3134,
`src/src/app/state.rs`). State: the stack of modals, the feed on the screen, the
selection, the loading flag. Operations: open, cover, refresh, close, navigate,
move, delete, and the arms of `apply_api_result`. Hard: answers meet a stack
that changed since they were asked for. Correct when: answers go where they
belong, closed things stay closed, actions act on what is in sight.

**Pagination** (1970-2077, 2869-2916). State: `feed_query.page`, `next_page`,
`page_history`, the page on the screen. Operations: flip forward and back, the
two answers of a flip (cached and fresh), failure, change of feed, Esc. Hard:
the cached answer moves the cursor, then the fresh one fails. Correct when: the
history is the way back and the cursor is that of the page in sight.

**Media downloads** (`src/src/media/download.rs`, 2560-2716). State: the
history of records, requests, cancel flags, join handles, prompt senders, the
disk. Operations: start, run, cancel, retry, answer a collision prompt, staged
delete, shutdown. Hard: an aborted attempt and its successor share record and
files; file names are chosen before they are taken. Correct when: no user file
is lost without consent, no temporary file stays, every attempt can be stopped,
every prompt answered, every download ends.

**Staged confirmations** (2608-2729). State: `state.pending` and
`status.confirmation_pending`. Operations: stage, confirm, cancel, and every
report, which clears the second and leaves the first. Hard: time passes between
the prompt and its answer. Correct when: nothing is destroyed or published that
the user was not asked about at that moment, and what is asked about is still
there.

**Cache store and entity rows** (`src/src/cache`, 410-735 of
`src/src/app/repository.rs`). State: the table of rows with its size cap, the
mutex of the connection, the lock `cache_writes`, the confirmed and deleted
posts. Operations: upsert with eviction by synchronization time, the record of a
fetched post, of comments, of communities, the patch of each after a mutation.
Interacts with the detached reads, which are aborted at any time, and with
Tokio's blocking pool, which goes on when they are. Hard: a write outlives its
task and the lock that task held; a row read before a mutation is written back
after it; a patched row keeps its old time and may be evicted by its own write;
the process stops between the statements of one write. Correct when: an edit
that was reported stays in the row after its session forgot it, no mutation
undoes what a read recorded, and a written row goes only for a reason.

**Profiles and sessions** (962-1018, 1225-1376, `src/src/profiles`,
`src/src/config`, `src/src/main.rs`). State: the profiles of the configuration
file, the session of each in the keyring of the system, the context in use.
Operations: launch, login, logout, switch, create, delete, `set`. Hard: file and
keyring change one after the other and each may fail alone; the process may stop
in between; a login gives up after 30 seconds while the blocking write of the
keyring goes on. Correct when: no profile gets the session of another instance,
a session that was given up does not come back, the profile in use is one that
the next launch finds.

**Drafts and mutations** (400-569 of `src/src/app/state.rs`, 506-560, 1853-1956,
2593-2781, 2973-3067, 3210-3264). State: the table of drafts in the cache, which
outlives the process; the counter of their ids and the marks of those that were
submitted or discarded, which do not; the mutation whose answer is awaited.
Operations: begin, save, discard, submit, reply, edit, vote, subscribe, delete,
the answers. Hard: a submission is staged on one state of the draft and
confirmed on another; saves fail silently; the process stops anywhere. Correct
when: a draft is submitted at most once and never lost before it is confirmed.

**HTTP adapter** (`src/src/api/http.rs`). State: one call: its attempt, its
three deadlines (connection, attempt with its body, the whole read), the request
on the wire. Operations: send, pause and try again (reads only, at most three
attempts, after 20 ms and 40 ms of the client's own choice: a `Retry-After` is
not read), follow a redirect to the same origin, read a bounded body, make a
result or an error of it. Hard: the answer of a mutation that was done is lost,
cut off or garbled; a redirect repeats a POST; the total deadline strikes in a
pause. Correct when: a mutation is done at most once, is never called failed
when it was done, and every call keeps its budget and ends.

**Comment tree and thread cursor** (`src/src/app/thread.rs`, 702-861, 3270-3336).
State: the comments of the open thread, the collapsed ones, the selected one, the
scroll offset. Operations: build the tree from the flat list, fold, move,
refresh, create and delete comments. Hard: the cursor is an id, whose comment
may be gone or hidden when the next key moves it; parents may be missing.
Correct when: every comment has one row in its place, a fold hides exactly its
replies, and a key brings the cursor back into sight.

**Input engine** (`src/src/input`). State: the key table, the mode, the count,
the unfinished sequence, the line. Operations: one per kind of mode. It edits its
line at once; the App edits the visible line when the queued command runs. Hard:
two modes and two lines that meet only through the queue. Correct when: what is
seen is what is submitted, and no count or half sequence survives a change of
mode. There is no timeout: a sequence waits for its next key.

**Rendering, help, configuration parsing, MIME lookups, fixtures, entry
point**: pure conversions or wiring.

## 2. The plan

1. `Requests`, the core on which every read depends, and its abstract
   specification `ReadContract`. Modelled, proved.
2. `Downloads`, the component whose failure loses files. Modelled, proved.
3. `FeedRefresh`. Modelled, proved.
4. `Reads`, which extends `Requests` with the views. Modelled; proved that it runs
   the pipeline, so that the theorems of the pipeline hold in it, and that closed
   threads stay closed.
5. `Pagination`. Modelled, proved.
6. `InputEngine` and `Terminal`, the engine and the event loop that composes it
   with the App. Modelled, proved.
7. `Sessions`. Modelled, proved.
8. `CommentTree` and `ThreadView` over it. Modelled, proved.
9. `Drafts`, with the confirmations. Modelled, proved.
10. `CacheStore` (eviction against the cap) under `EntityRows` (posts, comments
    and communities in the cache). Modelled, proved. Left: the rows of the feeds
    in the same table, which composes `FeedRefresh` with `EntityRows`.
11. `HttpCall` (one call of the adapter). Modelled, proved.

What is left to prove besides: type correctness of `Terminal`; that the abstract
reads of `ReadContract` are what `Reads` shows; the liveness properties, which the
prover cannot reach.

## 3. The modules

| module | models | extended or instantiated by |
|---|---|---|
| `Requests` | the request pipeline | `Reads`, `MCRequests` |
| `ReadContract` | what the pipeline promises to the view | `Requests` (refinement mapping `Contract`) |
| `Reads` | modals, selection, loading flag, over the pipeline | `ReadsProofs`, `MCReads` |
| `HttpCall` | one call of the HTTP adapter | `ReadsProofs`, `MCHttpCall` |
| `CommentTree` | rows, reply counts, hidden rows | `ThreadView` |
| `ThreadView` | the open thread: comments, folds, cursor, scroll | `ReadsProofs`, `MCThreadView` |
| `ReadsProofs` | the proofs about a read, from the screen to the wire, and about the thread it fills | |
| `Vectors` | `Vec::retain` | `Reads`, `CommentTree` |
| `Downloads` | the download manager and its panel | `DownloadsProofs`, `MCDownloads` |
| `DownloadsProofs` | the proofs | |
| `FeedRefresh` | rows, refreshes, flips, mutations | `FeedRefreshProofs`, `MCFeedRefresh` |
| `FeedRefreshProofs` | the proofs | |
| `CacheStore` | the table of rows, its upsert and eviction | `EntityRows` |
| `EntityRows` | the rows of a post, its comments, communities | `EntityRowsProofs`, `MCEntityRows` |
| `EntityRowsProofs` | the proofs | |
| `Pagination` | cursors, history, the page in sight | `PaginationProofs`, `MCPagination` |
| `PaginationProofs` | the proofs | |
| `InputEngine` | keys, modes, counts, sequences, the line | `Terminal` |
| `Terminal` | the event loop, its queue, the App's mode and compose line | `TerminalProofs`, `MCTerminal` |
| `TerminalProofs` | the proofs | |
| `Drafts` | the table of drafts, mutations, staged confirmations | `DraftsProofs`, `MCDrafts` |
| `DraftsProofs` | the proofs | |
| `Sessions` | file, keyring and session under the profile commands | `SessionsProofs`, `MCSessions` |
| `SessionsProofs` | the proofs | |

An operator whose comment begins with "Mutant of" is a plausible bug in the
definition that follows it. Put in the place of that definition it must break
a property; the pairs are in `PROJECT.json`. As `ReadsProofs` extends four
components at once, their definitions have names of their own: `Spec` is that of
`Requests`, `ViewSpec` of `Reads`, `CallSpec` of `HttpCall` and `ThreadSpec` of
`ThreadView`.

**Requests.** `requests` and `in_flight` are the two tables of the App, reduced
to generations; `tasks` are the detached futures and `completed` the mailbox. A
task is `fetching` while it has an await left at which an abort can stop it,
and `finishing` afterwards. `BeginRead` is `begin_request` with `detach`,
`BeginInline` a request awaited by its handler, `PollCompleted` one result of
`poll_completed`, `Drop` the closing of a modal, `Forget` a confirmed deletion,
`ChangeContext` a login, logout, switch or creation of a profile. `epoch`
counts context changes; the code has no such counter for its reads, which is
what makes `LiveReadsAreOfThisContext` worth checking. `landed` is the last
result that passed the guard.

**ReadContract.** Reads are asked for and given up; at most the last one asked
for of each identity, under the same context, is shown. No tasks, aborts or mailbox.
`Contract` maps the tokens to `asked` and the last landed result to `shown`.

**Downloads.** Every download of the model asks for the same file, which is
where collisions are. A step of an attempt ends where `run_download` touches
shared state: the flag, the record, the disk, the prompt. The App's operations
are split where they await, with `op` saying where the App is. Contents are who
wrote them: the user, or a download. The user and other programs make files of
their own where there is none, before a download and at any moment of it
(`UserSaves`); `since` is a history variable, the number of attempts made before a
file was. Bytes, MIME types and names are left out.

**FeedRefresh.** One post is followed through the server, the row of the cache,
the confirmed and deleted maps and the screen; a page is the version of the
post it shows. What the code does under `cache_writes` is one step, and the
handlers of the App are split at their awaits. Background refreshes are never
aborted (the code drops their handles); flips are, and the write of an
aborted flip goes on in the blocking pool. The reconciliation appends a
confirmed post to pages that lack it, as the code does. A mutation that succeeds
with no post in its answer (that of a comment, of a subscription, or a success
whose post is missing) confirms nothing and writes the home row again
(`HomeIsPatched`).

**CacheStore and EntityRows.** `CacheStore` is the table: `rows` by key and
`order`, their rowids; `Upsert` and `DeleteOldest` are one SQL statement each, and
a deletion takes one place out of `order`.
`EntityRows` extends it with who writes. A read is a detached task: `fetching`,
`fetched`, `queued` with the blocking pool, `storing` while it holds the
connection. An abort removes the first two kinds and leaves the others as
orphans (`aborted`), which hold no lock. `op` is the mutation that the App awaits,
row after row of `todo`: `PatchRead` and `PatchWrite` are the two accesses of
`reconcile_entity_rows`, and `seen` is what the first of them found. The server
does what a mutation asks and mutate takes the lock in one step: what is read in
between is as it was before or will be after. A success whose answer lacks the
post, or the comment, patches nothing and is reported done all the same; it
promises nothing. `promised`, `spoiled` and
`overtaken` are history variables. A post is its version, comments are with or
without the user's own, and of a list of communities only time and staleness
are kept.

**HttpCall.** One call, with the time since it began (`clock`) and since its
attempt began (`since`), in ticks: a timer fires when it is due, before time goes
on. `wire` counts the POSTs that are with the server, `applied` how often it did
what they ask; a server may do so long after the client gave up
(`ServeUnheard`). An answer is a class of status and a class of body; `Parsed` is
`parse_response` and `Decoded` what each operation makes of the JSON. A login is a
mutation followed by a read, `enrich`. What is assumed of a server is in
`Truthful`: it does not refuse or redirect what it did, and a mutation that a
redirect turned into a GET gets no JSON that reads as success.

**Reads.** It extends `Requests`: each command of `dispatch_command` and
`submit_line` that opens, covers or closes a modal, with its step of the pipeline
(`BeginRead`, `Drop`, ...). `Applied` is what `apply_api_result` does once the
guard has let an answer pass, one operator per arm. Whether a cached copy exists is left open at each read. `open_selected`
is two steps, its two reads. `gone` records how the threads of a post last came
off the screen. Flips, the downloads panel and mutations other than the deletion
of a post are not in this module.

**Pagination.** As `Requests` proves that a superseded or cancelled answer
never lands, the module keeps only the answer that may still land. A cursor is a
page number. `before` and `orderly` are history variables: what a failed flip
has to restore, and whether the user let each flip finish and left feeds on
their first page.

**InputEngine and Terminal.** Keys and command names are names; a line is a
sequence of keys. `Handle` is `InputEngine::handle` with the queueing of its
command. `Key`, `StartAction`, `StartTick` and `EndLoop` are the branches of
`run_terminal_async`, in the order of the code: the queue first, then the end,
then the next event. An action is two steps, its start and its end, with keys in
between; `running` is a sequence of at most one action, so that what waits is one
sequence with the queue. A digit that counts ends a waiting sequence and goes on
with the count before it, as in the code. Of what an action does, `Terminal` follows the App's mode, its compose
line and the quit flag, and one detached read, that of a post, because its
answer changes the mode. Resizes and the panel of downloads are left out.

**Sessions.** A session is known by the instance that issued it: mixing up the
sessions of two profiles matters when their instances differ. A command is a
record `busy` with a phase; each access to file or keyring is a step, which may
fail, and `Stop` may come at any time. `late` holds the writes of logins that
timed out. `out` and `stray` are history variables: what was reported without a
session, and what was written late or for a context the file does not have: a
save that fails past its rename (`write_atomic` in `src/src/config/paths.rs`) leaves
the App on its old context, while the file names another instance for the profile
or has lost it, and a login may follow.

**Drafts.** `drafts` is the table: its rows are found by profile and id, and an
id is the operation and a number from `sequence`. `by`, the session that began a
draft, is in no id of the code; the module keeps it to tell apart two drafts
that share one. `history` is a history variable: every draft that reached the
table, its last saved content and the session that closed it. Contents are
those that pass `DraftStore::validate` or one that does not. `Stage`, `Start`
and `Confirm` are `start_mutation` and `confirm_pending`; `op` is the mutation
being awaited, and `Answered` and `Refused` are the two outcomes of
`apply_api_result`. The terminal has no key for drafts: their operations are
methods of `AppState` and actions of `AppAction` that a caller of the library
raises, as the tests do. `Interfaces` says by what a confirmation may come: the
key, which needs a prompt, or `AppAction::Confirm`, which needs only something
staged. Replies, edits, votes, saves and subscriptions are one
action, `Say`: they need a selection and no consent. The cache of the feed is
not here, only whether something is selected.

**CommentTree and ThreadView.** `Visit` is the recursion of `walk`, as a function
from depths to the rows of each comment at that depth: a tree of n comments has
no more than n depths. `Climb` follows the parent links, as `is_hidden` and
`nearest_visible_ancestor` do. `RowsAreTheThread` and `FoldsHideReplies` compare the
rows with what the paths alone say: `Line`, the least set that holds a comment
and, with each, its parent. The depth of a row is a u8. `ThreadView` has one
action per key and per answer that touches an open thread; `focused` is
`thread.selected`. Text is its number of lines, at one width, twice over: as the
App counts them (`Lines`, `HeaderLines`), which is by characters and an estimate,
and as the renderer draws them (`Drawn`, `HeaderDrawn`), which breaks at words.
`HeaderOf` is the row the App takes a header to be on, `DrawnAt` the row it is drawn
on, and `ShownScroll` what the renderer makes of the offset: it holds it to the
number of its lines before wrapping (render.rs:339-341). `ThreadConstants` assumes that paths do not run in
circles: every set of comments has one whose parent is not in it. The code takes
the paths as the server sends them; section 5 says what it makes of a circle.

## 4. What is checked

| run | shows | instance |
|---|---|---|
| `requests` | `HandleMeansComing`; `LiveReadsAreOfThisContext`; the pipeline implements `ReadContract`; `AwaitedReadLands` under fairness | 3 identities in 2 groups, 2 profiles, 3 reads, 2 context changes |
| `downloads` | types; `TempsAreCleaned`, `EveryAttemptIsHeld`, `PromptsAreAnswerable`, `UserFilesAreKept`, `FoundFilesAreSafe`; `DownloadsConclude` under fairness | 2 downloads or 1 and its retry, all policies; a user's file, made at any time at any of 3 names |
| `feed_refresh` | `HomeRowIsReconciled`, `NewerFetchStays`, `RowsAreOfThisContext`, `FeedIsReconciled`; `RefreshLands` under fairness | the home feed and its next page, which is flipped to and evicted; 2 requests, 2 edits, 1 logout |
| `entity_rows` | `EditsOutliveTheSession`, `NoUpdateIsLost`, `FreshRowSurvives` | a post, its comments, 1 list; room for two rows, 2 edits, 1 read at a time, 2 seconds |
| `reads` | `ClosedThreadsStayClosed` | 2 posts, 2 feeds, 3 requests, 1 context change |
| `pages` | `NextContinuesShown`, `HistoryIsThePath`, `CursorShowsThePage` | 2 feeds of 4 pages, any page cached |
| `http` | `DoneAtMostOnce`, `ReportIsTrue`, `KeepsItsBudget`; `CallsEnd` under fairness | 3 attempts; deadlines of 4, 8 and 12 ticks, pauses of 1 and 2 |
| `downloads_stale` (violated) | `DeletesOnlyDownloads` with a retry | 1 download, 2 attempts |
| `keys` | `LineIsShown`, `CountsEnd`; `QuitEnds` under fairness | 2 waiting commands, lines of 2, counts to 2, one rebound key, 2 completions |
| `sessions` | `StoredFitsFile`, `LoggedOutStaysOut`, `ActiveIsConfigured` | 2 profiles, 3 instances, 2 late writes |
| `drafts` | `PromptIsLive`, `DraftsAreKept`, `ConsentComesFirst`, `ClosedStaysUnsent` | 2 profiles, 2 drafts of 3 kinds, 1 post, 1 restart |
| `thread` | `RowsAreTheThread`, `FoldsHideReplies`, `CursorIsFollowed` | 3 comments in 3 shapes, 2 heights, one text of 3 lines that is drawn in 4 |

Every module of a component states its types (`TypeOK`, or `ViewTypeOK`, `CallTypeOK`,
`ThreadTypeOK`). All but that of `Terminal` are theorems (section 6), and that of
`Downloads` is in its run too; that of `Terminal` holds in its instance, and need
only be named in the configuration.

*Bounds and why they are enough.* The races of the pipeline are between a read,
its successor and the straggler of a predecessor of the same identity: three
generations. A context change needs one read before it and one after it. The
third identity makes an abort that hits the wrong task visible. The races of
downloads are between one attempt and the next, between two downloads of one
name, or between one and the user, whose one file may come before it, during it
or never. With two attempts and that file three names are enough for `uniquify`. The
reconciliation needs two fetches around an edit, and a second edit to tell a
lost one from an old one. In the cache, a version that was promised lies between
two edits, the older fetched and the newer not yet: three versions. A row that
was edited takes two of the two bytes, so that its own write evicts the others,
and one of them may be of the same second. One read and one mutation meet in the
table; a second read there (with two versions) gave nothing new. Three attempts
are the code's `MAX_READ_ATTEMPTS`, and the deadlines are such that two
connections that time out fit the whole and the third does not, and that each
timer may be the first to fire. Two posts are what it takes to mix a thread; three
requests are one refresh and the two reads of a thread, or, as a profile
switch may paint a cached feed, the two reads and one navigation. A page
history needs pages on both sides of the current one. A line of two keys can be
typed, erased and completed past a choice, and with two commands waiting behind
one that runs, text, Enter and the next `:` are in the queue together; a count
of two digits saturates, and a rebound sequence that begins with a digit can wait while there
is a count. Two profiles make "the other one", two instances a
session that does not fit, the third is the one the file refuses; two late
writes can race each other. Three comments make a chain (a fold above a fold), a
promoted orphan, and siblings to lose the order of; of two heights one shows
them all and one does not. The comment whose text is drawn in more rows than the
App counts is above the cursor in some shapes and orders, below it in others.
Two drafts can share an id across profiles or across
a restart, and one may be staged while the other changes; one kind publishes,
one needs a selection, one neither. `MaxGeneration`,
`MaxEpoch`, `MaxVersion`, `MaxDownloads`, `MaxAttempts`, `MaxRetries`,
`MaxHistory`, `MaxSuffix`, `MaxCount`, `MaxLine`, `MaxQueue`, `MaxLate`, `MaxScroll`, `MaxDrafts`,
`MaxSessions`, `MaxReads` and `MaxClock` bound what grows, in guards (a call that
keeps its deadlines never meets the `MaxClock` of `HttpCall`); `MaxModals` and the policies are the
code's own. `Symmetry` permutes the posts of `Reads`, in safety runs only.

`CHECK_DEADLOCK FALSE` is set for downloads, where shutdown really ends
everything, for the terminal, whose loop ends, for HTTP calls, which end, and for
sessions, where a file without profiles cannot be launched (section 5).

*Restrictions of single runs.* `TempsAreCleaned` and `UserFilesAreKept` speak of
downloads that were not retried: of retried ones the first may fail until the
next start, which cleans up, and the second does fail (`downloads_stale`); the
second leaves out, besides, a file that came when another download's deletion had
cleared the name. `FoundFilesAreSafe` speaks of files that were there when the
attempt was made and looked; those made later are not safe
(`ReplacesOnlyByConsent`, section 5).
`EditsOutliveTheSession` excepts a post whose write failed or outlived its task
(`spoiled`), and `NoUpdateIsLost` a row that such a write overtook (`overtaken`).
`FreshRowSurvives` speaks of the rows that a read under the lock and the deletion
of the post record as of now, and excepts a tie within a second; of the rows that
are patched or written late nothing of the kind holds (`WrittenRowSurvives`, section 5).
`StoredFitsFile` and `LoggedOutStaysOut` except the entries in `stray`: those a
timed-out login writes late, and those of a login on time in a context the file
does not have, after a save that failed past its rename.
`CountsEnd`, which includes `NothingLeaks`, excepts the digits of a count
(`DiscardedCountsEnd`, section 5). `CursorIsFollowed` says that the
header is within the viewport as the App counts its lines, and that it is really
displayed where no text above it is wrapped: with wrapped text the two differ
(section 5).
`HomeRowIsReconciled` is about a home feed that no flip writes.
`RefreshLands` excepts feeds that were evicted (`evicted`): then a completion may
find no row, and the wait does not end by itself. `RowsAreOfThisContext` and
`NewerFetchStays` speak of the feeds that no flip writes, as flips break the
first (section 5). `DraftsAreKept` speaks of drafts whose id was not given out
again (section 5). `HistoryIsThePath` and
`CursorShowsThePage` speak of an orderly user: the history variable `orderly` of
`Pagination` says what disorder is, and section 5 what it leads to.

*Fairness.* `HttpCall` assumes that time passes and that the client takes the
steps it waits for nobody to take (`ClientGoesOn`): nothing is asked of the server
or of the network, not even that a connection succeeds or breaks. Detached tasks, background refreshes and attempts are weakly fair:
the HTTP client has a total timeout, so a fetch ends, and the runtime polls
what is ready. The tick is weakly fair because the loop ticks every 100 ms
whenever it is idle, and the handler the App is in is, because its awaits end
in the same way. Nothing obliges the user: no command is fair, and a prompt may
wait for ever. In `Terminal` the start, the end of an action and the end of the
loop are weakly fair, for the same reasons; as keys are looked at while an
action runs, a user who types for ever keeps the queue full, and `QuitEnds`
excepts that. `EntityRows`, `Sessions` and `Drafts` have no fairness: store, instance, keyring
and user may be silent for ever.

## 5. What the code does against its word

The run that TLC finds violated; `PROJECT.json` has the quotes and lines:

- `downloads_stale`: an aborted attempt completes a record that a retry has just
  reset to the user's file, whose confirmed deletion then removes that file.

Statements of the modules which no run lists and which the code does not keep
either; named in the `INVARIANT` or `PROPERTY` of a configuration of the
component, each gives its trace:

- `ReplacesOnlyByConsent` (`Downloads`): whether the target exists is asked when a
  download is started or retried (download.rs:349, 450), and the rename that ends
  it (778) replaces what is there by then. A file that the user or another program
  makes meanwhile goes without a question, under the policies that ask or rename;
  download.rs:57 says "Ask the user before overwriting", and
  `src/docs/media.md:139` that collisions require a decision.
- `BottomIsReached` (`ThreadView`): the offset is held to the lines before wrapping
  (render.rs:339-341), so that the end of a thread with a wrapped comment is out of
  reach of any Ctrl-d, not one Ctrl-d further as the comment there says. The same
  clamp undoes the anchor of a move to a comment below a wrapped one, and that of
  the next moves too: the comment on `keep_thread_cursor_visible` (3297) has the row
  off-screen "until the next move".
- `WrittenRowSurvives` (`EntityRows`): store.rs:288 says that the row just written is
  the newest. A row written back with the time of its fetch is not, and its own
  write may evict it; so may a tie within a second.
- `DiscardedCountsEnd` (`Terminal`, with `MaxCount = 99`): a digit that breaks off a
  waiting sequence keeps the count before it: `2g5j` moves 25 rows, although a
  discarded sequence "also abandons any accumulated count" (engine.rs:219).
- `EveryFetchHasItsHandle` (`Requests`): a straggler drained by `poll_completed`
  removes the handle of its successor, which nothing can abort any more. The
  guard still keeps late answers out, so the harm is one fetch that runs on.
- `CommentsAreOfThePost` (`Reads`, 4 requests; 2938): a post is shown with the
  comments of another: open `a`, open `b` from it, go back to `a` with `gg`, and
  the answer of `a` arrives.
- `SearchRunsAsSearch` (`Terminal`; 2952): a post lands while a search is typed
  after `/`; the App is in Normal mode when Enter comes, and the text runs as a
  command.
- `TopThreadIsSelected` (`Reads`): `gg`, `G` and a refresh move the selection away
  from the thread in sight, and vote, reply and delete act on the selection.
- `FailedPreviousRestores` (`Pagination`): a failed `<` stays on the cached page,
  with its cursor in the history as well.
- `FlipIsReconciled` (`FeedRefresh`): a flip brings a deleted post back to the
  screen, because the page goes to the view as the server sent it.
- `FailedLoginLeavesStore` (`Sessions`): the write of a login that timed out still
  reaches the keyring, perhaps after a logout; `src/src/profiles/mod.rs:38` says
  that a failure leaves the credential store untouched.
- `NextLaunchWorks` (`Sessions`): when the first run cannot write its starter
  file, a later `set` writes one without profiles, which no launch accepts.
- `CursorIsShown` (`ThreadView`, `src/src/app/state.rs:119`): when the comments go
  and come back, a fold may lie above the selected one, which is hidden then.
- `CancelledLeavesNoFile`, `UniqueNamesDiffer` (`Downloads`): a cancel during the
  final rename leaves the file of a cancelled download; two downloads choose one
  unique name. `PromptsAreObservable` fails with a retry: the tail of an aborted
  attempt moves the record on while the new attempt waits for its answer.
- `CompletionIsARefresh` (`FeedRefresh`): a mutation between a cache hit and the
  tick makes an old page the result of the refresh. `RowsAreOfThisContext` fails
  with flips: the write of an aborted flip goes on after a logout.
- `LoadingMeansReading` (`Reads`): closing the picker leaves the loading flag.
  `ThreadIsOfThisFeed` (needs 4 requests): `/` over a thread changes the feed
  under it. `DismissedThreadsStayDismissed` (4 requests): a dismissed thread
  comes back with its answer, because its tokens stay. `AnswersOnlyFill`: the
  answer of a thread under help opens a second thread over help.
  `OpenPickerGetsItsList`: the list is thrown away while help covers its picker.
- `EveryDraftIsKept` (`Drafts`): the counter of ids begins at 1 in every session
  (`src/src/app/state.rs:425`). The first draft of a kind begun after a restart
  takes the id, and so the row, of one that an earlier session left, and its
  text is gone. The marks of submitted drafts are in memory as well: after a
  restart a submitted draft is open again and can be submitted twice.
- `ConsentComesFirst` and `ClosedStaysUnsent` (`Drafts`) with `"action"` in
  `Interfaces`: a report or a discard clears the prompt and leaves
  `state.pending`, and `AppAction::Confirm`, which the tests use for consent, then
  sends it, a discarded draft included. The run has the key alone.
- `SubmittedAsWritten` (`Drafts`): a draft edited after its submission was staged
  is sent as it was, marked as submitted, and its edit is never sent (2684).
- `Pagination` without `orderly`: a second `>` before the first answers puts a
  page into the history twice, Esc leaves the page given up in it, and a change
  of feed keeps the cursors of the old feed.

Observations that the modules reproduce and no definition states:

- The App's mode stays Visual or Insert after Esc, as `Back` does
  not touch it. The compose line stays after a command that is empty or refused
  because of a modal. Actions queued behind the quit still run.
- An `http://` profile made over an existing one loses that profile its session
  before the save refuses it. A deletion whose save fails has deleted the
  session. A keyring that hangs blocks logout, switch and deletion, which have
  no deadline, and with them all that is queued behind, the quit included.
- `begin_draft` ignores a save that fails: the comment on
  `src/src/app/state.rs:460` says that the draft stays in memory, but the command
  keeps only its id for the message, and the draft is nowhere.
- A report, also that of a read in the background, takes a prompt away before
  it is answered (2858, 2889); `y` does nothing then, and `state.pending` keeps
  what was staged until the next one. When the answer to a mutation is lost, or
  the process stops while it waits, the draft is still open although the server
  may have it.
- The comment on `Repository::cached_post`, "A deleted post never surfaces from
  cache", holds for the session that deleted it: a deletion empties the row of the
  comments and leaves that of the post, and a logout or a restart forgets
  `deleted_posts`. `record_fresh_post` also looks there before it has the lock.
- Only posts are merged with what was confirmed: a read of comments or of
  communities begun before a mutation and recorded after it replaces the patched
  row, as fresh. A confirmed post, on the other hand, stands for every later fetch
  of the session, also for a newer one. What the store fails to write is left as
  it is, unreported; when it is the home row (repository.rs:626), a mutation
  that the server did is reported as failed and the other rows are not patched.
- A crash or a failed deletion leaves the table over its cap until the next
  write. A mutation of a post whose answer is a success without the post
  (repository.rs:610, 654, 731) is reported done, and neither the session nor the
  cache knows of it: until the next fetch the old version is shown.
- The client follows redirects of the same origin without counting them: the
  deadline of the attempt ends a loop. The comment at http.rs:58 lets an upgrade
  from `http` to `https` pass, but the ports must be equal, which the default ones
  are not. With the default deadlines three timed-out connections take longer
  than the whole, so a dead instance is reported as a budget that is spent, and
  "request attempts exhausted" cannot be reached.
- Comments whose paths run in a circle are not shown at all, and `is_hidden`
  (thread.rs:160) would not end for one of them, unless the circle is folded; the
  model leaves them out. In a release build the 257th comment of a chain has
  depth 0 again. The default fold does not apply when the post brought comments of
  its own.

## 6. What is proved

Every safety property that a passing run checks is a theorem as well. What the
provers cannot be given is an operator to instantiate, so the library's induction
theorems are out of reach; induction over the numbers is proved once more, of a
set (`LeastNumber`, `Induction`), and with it what the recursive functions and
folds of the modules yield.

### The reads, from the screen to the wire (`ReadsProofs`)

*`Requests`*, for all sets of identities, groups and profiles and
all bounds, from `ConstantsAssumption` alone (that `None` is neither a number
nor a read, bounds are naturals, groups are sets of identities):

- `TypeCorrect`: `Spec => []TypeOK`.
- `HandlesAreTruthful`: `Spec => []HandleMeansComing`.
- `ContextsAreIsolated`: `Spec => []LiveReadsAreOfThisContext`.
- `PipelineImplementsContract`: `Spec => ImplementsContract`, the refinement.

The inductive invariant `IndInv` adds two facts to these. `ReadsAreNumbered`: no
task and no mailbox entry has a generation beyond the counter, so that the
generation `begin_request` hands out is fresh; without it an old task could
already carry the new token. `HandlesAreDistinct`: no two identities keep the
same generation's handle, so that the abort behind one identity never stops the
task another handle stands for; without it `HandleMeansComing` is not preserved
by `Drop`. There is one lemma per action, and the two lemmas on the mailbox
(`TailOfMailbox`, `AppendToMailbox`) carry the sequence reasoning.

*`Reads`*, for any posts, queries and bounds, from `ViewConstants` (what the App
asks for, and gives up together):

- `ViewRunsThePipeline`: `ViewSpec => Spec`. Each command begins and drops reads by
  the operations of the pipeline and nothing else, so that the theorems above
  hold under the commands.
- `ViewTypeCorrect`: `ViewSpec => []ViewTypeOK`; the stack has at most three modals.
- `ClosedThreadsNeverReturn`: `ViewSpec => []ClosedThreadsStayClosed`.

The last needs `ClosedPostsAreGone`: a post that the user closed has no token of its
own and is on no thread. Only the answer to a live token or `open_selected` puts
a post on a thread, closing drops the token, and the token comes back with the
next `open_selected` alone. What `Vec::retain` leaves on the stack when a feed or
a post goes is in `RetainedKeeps`.

*`HttpCall`*, for any deadlines and number of attempts, from `HttpConstants` and
`NothingIsApart`:

- `CallTypeCorrect`: `CallSpec => []CallTypeOK`.
- `MutationsAreDoneOnce`: `CallSpec => []DoneAtMostOnce`.
- `ReportsAreTrue`: `CallSpec => []ReportIsTrue`.
- `BudgetsAreKept`: `CallSpec => []KeepsItsBudget`.

`MutationIsSomewhere` carries the first three: what the user confirmed is not
sent, or is in one place, on the wire or done, and the answer the client holds is
one of a server that did what the invariant says. `MutationsTryOnce` and
`ReadsLeaveTheServer` keep the two kinds of call apart.

*`ThreadView`*, for any finite set of comments, any forests, texts and heights,
from `ThreadConstants`:

- `ThreadTypeCorrect`: `ThreadSpec => []ThreadTypeOK`.
- `RowsAreAlwaysTheThread`: `ThreadSpec => []RowsAreTheThread`.
- `FoldsAlwaysHide`: `ThreadSpec => []FoldsHideReplies`.
- `CursorIsAlwaysFollowed`: `ThreadSpec => CursorIsFollowed`, for every estimate of
  the lines and every drawing of them.

The types are inductive (a list stays without a repetition), and the rest follows
from them by what the operators of `CommentTree` yield. `IsWalk` says that rows are
these comments, once each and each in its place. Two walks of sets that are apart
are a walk when put after one another (`WalkGoesOn`), so are a comment and the walk
of what is below it (`WalkOfComment`); the trees of siblings are apart
(`TreesAreApart`) and make up what is below their parent (`TreesOfKids`). Hence
`VisitWalks`, by induction from the deepest comments upwards, and `RowsWalk`. For
the folds, `ClimbFacts`: on the way up the depth decreases by one at each step, so
that it meets each ancestor and ends in time (`ClimbMeetsAll`). For the cursor,
`NearestIsShown` (the way up meets a comment that is not hidden) and
`AnchoredShows` (the offset that is kept, or chosen, has the header within the
viewport by the estimate). That it is displayed where nothing above is wrapped is
a matter of the clamp alone: then each comment above takes the three lines that
the renderer counts for it, and an offset held to the last screenful still has
the header on it.

### The other components

`DownloadsProofs` proves, for any numbers of downloads, attempts and retries and
any policies, from `DownloadConstants` and `NoneIsNothing` (that what is at a name
is told apart from the number of an attempt, and `None` from everything):

- `TypeCorrect`: `Spec => []TypeOK`.
- `AttemptsAreHeld`: `Spec => []EveryAttemptIsHeld`.
- `PromptsHaveTheirAttempt`: `Spec => []PromptsAreAnswerable`.
- `ReplacementIsAgreed`: `Spec => FoundFilesAreSafe`; `ReplacesOnlyByConsent`, of all
  files, is false.
- `TempsAreNotLeft`: `Spec => []TempsAreCleaned`.
- `DeletionsSpareTheUser`: `Spec => UserFilesAreKept`.

Of a step of an attempt `GoesOn` says what it leaves alone, so that each part of
the invariant looks at the twelve actions once. The types alone are not
inductive: a target is a name because `uniquify` finds one, and it does because
every attempt puts at most one file at one name (`FilesAreOwn`) and there are
more names than attempts and the user have files (`SomeNameIsFree`, by the
pigeonhole principle). `HeldInv` adds to `EveryAttemptIsHeld` that a handle is
kept under its own id, and that a retry between its halves has aborted what it
replaces, without which the new handle would lose the old attempt. `PromptInv`
names the places where the one who waits can be. `ConsentInv` says that an
answer is given once, to an attempt that had none, and that an attempt which
found a file of the user at its target goes on only if the user agreed: a file
that was found stays the same file until it is replaced. `AloneInv` is for the last two: of a download with one
attempt the record, a cancel under way, a staged deletion and the attempt name the
same file, and its temporary file is there only while it works. A retry breaks
each of these between its halves, which is why `RetryingOf` is excepted, and the
late completion of `downloads_stale` is what they exclude.

`SessionsProofs` proves, for all sets of profiles and instances and any number of
late writes, from `SessionConstants` alone (that the starter profile is one and
its instance is not refused, and that `None` is neither an instance nor a file):

- `TypeCorrect`: `Spec => []TypeOK`.
- `SessionsFitProfiles`: `Spec => []StoredFitsFile`, of the entries not in `stray`.
- `LogoutsLast`: `Spec => []LoggedOutStaysOut`, with the same exception (section 4).
- `ActiveStaysConfigured`: `Spec => []ActiveIsConfigured`.

The first three share the invariant `IndInv`, which adds `UnknownHaveNoSession`
(a profile the file lacks has no stored session: without it a creation could
expose an old one) and `CommandsDeleteFirst` (when a command is about to report
success, the session is gone). `ActiveInv` adds to the fourth what the command
under way knows of the file. `QuietStep` covers every step that leaves file and
store alone, `SavedStep` the saves.

`DraftsProofs` proves, for all sets of profiles, posts, operations and texts and
any number of drafts and sessions, from `DraftConstants` and `NoneIsNoMutation`
(that `None` is no post, id or mutation, that one content is valid and one is
not, and that there is a session):

- `TypeCorrect`: `Spec => []TypeOK`.
- `PromptAlwaysLive`: `Spec => []PromptIsLive`.
- `ConsentAlwaysFirst`: `Spec => ConsentComesFirst`, if `"action"` is not in
  `Interfaces`.
- `ClosedAlwaysUnsent`: `Spec => ClosedStaysUnsent`, under the same condition.
- `DraftsAlwaysKept`: `Spec => []DraftsAreKept`.

`PromptIsLive` is inductive with the types. The last two need `Books`, which ties
what the program keeps to the history: `Numbered` (an id of this session was
given out: without it `Begin` could overwrite a draft of its own session),
`Marked` (`completed` holds what was closed in this session, no more and no
less: without it a draft could be hidden that nobody closed), `Recorded` (every
row and every mutation of a draft has its entry) and `UnderWay` (the mutation
awaited is of the profile in use, so that its answer marks the right draft).
`Bookings`, `Stagings`, `Sent` and `Waiting` say which actions may change what,
so that each invariant looks at those actions only.

`FeedRefreshProofs` proves, for any feeds, requests, edits and logouts, from
`FeedConstants`:

- `TypeCorrect`: `Spec => []TypeOK`.
- `FeedsAreAlwaysReconciled`: `Spec => []FeedIsReconciled`.
- `HomeRowAlwaysReconciled`: `Spec => []HomeRowIsReconciled`, if no flip writes
  the home feed.
- `NewerFetchesStay`: `Spec => NewerFetchStays`.
- `RowsStayInTheirContext`: `Spec => RowsAreOfThisContext`.

The invariant numbers what is under way. `RefreshIsTheLast`: the handler of a
refresh has the last generation and no task has it. `RefreshIsRegistered`: once
it is registered no other refresh of the feed may write. `ReadIsCurrent`: the row
a handler has read is still the one it will write back. `RowsAreRegistered`: a
row is of no later fetch than its feed has registered, without which a late
refresh could not be told from a new one. `RowsGoOn` is what every step does to a
row, and both action properties follow from it.

`PaginationProofs` proves, for any feeds and numbers of pages, from
`PagesAssumption` and `NoneIsNothing`:

- `TypeCorrect`, `NextAlwaysContinues`: `Spec => []NextContinuesShown`.
- `HistoryAlwaysLeadsBack`: `Spec => []HistoryIsThePath`.
- `CursorAlwaysShows`: `Spec => []CursorShowsThePage`.

`FlipRemembers` says what a flip on its way knows of the page it left, which is
what its failure puts back; `FlipLeavesThePath` ties that to the path of an
orderly user. Without them nothing could be said of the history after a failure.

`EntityRowsProofs` proves, for any listings, sizes, cap and numbers of reads, from
`EntityConstants`, `SizeConstants` and `NoneIsNothing`:

- `TypeCorrect`: `Spec => []TypeOK`.
- `EditsAlwaysOutlive`: `Spec => []EditsOutliveTheSession`.
- `UpdatesAreNeverLost`: `Spec => NoUpdateIsLost`.
- `FreshRowsSurvive`: `Spec => FreshRowSurvives`; `WrittenRowSurvives`, of all writes,
  is false.
- `OneIsAlwaysOldest`: `Spec => []OneIsOldest`, so that the eviction of the code
  names one row and goes on until the payload fits.

`MutationHasTheLock` says that while a mutation goes on, only orphans are with the
pool; `PromisesAreReal` and `ReadKeepsPromise` that whatever a read is going to
write is no older than what was promised; `SeenIsThere` that what a patch has
read is still in its row; `EditGoesOn` that the row an edit is about to promise
has it. `Listed` says that `order` lists each key that has a row once: without it
the eviction might find no row to delete, or two. `TimesInv` carries the eviction: what is
written under the lock has a time that no row in the table exceeds, and no orphan
that is still with the pool, since both took theirs under that lock before.

`TerminalProofs` proves, for any key tables, lines and bounds, from
`TerminalConstants` (that the lines run at startup are lines) and the assumptions
of `InputEngine`:

- `NothingEverLeaks`: `Spec => []NothingLeaks`: no count and no half sequence in the
  line modes and in Insert mode, and a sequence that waits can be finished.
- `CountsAlwaysEnd`: `Spec => CountsEnd`, which rests on the first: the commands of
  Insert mode and of a line leave the count alone.
- `LineIsAlwaysShown`: `Spec => []LineIsShown`.

The third is about the fold of the waiting actions over the line in sight, which
`FoldLeft` of the community modules computes: `FoldAppend` and its kin say what
one more action at either end does to it. It is not inductive: a submit leaves
the line in sight as it is, so a submit behind the line being typed would show an
old one in it. `SubmitsAreOver` says that behind a submit that waits another line
begins, which clears it.

*Only model-checked:* all liveness (`AwaitedReadLands`, `DownloadsConclude`,
`RefreshLands`, `QuitEnds`, `CallsEnd`), as the prover does not do fairness or
`ENABLED`.

## 7. What is not modelled, and why

That the App runs one handler at a time is what `Terminal` models (the App is
moved into the task, 243-247); the other modules take it as the atomicity of
their actions. `FeedRefresh` and `EntityRows` are not composed: what they share
are the confirmed posts and the lock, and the cap, so that a feed row evicted for
a post is an arbitrary eviction in `FeedRefresh`. The cache table is that of one
profile; its schema and the opening of its file are not modelled. Of an HTTP
call, the building of its request and the normalisation of the objects in its
answer are conversions. The wrapping of `next_generation` (u64) is not modelled.
Rendering, help texts, parsing of configuration, MIME lookups, the fixtures and
the entry point are conversions without state.
