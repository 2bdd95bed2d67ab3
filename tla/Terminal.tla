------------------------------- MODULE Terminal -------------------------------
(***************************************************************************)
(* The event loop (run_terminal_async in src/app/mod.rs): keys go through  *)
(* the engine (module InputEngine) into a queue; one action at a time is   *)
(* given to a task that owns the App, while the loop goes on taking keys.  *)
(* The App keeps a mode and a compose line of its own, which follow the    *)
(* engine's through the queue, and which a post that lands touches too.    *)
(*                                                                         *)
(* What an action does to the view is in the other modules; here are its   *)
(* mode, its compose line and its end.                                     *)
(***************************************************************************)
EXTENDS InputEngine

CONSTANT Startup  \* the lines the configuration may run at startup

ASSUME TerminalConstants == Startup \subseteq Seq(Chars)

VARIABLES
    running,   \* the action whose task owns the App: a sequence of one, or none
    app_mode,  \* state.mode
    compose,   \* view.compose
    post,      \* the detached read of a post: "none", "coming", "answered"
    quit,      \* App::is_quit
    loop       \* the loop is "on", "done", or has "failed"

app == <<app_mode, compose, post, quit>>
vars == <<mappings, engine, queue, running, app, loop>>

Tick == [name |-> "tick"]

Init ==
    /\ EngineInit
    /\ queue \in {<<>>} \union {<<Submitted(l, "command")>> : l \in Startup}
    /\ running = <<>>
    /\ app_mode = "normal"
    /\ compose = <<>>
    /\ post = "none"
    /\ quit = FALSE
    /\ loop = "on"

-----------------------------------------------------------------------------
Waiting == running \o queue

(* The compose line after an action.                                       *)
Echoed(shown, action) ==
    CASE action.name = "text" -> Append(shown, action.char)
      [] action.name = "backspace" -> IF shown = <<>> THEN shown ELSE Front(shown)
      [] action.name = "complete" -> action.line
      [] action.name \in LineModes \union {"cancel-line", "submit"} -> <<>>
      [] OTHER -> shown

(* The loop.  While nothing runs the queue comes first, then the end, and  *)
(* only then the next event; a tick that finds nothing changes nothing.    *)

Key(key) ==
    /\ loop = "on"
    /\ running # <<>> \/ (queue = <<>> /\ ~ quit)
    /\ mode = "insert" /\ key \in TextChars => Len(FoldLeft(Echoed, compose, Waiting)) < MaxLine
    /\ Handle(key)
    /\ UNCHANGED <<running, app, loop>>

(* Mutant of StartAction: the newest action runs first.                    *)
StartNewest ==
    /\ loop = "on" /\ running = <<>> /\ queue # <<>>
    /\ running' = <<Last(queue)>>
    /\ queue' = Front(queue)
    /\ UNCHANGED <<mappings, engine, app, loop>>

StartAction ==
    /\ loop = "on" /\ running = <<>> /\ queue # <<>>
    /\ running' = <<Head(queue)>>
    /\ queue' = Tail(queue)
    /\ UNCHANGED <<mappings, engine, app, loop>>

StartTick ==
    /\ loop = "on" /\ running = <<>> /\ queue = <<>> /\ ~ quit
    /\ post = "answered"
    /\ running' = <<Tick>>
    /\ UNCHANGED <<mappings, engine, queue, app, loop>>

(* Mutant of EndLoop: the end of the loop waits for an event.              *)
EndLoopNever ==
    /\ loop = "on" /\ running = <<>> /\ queue = <<>> /\ quit /\ post = "answered"
    /\ loop' = "done"
    /\ UNCHANGED <<mappings, engine, queue, running, app>>

EndLoop ==
    /\ loop = "on" /\ running = <<>> /\ queue = <<>> /\ quit
    /\ loop' = "done"
    /\ UNCHANGED <<mappings, engine, queue, running, app>>

(* The thread that reads the terminal fails.                               *)
InputFails ==
    /\ loop = "on"
    /\ running # <<>> \/ (queue = <<>> /\ ~ quit)
    /\ loop' = "failed"
    /\ UNCHANGED <<mappings, engine, queue, running, app>>

-----------------------------------------------------------------------------
(* The actions: App::dispatch.                                             *)

Is(names) == running # <<>> /\ Head(running).name \in names

(* The action ends well, the App comes back; or its error ends the loop.   *)
Finishes == running' = <<>> /\ UNCHANGED <<mappings, engine, queue, loop>>

ActionFails ==
    /\ Is({"open", "submit"})
    /\ running' = <<>>
    /\ loop' = "failed"
    /\ UNCHANGED <<mappings, engine, queue, app>>

EnterMode ==
    /\ Is({"insert", "visual"} \union LineModes)
    /\ app_mode' = Head(running).name
    /\ compose' = IF Head(running).name \in LineModes THEN <<>> ELSE compose
    /\ Finishes
    /\ UNCHANGED <<post, quit>>

EditCompose ==
    /\ Is({"text", "backspace", "complete", "cancel-line"})
    /\ compose' = Echoed(compose, Head(running))
    /\ app_mode' = IF Head(running).name = "cancel-line" THEN "normal" ELSE app_mode
    /\ Finishes
    /\ UNCHANGED <<post, quit>>

(* submit_line: the mode of the App says whether a line is a search.       *)
SubmitSearch ==
    /\ Is({"submit"}) /\ app_mode \in SearchModes
    /\ app_mode' = "normal"
    /\ compose' = <<>>
    /\ Finishes
    /\ UNCHANGED <<post, quit>>

(* A command that runs clears the compose line; one that is empty, or      *)
(* refused because a modal is open, leaves it.  A command may give up what *)
(* is in flight (login, profile), may open the selected post, or quit.     *)
SubmitCommand ==
    /\ Is({"submit"}) /\ app_mode \notin SearchModes
    /\ app_mode' = "normal"
    /\ \/ UNCHANGED <<compose, post, quit>>
       \/ /\ Head(running).line # <<>>
          /\ compose' = <<>>
          /\ \/ post' \in {post, "none", "coming"} /\ UNCHANGED quit
             \/ post' = "none" /\ quit' = TRUE
    /\ Finishes

(* open_selected: the read is detached; a cached copy lands at once.       *)
Open ==
    /\ Is({"open"})
    /\ \/ post' = "coming" /\ app_mode' \in {app_mode, "normal"}
       \/ UNCHANGED <<post, app_mode>>
    /\ Finishes
    /\ UNCHANGED <<compose, quit>>

(* Esc closes a modal or the downloads panel, and may cancel the read.     *)
Back ==
    /\ Is({"back"})
    /\ post' \in {post, "none"}
    /\ Finishes
    /\ UNCHANGED <<app_mode, compose, quit>>

Quit ==
    /\ Is({"quit"})
    /\ quit' = TRUE
    /\ post' = "none"
    /\ Finishes
    /\ UNCHANGED <<app_mode, compose>>

(* Motions, scrolling: nothing that this module follows.                   *)
OtherAction ==
    /\ Is({"down", "first", "scroll"})
    /\ Finishes
    /\ UNCHANGED app

PostAnswers ==
    /\ post = "coming"
    /\ post' = "answered"
    /\ UNCHANGED <<mappings, engine, queue, running, app_mode, compose, quit, loop>>

(* The Tick drains the mailbox: a post that lands in the selected thread   *)
(* puts the App into Normal mode; a failed one, or another post, does not. *)
PollCompleted ==
    /\ Is({"tick"})
    /\ post' = "none"
    /\ app_mode' \in {app_mode, "normal"}
    /\ Finishes
    /\ UNCHANGED <<compose, quit>>

FinishAction ==
    \/ EnterMode \/ EditCompose \/ SubmitSearch \/ SubmitCommand \/ Open \/ Back \/ Quit
    \/ OtherAction \/ PollCompleted \/ ActionFails

Next ==
    \/ \E key \in Keys : Key(key)
    \/ StartAction \/ StartTick \/ EndLoop \/ InputFails
    \/ FinishAction
    \/ PostAnswers

(* The runtime runs the task it was given, whose awaits all end, and the   *)
(* loop takes the next action before it looks at the keyboard.             *)
Fairness == WF_vars(StartAction) /\ WF_vars(FinishAction) /\ WF_vars(EndLoop)

Spec == Init /\ [][Next]_vars

FairSpec == Spec /\ Fairness

-----------------------------------------------------------------------------
Lines == UNION {[1 .. n -> TextChars] : n \in 0 .. MaxLine}
CommandNames ==
    {"down", "first", "scroll", "insert", "visual", "back", "open", "quit", "backspace",
     "cancel-line"} \union LineModes
Commands ==
    [name: CommandNames, count: 1 .. MaxCount] \union [name: {"text"}, char: TextChars]
    \union [name: {"complete"}, line: Lines \ {<<>>}]
    \union [name: {"submit"}, line: Lines \union Startup, typed: LineModes]

TypeOK ==
    /\ mappings \in Tables
    /\ mode \in Modes
    /\ count \in 0 .. MaxCount
    /\ line \in Lines
    /\ pending \in Seq(Keys)
    /\ Len(queue) <= MaxQueue + 1 /\ \A i \in DOMAIN queue : queue[i] \in Commands
    /\ Len(running) <= 1 /\ \A i \in DOMAIN running : running[i] \in Commands \union {Tick}
    /\ app_mode \in Modes
    /\ compose \in Seq(TextChars)
    /\ post \in {"none", "coming", "answered"}
    /\ quit \in BOOLEAN
    /\ loop \in {"on", "done", "failed"}


-----------------------------------------------------------------------------
(* What is on the screen once the waiting actions have run is what the     *)
(* engine will submit: the two lines are edited apart (Tab on one, a       *)
(* cleared compose on the other) and meet only through the queue.          *)
LineIsShown ==
    loop = "on" /\ mode \in LineModes => FoldLeft(Echoed, compose, Waiting) = line

(* A line typed after `/` or `?` runs as a search (docs/keybindings.md     *)
(* lines 15 and 16).  A post that lands while it is typed breaks this.     *)
SearchRunsAsSearch ==
    Is({"submit"}) /\ Head(running).typed \in SearchModes => app_mode \in SearchModes

(* No count and no half of a sequence reaches a line or a text, and a      *)
(* sequence that waits can still be finished and has not been yet.  Of the *)
(* count in the mapped modes this says nothing; the next does.             *)
NothingLeaks ==
    /\ mode \in LineModes \union {"insert"} => count = 0 /\ pending = <<>>
    /\ pending # <<>> => HasPrefix(pending) /\ CompleteIn(pending) = {}

(* Nothing leaks into another mode, and within a mode a count ends with    *)
(* the command it was typed for, scrolling with Ctrl included, and with a  *)
(* waiting sequence that a key ends, unless that key is a digit of a       *)
(* count, which is exempt here (handle, handle_mapped and apply in         *)
(* src/input/engine.rs).                                                   *)
Commanded == queue' # queue /\ running' = running
Ended == pending # <<>> /\ pending' = <<>>
CountsEnd ==
    /\ []NothingLeaks
    /\ [][Commanded \/ (Ended /\ ~ \E d \in Digits : Counts(d) /\ Key(d)) => count' = 0]_vars

(* "A discarded pending sequence also abandons any accumulated count, so a *)
(* later key never inherits the stale multiplier" (src/input/engine.rs     *)
(* lines 219 and 220): a count that is there when a sequence has ended is  *)
(* one digit, typed just now.  A digit that discards one keeps the count   *)
(* before it: after `2g5` it is 25.                                        *)
DiscardedCountsEnd ==
    [][Ended => count' \in {0} \union {DigitValue[d] : d \in Digits}]_vars

(* Once an action has set the quit flag the loop ends, unless the user     *)
(* types for ever.                                                         *)
Typing == \E key \in Keys : Key(key)
QuitEnds == []<><<Typing>>_vars \/ (quit ~> loop # "on")
=============================================================================
