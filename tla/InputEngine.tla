----------------------------- MODULE InputEngine -----------------------------
(***************************************************************************)
(* The modal key parser (src/input/engine.rs, src/input/mapping.rs): what  *)
(* a key does to the mode, the count, the pending sequence and the line,   *)
(* and the command it hands to the event loop, which queues it             *)
(* (queue_terminal_event in src/app/mod.rs).                               *)
(*                                                                         *)
(* Keys are names.  A line is a sequence of printable keys; case, blanks   *)
(* and the `:` a user may repeat are left out.                             *)
(***************************************************************************)
EXTENDS Naturals, FiniteSets, SequencesExt

CONSTANTS
    Chars,        \* the printable keys that are not digits
    DigitValue,   \* the digit keys, each with its value
    Bindings,     \* the default table: key sequence -> command name
    Keymaps,      \* the configured [keymaps]: command name -> key sequence
    TextChars,    \* the printable keys that are typed into lines and text
    Completions,  \* the command names Tab offers
    MaxCount,     \* the largest count, at which the arithmetic saturates
    MaxLine,      \* bound on the length of a line
    MaxQueue      \* bound on the commands that wait

ASSUME InputConstants ==
    /\ DOMAIN DigitValue \intersect Chars = {}
    /\ TextChars \subseteq Chars
    /\ Completions \subseteq Seq(Chars)
    /\ \A s \in DOMAIN Bindings : s # <<>>
    /\ \A name \in DOMAIN Keymaps : Keymaps[name] # <<>>
    /\ MaxCount \in Nat /\ MaxLine \in Nat /\ MaxQueue \in Nat

VARIABLES
    mappings,  \* the table in use
    mode,
    count,     \* 0 when none was typed
    line,
    pending,   \* the keys of an unfinished sequence
    queue      \* queued_actions of the event loop

engine == <<mode, count, line, pending>>

-----------------------------------------------------------------------------
Digits == DOMAIN DigitValue
Special == {"esc", "enter", "backspace", "tab", "ctrl-d"}
Keys == Chars \union Digits \union Special

SearchModes == {"search", "search-backward"}
LineModes == {"command"} \union SearchModes
MappedModes == {"normal", "visual"}
Modes == LineModes \union MappedModes \union {"insert"}

(* A command carries what the App does something with: a character, a      *)
(* line.  That a line was typed in this mode is for the properties only.   *)
Command(name) == [name |-> name, count |-> 1]
Counted(name, n) == [name |-> name, count |-> n]
Text(char) == [name |-> "text", char |-> char]
Completed(l) == [name |-> "complete", line |-> l]
Submitted(l, in) == [name |-> "submit", line |-> l, typed |-> in]

-----------------------------------------------------------------------------
(* The table.  A keymap replaces every binding of its command; which of    *)
(* two keymaps with one sequence wins depends on the order of a HashMap.   *)
Rebound(table, name) ==
    LET kept == {s \in DOMAIN table : table[s] # name}
    IN  [s \in kept \union {Keymaps[name]} |-> IF s = Keymaps[name] THEN name ELSE table[s]]

Tables == {FoldLeft(Rebound, Bindings, order) : order \in SetToSeqs(DOMAIN Keymaps)}

CompleteIn(keys) == {s \in DOMAIN mappings : IsPrefix(s, keys)}

HasPrefix(keys) == \E s \in DOMAIN mappings : IsStrictPrefix(keys, s)

LongestComplete(keys) ==
    CHOOSE s \in CompleteIn(keys) : \A t \in CompleteIn(keys) : Len(t) <= Len(s)

(* complete_line: the matches are the names that go on from what is typed. *)
Matches(l) == {name \in Completions : IsStrictPrefix(l, name)}

Extended(l) ==
    IF l = <<>> \/ Matches(l) = {} THEN l ELSE LongestCommonPrefix(Matches(l))

-----------------------------------------------------------------------------
Queue(command) ==
    /\ Len(queue) < MaxQueue
    /\ queue' = Append(queue, command)

Emit(command) == Queue(command)

LeaveModal(name) ==
    /\ mode' = "normal" /\ count' = 0 /\ line' = <<>> /\ pending' = <<>>
    /\ Emit(Command(name))

(* Mutant of HandleControl: scrolling leaves the count.                    *)
HandleControlKeepingCount(key) ==
    /\ key = "ctrl-d"
    /\ IF mode \in MappedModes
       THEN Emit(Counted("scroll", IF count = 0 THEN 1 ELSE count))
       ELSE UNCHANGED queue
    /\ UNCHANGED <<mode, count, line, pending>>

(* Control keys scroll, and use the count up, in the mapped modes only.    *)
HandleControl(key) ==
    /\ key = "ctrl-d"
    /\ IF mode \in MappedModes
       THEN /\ Emit(Counted("scroll", IF count = 0 THEN 1 ELSE count))
            /\ count' = 0
       ELSE UNCHANGED <<count, queue>>
    /\ UNCHANGED <<mode, line, pending>>

HandleInsert(key) ==
    /\ mode = "insert" /\ key # "ctrl-d"
    /\ IF key = "esc" THEN LeaveModal("back")
       ELSE /\ pending' = <<>>
            /\ CASE key = "backspace" -> Emit(Command("backspace"))
                 [] key \in TextChars -> Emit(Text(key))
                 [] OTHER -> key \notin Chars \union Digits /\ UNCHANGED queue
            /\ UNCHANGED <<mode, count, line>>

EditLine(key) ==
    \/ /\ key \in TextChars /\ Len(line) < MaxLine
       /\ line' = Append(line, key)
       /\ Emit(Text(key))
    \/ /\ key = "backspace"
       /\ line' = IF line = <<>> THEN line ELSE Front(line)
       /\ Emit(Command("backspace"))
    \/ /\ key = "tab"
       /\ line' = Extended(line)
       /\ IF line' = <<>> THEN UNCHANGED queue ELSE Emit(Completed(line'))

HandleLineMode(key) ==
    /\ mode \in LineModes /\ key # "ctrl-d"
    /\ \/ key = "esc" /\ LeaveModal("cancel-line")
       \/ /\ key = "enter"
          /\ Emit(Submitted(line, mode))
          /\ mode' = "normal" /\ count' = 0 /\ line' = <<>> /\ pending' = <<>>
       \/ EditLine(key) /\ pending' = <<>> /\ UNCHANGED <<mode, count>>

(* A digit is a count unless some binding begins with it.  It discards a   *)
(* sequence that waits, and goes on with the count before that one.        *)
Counts(key) ==
    key \in Digits /\ ~ HasPrefix(<<key>>) /\ CompleteIn(<<key>>) = {}

AddDigit(key) ==
    LET n == count * 10 + DigitValue[key]
    IN  /\ count' = IF n > MaxCount THEN MaxCount ELSE n
        /\ pending' = <<>>
        /\ UNCHANGED <<mode, line, queue>>

(* Mutant of Apply: the count goes with the user into the line.            *)
ApplyKeepingCount(name, n) ==
    CASE name = "back" -> LeaveModal("back")
      [] name \in {"insert", "visual"} ->
            /\ mode' = name /\ count' = 0 /\ Emit(Command(name)) /\ UNCHANGED line
      [] name \in LineModes ->
            /\ mode' = name /\ line' = <<>> /\ Emit(Command(name)) /\ UNCHANGED count
      [] name \in {"down", "first"} ->
            /\ count' = 0 /\ Emit(Counted(name, n)) /\ UNCHANGED <<mode, line>>
      [] OTHER -> count' = 0 /\ Emit(Command(name)) /\ UNCHANGED <<mode, line>>

(* What the engine itself does for a command that is complete.             *)
Apply(name, n) ==
    CASE name = "back" -> LeaveModal("back")
      [] name \in {"insert", "visual"} ->
            /\ mode' = name /\ count' = 0 /\ Emit(Command(name)) /\ UNCHANGED line
      [] name \in LineModes ->
            /\ mode' = name /\ count' = 0 /\ line' = <<>> /\ Emit(Command(name))
      [] name \in {"down", "first"} ->
            /\ count' = 0 /\ Emit(Counted(name, n)) /\ UNCHANGED <<mode, line>>
      [] OTHER -> count' = 0 /\ Emit(Command(name)) /\ UNCHANGED <<mode, line>>

(* A key that does not go on with the pending sequence discards it, and    *)
(* the count with it.                                                      *)
Match(key) ==
    LET keys == Append(pending, key)
    IN  IF CompleteIn(keys) # {}
        THEN /\ pending' = <<>>
             /\ Apply(mappings[LongestComplete(keys)], IF count = 0 THEN 1 ELSE count)
        ELSE /\ IF HasPrefix(keys) THEN pending' = keys /\ UNCHANGED count
                ELSE pending' = <<>> /\ count' = 0
             /\ UNCHANGED <<mode, line, queue>>

HandleMapped(key) ==
    /\ mode \in MappedModes /\ key # "ctrl-d"
    /\ IF Counts(key) THEN AddDigit(key) ELSE Match(key)

(* InputEngine::handle, and the queueing of what it returns.               *)
Handle(key) ==
    /\ HandleControl(key) \/ HandleInsert(key) \/ HandleLineMode(key) \/ HandleMapped(key)
    /\ UNCHANGED mappings

EngineInit ==
    /\ mappings \in Tables
    /\ mode = "normal"
    /\ count = 0
    /\ line = <<>>
    /\ pending = <<>>
=============================================================================
