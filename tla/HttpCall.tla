------------------------------ MODULE HttpCall ------------------------------
(***************************************************************************)
(* One call of the HTTP adapter, HttpLemmyApi (src/api/http.rs): a read,   *)
(* which may be tried again within the budget of the whole read; a         *)
(* mutation, which is sent once and whose failure is reported as uncertain *)
(* wherever the server may have done it; or a login, a mutation followed   *)
(* by a read of the site that it does not depend on.                       *)
(*                                                                         *)
(* Time is counted in ticks and a timer fires when it is due.  The server  *)
(* answers when it likes, or never, and may still do what a call that gave *)
(* up had sent.  A body is known by what the client makes of it.           *)
(***************************************************************************)
EXTENDS Naturals

CONSTANTS
    MAX_READ_ATTEMPTS,
    Connect,   \* Timeouts.connect: the deadline of a connection
    Request,   \* Timeouts.request: the deadline of an attempt, body included
    Total,     \* Timeouts.total: the deadline of a read, retries included
    Pause,     \* the pause before the first retry; each is that much longer
    MaxClock,  \* bound on the clock; a call that keeps its deadlines never meets it
    Nothing

ASSUME HttpConstants ==
    /\ MAX_READ_ATTEMPTS \in Nat \ {0}
    /\ {Connect, Request, Total, Pause, MaxClock} \subseteq Nat \ {0}

VARIABLES
    op,       \* the operation of the adapter
    phase,    \* where its call is
    attempt,  \* the attempt of the loop in send_json, from 0
    clock,    \* the time since send_json began
    since,    \* the time since the attempt, or the pause, began
    sent,     \* the value of since when the request was last put on the wire
    method,   \* how the attempt is on the wire
    wire,     \* how many POSTs are with the server, which has not done them yet
    applied,  \* how often the server did what the call asks
    reply,    \* the answer to the attempt, or Nothing
    result    \* what the operation returned, or Nothing

callVars == <<op, phase, attempt, clock, since, sent, method, wire, applied, reply, result>>

-----------------------------------------------------------------------------
(* A read whose answer must hold the list, or the site, that was asked for; *)
(* one that takes an answer without it for an empty thread; and the calls  *)
(* that change something.                                                  *)
StrictReads == {"site", "feed", "communities"}
LenientReads == {"post", "comments"}
ReadOps == StrictReads \union LenientReads
Ops == ReadOps \union {"mutate", "login"}

Statuses == {"ok", "unauthorized", "forbidden", "not_found", "transient", "redirect", "other"}

(* accepted and refused are answers that say so; bare is a JSON object     *)
(* with none of the fields that are asked for.                             *)
Bodies == {"accepted", "refused", "bare", "empty", "garbled", "oversized"}
Replies == [status: Statuses, body: Bodies]

Results == {"success", "refused", "authentication", "authorization", "failed", "uncertain"}

ASSUME NothingIsApart == Nothing \notin Replies \union Results

Phases == {"connecting", "waiting", "body", "pausing", "done"}

(* login reads the site with the token it got: op is then "enrich".        *)
IsRead == op \in ReadOps \union {"enrich"}

MayRetry == IsRead /\ attempt + 1 < MAX_READ_ATTEMPTS

CallInit ==
    /\ op \in Ops
    /\ phase = "connecting"
    /\ attempt = 0
    /\ clock = 0
    /\ since = 0
    /\ sent = 0
    /\ method = IF IsRead THEN "GET" ELSE "POST"
    /\ wire = 0
    /\ applied = 0
    /\ reply = Nothing
    /\ result = Nothing

(* What is made of a call of which there is no answer, or no whole one.    *)
Lost == IF IsRead THEN "failed" ELSE "uncertain"

(* Mutant of Parsed: the status of a server's failure is taken at its word. *)
ParsedTrusting(r) ==
    IF r.body = "oversized" THEN Lost
    ELSE CASE r.status = "unauthorized" -> "authentication"
           [] r.status \in {"forbidden", "not_found"} -> "authorization"
           [] r.status \in {"transient", "redirect", "other"} -> "failed"
           [] r.status = "ok" /\ r.body \in {"empty", "garbled"} -> Lost
           [] OTHER -> "success"

(* parse_response: only a refusal that names the session, the right or the *)
(* endpoint is certain.                                                    *)
Parsed(r) ==
    IF r.body = "oversized" THEN Lost
    ELSE CASE r.status = "unauthorized" -> "authentication"
           [] r.status \in {"forbidden", "not_found"} -> "authorization"
           [] r.status \in {"transient", "redirect", "other"} -> Lost
           [] r.status = "ok" /\ r.body \in {"empty", "garbled"} -> Lost
           [] OTHER -> "success"

(* What the operation makes of the JSON it gets.  A mutation is done unless *)
(* the server says otherwise, a login only with a token.                   *)
Decoded(r) ==
    IF Parsed(r) # "success" \/ r.body = "accepted" THEN Parsed(r)
    ELSE CASE op = "mutate" -> IF r.body = "bare" THEN "success" ELSE "refused"
           [] op = "login" -> "authentication"
           [] op \in StrictReads \union {"enrich"} -> "failed"
           [] op \in LenientReads -> "success"

(* The end of a call.  The login has its token and reads the site;         *)
(* whatever becomes of that, the session is returned.                      *)
Finish(outcome) ==
    /\ reply' = Nothing
    /\ IF op = "login" /\ outcome = "success"
       THEN /\ op' = "enrich"
            /\ phase' = "connecting"
            /\ attempt' = 0
            /\ clock' = 0
            /\ since' = 0
            /\ sent' = 0
            /\ method' = "GET"
            /\ UNCHANGED result
       ELSE /\ phase' = "done"
            /\ result' = IF op = "enrich" THEN "success" ELSE outcome
            /\ UNCHANGED <<op, attempt, clock, since, sent, method>>
    /\ UNCHANGED <<wire, applied>>

(* The pause before the next attempt: the response is dropped unread.      *)
Retry ==
    /\ phase' = "pausing"
    /\ since' = 0
    /\ reply' = Nothing
    /\ UNCHANGED <<op, attempt, clock, sent, method, wire, applied, result>>

-----------------------------------------------------------------------------
(* The client.                                                             *)

Connected ==
    /\ phase = "connecting"
    /\ phase' = "waiting"
    /\ sent' = since
    /\ wire' = IF method = "POST" THEN wire + 1 ELSE wire
    /\ UNCHANGED <<op, attempt, clock, since, method, applied, reply, result>>

(* The connection is refused or breaks: not a timeout, and not retried.    *)
Refused ==
    /\ phase \in {"connecting", "waiting", "body"}
    /\ reply = Nothing \/ phase = "body"
    /\ Finish(Lost)

(* Mutant of AttemptIsDue: only the connection has a deadline.             *)
OnlyConnectingIsDue == phase = "connecting" /\ since >= Connect

(* The deadlines of an attempt: that of the connection, and that of the    *)
(* whole, until the last of the body is read.                              *)
AttemptIsDue ==
    \/ phase = "connecting" /\ since >= Connect
    \/ phase \in {"connecting", "waiting", "body"} /\ since >= Request

(* Mutant of TimesOut: a mutation that timed out is sent again.            *)
TimesOutAndRetries ==
    /\ AttemptIsDue
    /\ IF phase # "body" /\ attempt + 1 < MAX_READ_ATTEMPTS THEN Retry ELSE Finish(Lost)

(* A timeout is tried again until the answer has begun to arrive.          *)
TimesOut ==
    /\ AttemptIsDue
    /\ IF phase # "body" /\ MayRetry THEN Retry ELSE Finish(Lost)

(* The answer is there.  A redirect to the same origin is followed, as a   *)
(* POST or as the GET it becomes; any other is the answer.                 *)
Follow ==
    /\ phase = "waiting"
    /\ reply # Nothing /\ reply.status = "redirect"
    /\ \/ method' = method
       \/ method' = "GET"
    /\ wire' = IF method' = "POST" THEN wire + 1 ELSE wire
    /\ sent' = since
    /\ reply' = Nothing
    /\ UNCHANGED <<op, phase, attempt, clock, since, applied, result>>

Answered ==
    /\ phase = "waiting"
    /\ reply # Nothing
    /\ IF reply.status = "transient" /\ MayRetry
       THEN Retry
       ELSE /\ phase' = "body"
            /\ UNCHANGED <<op, attempt, clock, since, sent, method, wire, applied, reply, result>>

ReadBody ==
    /\ phase = "body"
    /\ Finish(Decoded(reply))

Resume ==
    /\ phase = "pausing"
    /\ since >= Pause * (attempt + 1)
    /\ phase' = "connecting"
    /\ attempt' = attempt + 1
    /\ since' = 0
    /\ sent' = 0
    /\ UNCHANGED <<op, clock, method, wire, applied, reply, result>>

(* Mutant of BudgetIsSpent: the total deadline guards no read.             *)
BudgetIsNeverSpent == FALSE

BudgetIsSpent == IsRead /\ phase # "done" /\ clock >= Total

(* The total deadline drops the read wherever it is.                       *)
Exhaust ==
    /\ BudgetIsSpent
    /\ Finish("failed")

Client ==
    \/ Connected \/ Refused \/ TimesOut \/ Follow \/ Answered \/ ReadBody \/ Resume
    \/ Exhaust

(* The steps of the client that it does not wait for anyone to take.       *)
ClientGoesOn == TimesOut \/ Follow \/ Answered \/ ReadBody \/ Resume \/ Exhaust

-----------------------------------------------------------------------------
(* The server, and the time.                                               *)

(* Whether an answer may come from a server that did what it was asked: it *)
(* may say so, garble it, or fail after it was done.  A refusal, a redirect *)
(* or a login's answer without a token come instead of doing it.           *)
Denies(r) == r.body = "refused" \/ (op = "login" /\ r.body = "bare")

Truthful(r, did) ==
    IF did THEN r.status \in {"ok", "transient", "other"} /\ ~ Denies(r)
    ELSE r.status = "ok" /\ ~ IsRead => Denies(r)

(* A round trip takes time.  A mutation that a redirect turned into a GET  *)
(* is not done, and is answered as any GET of that endpoint, with no JSON  *)
(* that could be taken for success.                                        *)
Serve(r) ==
    /\ phase = "waiting"
    /\ reply = Nothing
    /\ since > sent
    /\ IF method = "GET"
       THEN /\ Truthful(r, FALSE)
            /\ UNCHANGED <<wire, applied>>
       ELSE /\ wire > 0
            /\ wire' = wire - 1
            /\ applied' \in {applied, applied + 1}
            /\ Truthful(r, applied' # applied)
    /\ reply' = r
    /\ UNCHANGED <<op, phase, attempt, clock, since, sent, method, result>>

(* A POST whose answer gets lost, or comes too late, is done or not.       *)
ServeUnheard ==
    /\ wire > 0
    /\ wire' = wire - 1
    /\ applied' \in {applied, applied + 1}
    /\ UNCHANGED <<op, phase, attempt, clock, since, sent, method, reply, result>>

Tick ==
    /\ phase # "done"
    /\ clock < MaxClock
    /\ ~ AttemptIsDue /\ ~ BudgetIsSpent
    /\ phase = "pausing" => since < Pause * (attempt + 1)
    /\ phase = "waiting" => reply = Nothing
    /\ clock' = clock + 1
    /\ since' = since + 1
    /\ UNCHANGED <<op, phase, attempt, sent, method, wire, applied, reply, result>>

CallNext ==
    \/ Client
    \/ \E r \in Replies : Serve(r)
    \/ ServeUnheard
    \/ Tick

(* Time passes, and the client does what it has to.  Nothing is asked of   *)
(* the server or of the network.                                           *)
CallFairness == WF_callVars(ClientGoesOn) /\ WF_callVars(Tick)

CallSpec == CallInit /\ [][CallNext]_callVars

CallFairSpec == CallSpec /\ CallFairness

-----------------------------------------------------------------------------
CallTypeOK ==
    /\ op \in Ops \union {"enrich"}
    /\ phase \in Phases
    /\ attempt \in 0 .. MAX_READ_ATTEMPTS - 1
    /\ clock \in 0 .. MaxClock
    /\ since \in 0 .. MaxClock
    /\ sent \in 0 .. MaxClock
    /\ method \in {"GET", "POST"}
    /\ wire \in Nat
    /\ applied \in Nat
    /\ reply \in Replies \union {Nothing}
    /\ result \in Results \union {Nothing}

(* What the user confirmed once is done at most once, counting what the    *)
(* server may still do: "a mutation is a single attempt: retrying it could *)
(* double-apply the write" (tests/api_adapter.rs:296), and a redirect that *)
(* repeats the POST comes from a server that had not done it.              *)
DoneAtMostOnce == applied + wire <= 1

(* What the user is told of a mutation is so.  A failure that is not       *)
(* reported as uncertain is one: the server did not do it and will not,    *)
(* whatever is still on its way to it (tests/api_adapter.rs:108,           *)
(* mutation_timeout_is_not_reported_as_confirmed_failure).  And what is    *)
(* reported as done was done.                                              *)
FailureIsCertain ==
    ~ IsRead /\ result \in {"refused", "authentication", "authorization", "failed"}
        => applied + wire = 0

SuccessIsReal ==
    op \in {"mutate", "login", "enrich"} /\ (result = "success" \/ op = "enrich") => applied = 1

ReportIsTrue == FailureIsCertain /\ SuccessIsReal

(* A read takes its budget at most, whatever it retries, and a mutation    *)
(* its one attempt: "retries can never multiply the worst case beyond      *)
(* `total`" (src/src/api/http.rs:32).                                      *)
KeepsItsBudget == clock <= IF IsRead THEN Total ELSE Request

(* Every call ends, whatever the server does or fails to do: no redirect,  *)
(* slow body or silence holds App, which waits for a mutation.             *)
CallsEnd == <>(phase = "done")
=============================================================================
