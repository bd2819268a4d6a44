--------------------------- MODULE RumbleValidation ---------------------------
(***************************************************************************)
(* tools/rumble_validation.py: one run of the live validator, from its      *)
(* arguments to its report and exit code.                                   *)
(*                                                                         *)
(* The program is sequential; what it does not control are the answers.     *)
(* Every request may be redirected, refused, answered with any status and   *)
(* media type, broken off, or left without an answer until its deadline     *)
(* passes, between any two of the program's steps.  `authenticated --send'   *)
(* posts a message, which Rumble may take before, after or without          *)
(* answering.  A page and an embed document are what the parsers make of    *)
(* them: RumblePages models the parsers.                                    *)
(***************************************************************************)
EXTENDS Naturals, Sequences, SequencesExt, FiniteSets

CONSTANTS
  MaxRedirects, \* open, max_redirects
  MaxLines      \* MAX_SSE_BYTES, in lines

ASSUME ValidationAssumption == MaxRedirects \in Nat /\ MaxLines \in Nat

VARIABLES
  args,     \* the command, whether --send was given, what was typed to confirm
  pc,       \* "start", "request", "reply", "stream", "done"
  at,       \* the request in hand: its scenario, stage and profile
  req,      \* open: redirects followed, was it sent, has its deadline passed?
  got,      \* OpenedResponse and what was read of it
  events,   \* parse_sse_init: lines read, the data lines pending
  rows,     \* the report's rows
  outcomes, \* what the stages came to, for the overall result
  report,   \* the report: overall result, attempts, exit code; a diagnosis
  post      \* the message: POSTs made, was it taken, was it refused?

vars == <<args, pc, at, req, got, events, rows, outcomes, report, post>>

Overalls == {"PASS", "INCONCLUSIVE_ENVIRONMENT", "INCONCLUSIVE_INPUT_OR_REMOTE",
             "CONTRACT_MISMATCH", "INTERNAL_ERROR"}
Scenarios == {"LIVE", "OFFLINE", "TEST"}
Stages == {"PAGE", "EMBED", "SSE", "RECONNECT", "SESSION", "SEND"}
Medias == {"HTML", "JSON", "EVENT_STREAM", "OTHER"}
FailureKinds ==
  {"NETWORK", "TIMEOUT", "REDIRECT", "TOO_LARGE", "HEADER_LIMIT", "SHAPE"}
PageStates == {"LIVE", "OFFLINE", "INTERSTITIAL", "MALFORMED"}
EmbedStates == {"LIVE", "OFFLINE", "MALFORMED"}

\* One status of every kind the code tells apart; 0 is none.
Redirects == {307}
Statuses == {200, 201, 204, 304, 403, 404, 408, 429, 500} \cup Redirects
Success(status) == 200 <= status /\ status < 300

NoRequest == [redirects |-> 0, sent |-> FALSE, late |-> FALSE]
NoReply == [status |-> 0, media |-> "OTHER", retry |-> FALSE, body |-> "unread"]
NoReport == [overall |-> "none", attempts |-> 0, exit |-> 0, stage |-> "none",
             reason |-> "none"]

Init ==
  /\ args \in {a \in [command : {"public", "diagnose", "authenticated"},
                       send : BOOLEAN, typed : {"nothing"}] :
                 a.send => a.command = "authenticated"}
  /\ pc = "start"
  /\ at = [scenario |-> IF args.command = "authenticated" THEN "TEST" ELSE "LIVE",
           stage |-> "PAGE", profile |-> "c"]
  /\ req = NoRequest /\ got = NoReply
  /\ events = [total |-> 0, data |-> <<>>]
  /\ rows = <<>> /\ outcomes = {} /\ report = NoReport
  /\ post = [made |-> 0, taken |-> FALSE, refused |-> FALSE]

-----------------------------------------------------------------------------
(* What a stage comes to: the row's outcome and observation, the overall    *)
(* result, and whether the scenario goes on with its next stage.            *)

Verdict(outcome, observation, overall, on) ==
  [outcome |-> outcome, observation |-> observation, overall |-> overall, on |-> on]

Mismatch(observation) ==
  Verdict("MISMATCH", observation, "CONTRACT_MISMATCH", FALSE)
Inconclusive(observation) ==
  Verdict("INPUT_REMOTE", observation, "INCONCLUSIVE_INPUT_OR_REMOTE", FALSE)
Passes(observation) == Verdict("PASS", observation, "PASS", TRUE)

\* _failure_result
Failure(kind) ==
  CASE kind = "TIMEOUT" ->
         Verdict("ENVIRONMENT", "REQUEST_TIMEOUT", "INCONCLUSIVE_ENVIRONMENT", FALSE)
    [] kind = "NETWORK" ->
         Verdict("ENVIRONMENT", "NETWORK_UNAVAILABLE", "INCONCLUSIVE_ENVIRONMENT", FALSE)
    [] kind = "REDIRECT" -> Mismatch("REDIRECT_REJECTED")
    [] kind \in {"TOO_LARGE", "HEADER_LIMIT"} -> Mismatch("RESPONSE_TOO_LARGE")
    [] kind = "SHAPE" -> Mismatch("SHAPE_MISMATCH")

\* _remote_failure
Remote(g) ==
  Inconclusive(IF g.status = 429 /\ g.retry THEN "RETRY_AFTER" ELSE "REMOTE_STATUS")

\* A success of another media type than `media' is not read.
Unread(g, media) == Success(g.status) /\ g.status # 204 /\ g.media # media

\* resolve_stream, one reply: `contract' is what a readable 200 comes to.
Resolved(g, media, contract) ==
  LET read == ~Unread(g, media) /\ g.body \notin FailureKinds
  IN  CASE ~Unread(g, media) /\ g.body \in FailureKinds -> Failure(g.body)
        [] read /\ g.status = 200 -> contract
        [] read /\ ~Success(g.status) -> Remote(g)
        [] OTHER -> Mismatch("SHAPE_MISMATCH")

\* Mutant of Offline: what was not expected is in the row only.
OfflineUnweighed(scenario, observation) ==
  Verdict(IF scenario = "OFFLINE" THEN "OFFLINE" ELSE "INPUT_REMOTE", observation,
          "PASS", FALSE)

\* No stream: what was to be shown of the offline channel, but not of another.
Offline(scenario, observation) ==
  IF scenario = "OFFLINE" THEN Verdict("OFFLINE", observation, "PASS", FALSE)
  ELSE Inconclusive(observation)

PageVerdict(g, scenario) ==
  Resolved(g, "HTML",
    CASE g.body = "LIVE" -> Passes("EMBED_PRESENT")
      [] g.body = "OFFLINE" -> Offline(scenario, "FIRST_VIDEO_OFFLINE")
      [] g.body = "INTERSTITIAL" -> Inconclusive("ACCESS_INTERSTITIAL")
      [] OTHER -> Mismatch("SHAPE_MISMATCH"))

EmbedVerdict(g, scenario) ==
  Resolved(g, "JSON",
    CASE g.body = "LIVE" -> Passes("STREAM_PRESENT")
      [] g.body = "OFFLINE" -> Offline(scenario, "NO_STREAM")
      [] OTHER -> Failure("SHAPE"))

\* Mutant of SseVerdict: a valid init passes in every scenario.
SseVerdictAnyInit(g, scenario) ==
  IF g.status = 200 /\ g.media = "EVENT_STREAM" /\ g.body = "init" THEN Passes("INIT_VALID")
  ELSE IF g.status = 204 THEN Offline(scenario, "OFFLINE_204") ELSE Remote(g)

\* _validate_sse_once.  After the headers a failure is the endpoint's; an
\* offline channel with a valid init is not offline.
SseVerdict(g, scenario) ==
  CASE g.body \in FailureKinds /\ g.status = 0 -> Failure(g.body)
    [] g.status = 204 -> Offline(scenario, "OFFLINE_204")
    [] g.status \notin {0, 200, 204} -> Remote(g)
    [] g.status = 200 /\ g.media # "EVENT_STREAM" -> Mismatch("SHAPE_MISMATCH")
    [] g.status = 200 /\ g.media = "EVENT_STREAM" /\ g.body \in FailureKinds ->
         Mismatch(CASE g.body = "TIMEOUT" -> "REQUEST_TIMEOUT"
                    [] g.body = "TOO_LARGE" -> "RESPONSE_TOO_LARGE"
                    [] OTHER -> "SHAPE_MISMATCH")
    [] OTHER -> IF scenario = "OFFLINE" THEN Inconclusive("REMOTE_STATUS")
                ELSE Passes("INIT_VALID")

\* validate_authenticated, the session probe.
SessionVerdict(g) ==
  CASE g.body \in FailureKinds -> Failure(g.body)
    [] g.body \notin FailureKinds /\ g.status # 200 ->
         IF g.status \in {401, 403} THEN Inconclusive("SESSION_REJECTED") ELSE Remote(g)
    [] g.status = 200 /\ g.media # "JSON" -> Mismatch("SHAPE_MISMATCH")
    [] g.body = "wrong" -> Inconclusive("SESSION_REJECTED")
    [] OTHER -> Passes("SESSION_ACCEPTED")

\* Mutant of SendVerdict: 408 counts as a rejection.
SendVerdictNo408(g) ==
  CASE g.status = 0 \/ g.status >= 500 -> Inconclusive("SEND_AMBIGUOUS")
    [] g.status = 200 -> Passes("SEND_ACCEPTED")
    [] OTHER -> Inconclusive("SEND_REJECTED")

\* validate_authenticated, the message.  open marks every failure of a POST
\* as ambiguous.
SendVerdict(g) ==
  CASE g.status = 0 -> Inconclusive("SEND_AMBIGUOUS")
    [] g.status = 408 \/ g.status >= 500 -> Inconclusive("SEND_AMBIGUOUS")
    [] g.status = 429 /\ g.retry -> Inconclusive("RETRY_AFTER")
    [] g.status = 200 ->
         IF g.media = "JSON" /\ g.body = "valid" THEN Passes("SEND_ACCEPTED")
         ELSE Mismatch("SEND_ACK_MISMATCH")
    [] OTHER -> Inconclusive("SEND_REJECTED")

VerdictOn(a, g) ==
  CASE a.stage = "PAGE" -> PageVerdict(g, a.scenario)
    [] a.stage = "EMBED" -> EmbedVerdict(g, a.scenario)
    [] a.stage \in {"SSE", "RECONNECT"} -> SseVerdict(g, a.scenario)
    [] a.stage = "SESSION" -> SessionVerdict(g)
    [] a.stage = "SEND" -> SendVerdict(g)

\* _combine_overall
Worst == <<"INTERNAL_ERROR", "CONTRACT_MISMATCH", "INCONCLUSIVE_ENVIRONMENT",
           "INCONCLUSIVE_INPUT_OR_REMOTE", "PASS">>
Combined(values) ==
  Worst[Min({i \in DOMAIN Worst : Worst[i] \in values \cup {"PASS"}})]

exit_code ==
  [PASS |-> 0, INCONCLUSIVE_ENVIRONMENT |-> 10, INCONCLUSIVE_INPUT_OR_REMOTE |-> 11,
   CONTRACT_MISMATCH |-> 12, INTERNAL_ERROR |-> 70]

-----------------------------------------------------------------------------
(* The same replies, as `diagnose' judges them.                             *)

Diagnosis(overall, stage, reason) ==
  [overall |-> overall, stage |-> stage, reason |-> reason]

\* _diagnostic_failure; stage is the one of the request.
DiagnosticFailure(stage, kind) ==
  Diagnosis(IF kind \in {"NETWORK", "TIMEOUT"} THEN "INCONCLUSIVE_ENVIRONMENT"
            ELSE "CONTRACT_MISMATCH",
            stage \o "_REQUEST", IF kind = "SHAPE" THEN "PAGE_SCHEMA" ELSE kind)

\* Mutant of DiagnosedReply: any status but 200 is the remote's.
DiagnosedReplyAnyStatus(g, stage, media) ==
  CASE Unread(g, media) ->
         Diagnosis("CONTRACT_MISMATCH", stage \o "_CONTRACT", "MEDIA_TYPE")
    [] ~Unread(g, media) /\ g.body \in FailureKinds -> DiagnosticFailure(stage, g.body)
    [] OTHER ->
         Diagnosis("INCONCLUSIVE_INPUT_OR_REMOTE", stage \o "_REQUEST", "REMOTE_STATUS")

\* diagnose_channel, a reply that is not a readable 200.
DiagnosedReply(g, stage, media) ==
  CASE Unread(g, media) ->
         Diagnosis("CONTRACT_MISMATCH", stage \o "_CONTRACT", "MEDIA_TYPE")
    [] ~Unread(g, media) /\ g.body \in FailureKinds -> DiagnosticFailure(stage, g.body)
    [] ~Unread(g, media) /\ g.body \notin FailureKinds /\ Success(g.status) ->
         Diagnosis("CONTRACT_MISMATCH", stage \o "_CONTRACT", "UNEXPECTED_STATUS")
    [] OTHER ->
         Diagnosis("INCONCLUSIVE_INPUT_OR_REMOTE", stage \o "_REQUEST", "REMOTE_STATUS")

Readable(g, media) ==
  g.status = 200 /\ g.media = media /\ g.body \notin FailureKinds

\* diagnose_channel, the page and the embed document.
DiagnosedContract(g, stage) ==
  CASE g.body = "OFFLINE" -> Diagnosis("PASS", "COMPLETE", "OFFLINE_ACCEPTED")
    [] g.body = "INTERSTITIAL" ->
         Diagnosis("INCONCLUSIVE_INPUT_OR_REMOTE", "PAGE_CONTRACT", "PAGE_INTERSTITIAL")
    [] g.body = "LIVE" -> Diagnosis("PASS", "COMPLETE", "LIVE_ACCEPTED")
    [] OTHER -> Diagnosis("CONTRACT_MISMATCH", stage \o "_CONTRACT", stage \o "_SCHEMA")

Diagnosed(a, g) ==
  LET media == IF a.stage = "PAGE" THEN "HTML" ELSE "JSON"
  IN  IF Readable(g, media) THEN DiagnosedContract(g, a.stage)
      ELSE DiagnosedReply(g, a.stage, media)

-----------------------------------------------------------------------------
(* From one request to the next. *)

Successor(a) ==
  CASE a.stage = "PAGE" -> "EMBED"
    [] a.stage = "EMBED" /\ a.scenario = "TEST" -> "SESSION"
    [] a.stage = "EMBED" /\ a.scenario # "TEST" -> "SSE"
    [] a.stage = "SSE" /\ a.scenario = "LIVE" -> "RECONNECT"
    [] a.stage = "SESSION" /\ args.send -> "SEND"
    [] OTHER -> "none"

\* Nothing is in hand but the next request, with a deadline of its own.
Request(a) ==
  /\ at' = a /\ pc' = "request" /\ req' = NoRequest
  /\ got' = NoReply /\ events' = [total |-> 0, data |-> <<>>]

Finished(overall, attempts, stage, reason) ==
  /\ report' = [overall |-> overall, attempts |-> attempts,
                exit |-> exit_code[overall], stage |-> stage, reason |-> reason]
  /\ pc' = "done"

\* The report, its `send_attempts' written at each return.
Reported ==
  Finished(Combined(outcomes'), IF at.stage = "SEND" THEN 1 ELSE 0, "none", "none")

\* StageResult, without the status, media type and timing it reports.
Row(outcome, observation) ==
  [scenario |-> at.scenario, stage |-> at.stage, outcome |-> outcome,
   observation |-> observation]

\* --send was not given.
NotRun ==
  [scenario |-> "TEST", stage |-> "SEND", outcome |-> "NOT_RUN",
   observation |-> "SEND_DISABLED"]

\* diagnose_channel goes on from a live page to its embed document.
DiagnoseConcludes(g) ==
  /\ IF at.stage = "PAGE" /\ Readable(g, "HTML") /\ g.body = "LIVE"
     THEN Request([at EXCEPT !.stage = "EMBED"]) /\ report' = report
     ELSE LET d == Diagnosed(at, g)
          IN  /\ Finished(d.overall, 0, d.stage, d.reason)
              /\ got' = g
              /\ UNCHANGED <<at, req, events>>
  /\ UNCHANGED <<rows, outcomes>>

\* validate_public and validate_authenticated: the row of the reply, then the
\* next stage, the offline channel, or the report.
ValidationConcludes(g) ==
  LET v == VerdictOn(at, g)
      row == Row(v.outcome, v.observation)
      next == IF v.on THEN Successor(at) ELSE "none"
      unsent == at.stage = "SESSION" /\ v.on /\ ~args.send
  IN  /\ rows' = rows \o (IF unsent THEN <<row, NotRun>> ELSE <<row>>)
      /\ outcomes' = outcomes \cup {v.overall}
      /\ CASE next # "none" -> Request([at EXCEPT !.stage = next]) /\ report' = report
           [] next = "none" /\ at.scenario = "LIVE" ->
                /\ Request([scenario |-> "OFFLINE", stage |-> "PAGE", profile |-> "c"])
                /\ report' = report
           [] OTHER -> Reported /\ got' = g /\ UNCHANGED <<at, req, events>>

\* A 404 of /c/ is no result: /user/ is tried.
Legacy(g) ==
  at.stage = "PAGE" /\ at.profile = "c" /\ g.status = 404 /\ g.body \notin FailureKinds

Conclude(g) ==
  IF Legacy(g)
  THEN Request([at EXCEPT !.profile = "user"]) /\ UNCHANGED <<rows, outcomes, report>>
  ELSE IF args.command = "diagnose" THEN DiagnoseConcludes(g) ELSE ValidationConcludes(g)

\* main, `except Exception': the rows are lost, and with them the attempts.
Internal ==
  /\ IF args.command = "diagnose"
     THEN /\ Finished("INTERNAL_ERROR", 0, "COMPLETE", "INTERNAL")
          /\ UNCHANGED rows
     ELSE /\ Finished("INTERNAL_ERROR", 0, "none", "none")
          /\ rows' = <<[scenario |-> "TEST",
                        stage |-> IF args.command = "authenticated" THEN "SESSION" ELSE "PAGE",
                        outcome |-> "MISMATCH", observation |-> "INTERNAL"]>>
  /\ UNCHANGED <<at, req, got, events, outcomes>>

-----------------------------------------------------------------------------
(* The program's steps and what the remote does. *)

\* main: arguments, terminal, confirmation or session that will not do.
Reject ==
  /\ pc = "start" /\ pc' = "done"
  /\ report' = [NoReport EXCEPT !.exit = 2]
  /\ UNCHANGED <<args, at, req, got, events, rows, outcomes, post>>

\* _read_session_from_tty: a message is posted only once SEND ONCE was typed.
Begin ==
  /\ pc = "start"
  /\ \E typed \in IF args.send THEN {"SEND ONCE", "else"} ELSE {"nothing"} :
       /\ args.send => typed = "SEND ONCE"
       /\ args' = [args EXCEPT !.typed = typed]
  /\ Request(at)
  /\ UNCHANGED <<rows, outcomes, report, post>>

\* open, the request on its way.
Transmit ==
  /\ pc = "request" /\ ~req.sent /\ ~req.late
  /\ req' = [req EXCEPT !.sent = TRUE]
  /\ post' = [post EXCEPT !.made = IF at.stage = "SEND" THEN @ + 1 ELSE @]
  /\ UNCHANGED <<args, pc, at, got, events, rows, outcomes, report>>

\* Rumble takes a message that was posted to it, unless it said it did not.
Take ==
  /\ post.made > 0 /\ ~post.taken /\ ~post.refused
  /\ post' = [post EXCEPT !.taken = TRUE]
  /\ UNCHANGED <<args, pc, at, req, got, events, rows, outcomes, report>>

\* Mutant of DeadlinePasses: the deadline ends with the headers.
DeadlinePassesUntilOpen ==
  /\ pc = "request" /\ ~req.late
  /\ req' = [req EXCEPT !.late = TRUE]
  /\ UNCHANGED <<args, pc, at, got, events, rows, outcomes, report, post>>

DeadlinePasses ==
  /\ pc \in {"request", "reply", "stream"} /\ ~req.late
  /\ req' = [req EXCEPT !.late = TRUE]
  /\ UNCHANGED <<args, pc, at, got, events, rows, outcomes, report, post>>

\* An exception of the handler's: nothing was opened, or got is cut short.
Fail(kind) == Conclude([got EXCEPT !.body = kind]) /\ UNCHANGED <<args, post>>

\* _hard_wall_deadline.
Expire == pc \in {"request", "reply", "stream"} /\ req.late /\ Fail("TIMEOUT")

Breaks == pc \in {"request", "reply", "stream"} /\ Fail("NETWORK")

\* A reply whose headers exceed the limits, or a body that does.
OverLimit ==
  /\ \/ pc = "request" /\ req.sent /\ Fail("HEADER_LIMIT")
     \/ pc = "request" /\ req.sent /\ Fail("TOO_LARGE")
     \/ pc = "reply" /\ Fail("TOO_LARGE")
  /\ ~req.late

\* http.client's own exceptions, and those of json.loads that are not a
\* JSONDecodeError, are caught by main only.
Raises ==
  /\ pc \in {"request", "reply", "stream"} /\ (pc = "request" => req.sent)
  /\ Internal
  /\ UNCHANGED <<args, post>>

\* Mutant of RedirectLimit: the default, for every request.
RedirectLimitDefault == MaxRedirects

\* Mutant of RedirectLimit: one redirect too many.
RedirectLimitOver == MaxRedirects + 1

RedirectLimit == IF at.stage \in {"SESSION", "SEND"} THEN 0 ELSE MaxRedirects

\* open, 30x: only to the same resource and only so often, within the deadline.
Redirected ==
  /\ pc = "request" /\ req.sent /\ ~req.late
  /\ \E location \in {"none", "same", "other"} :
       IF location = "same" /\ req.redirects < RedirectLimit
       THEN /\ req' = [req EXCEPT !.redirects = @ + 1, !.sent = FALSE]
            /\ UNCHANGED <<args, pc, at, got, events, rows, outcomes, report, post>>
       ELSE Fail("REDIRECT")

\* OpenedResponse.  Only a success has a media type of interest.
Replies ==
  [status : {200, 201}, media : Medias, retry : {FALSE}, body : {"unread"}]
    \cup [status : Statuses \ (Redirects \cup {200, 201}), media : {"OTHER"},
          retry : {FALSE}, body : {"unread"}]
    \cup [status : {429}, media : {"OTHER"}, retry : {TRUE}, body : {"unread"}]

\* Does the handler read the body?
Reads(a, g) ==
  CASE a.stage = "PAGE" -> ~Unread(g, "HTML")
    [] a.stage = "EMBED" -> ~Unread(g, "JSON")
    [] a.stage \in {"SSE", "RECONNECT"} -> g.status = 200 /\ g.media = "EVENT_STREAM"
    [] OTHER -> g.status = 200 /\ g.media = "JSON"

\* Rumble answers a message it takes with 200, unless it fails on the way, and
\* takes no message it has answered otherwise.
Refusal(status) == status \notin {200, 408} /\ status < 500

Opens ==
  /\ pc = "request" /\ req.sent /\ ~req.late
  /\ \E g \in Replies :
       /\ IF at.stage = "SEND"
          THEN /\ g.status = 200 => post.taken
               /\ Refusal(g.status) => ~post.taken
               /\ post' = [post EXCEPT !.refused = Refusal(g.status)]
          ELSE post' = post
       /\ IF Reads(at, g)
          THEN /\ pc' = IF at.stage \in {"SSE", "RECONNECT"} THEN "stream" ELSE "reply"
               /\ got' = g
               /\ UNCHANGED <<at, req, events, rows, outcomes, report>>
          ELSE Conclude(g)
  /\ UNCHANGED args

\* What a body may turn out to be.
Bodies ==
  CASE at.stage = "PAGE" /\ got.status = 200 -> PageStates
    [] at.stage = "EMBED" /\ got.status = 200 -> EmbedStates
    [] at.stage \in {"SESSION", "SEND"} -> {"valid", "wrong", "SHAPE"}
    [] OTHER -> {"text"}

\* Mutant of ReadBody: what was read is not checked against the deadline.
ReadBodyLate ==
  /\ pc = "reply"
  /\ \E body \in Bodies : Conclude([got EXCEPT !.body = body])
  /\ UNCHANGED <<args, post>>

\* read_bounded and what parses the body.
ReadBody ==
  /\ pc = "reply" /\ ~req.late
  /\ \E body \in Bodies : Conclude([got EXCEPT !.body = body])
  /\ UNCHANGED <<args, post>>

-----------------------------------------------------------------------------
(* parse_sse_init. *)

\* json.loads of the data lines joined: an event may span lines.
EventOf(data) ==
  CASE data \in {<<"init">>, <<"head", "tail">>} -> "init"
    [] data = <<"other">> -> "other"
    [] OTHER -> "SHAPE"

Reading(data) ==
  /\ events' = [total |-> events.total + 1, data |-> data]
  /\ UNCHANGED <<pc, at, req, got, rows, outcomes, report>>

StreamIs(body) == Conclude([got EXCEPT !.body = body])

DataLine ==
  /\ events.total < MaxLines
  /\ \E line \in {"init", "other", "head", "tail"} : Reading(Append(events.data, line))

CommentLine == events.total < MaxLines /\ Reading(events.data)

\* consume_event: an init ends the reading, any other event is passed over.
BlankLine ==
  /\ events.total < MaxLines
  /\ CASE events.data = <<>> \/ EventOf(events.data) = "other" -> Reading(<<>>)
       [] OTHER -> StreamIs(EventOf(events.data))

\* The end of the stream ends an event too.
EndOfStream ==
  StreamIs(IF events.data # <<>> /\ EventOf(events.data) = "init" THEN "init" ELSE "SHAPE")

LongLine == StreamIs("TOO_LARGE")
TooManyLines == events.total = MaxLines /\ StreamIs("TOO_LARGE")

ReadLine ==
  /\ pc = "stream" /\ ~req.late
  /\ DataLine \/ CommentLine \/ BlankLine \/ EndOfStream \/ LongLine \/ TooManyLines
  /\ UNCHANGED <<args, post>>

Next ==
  \/ Reject \/ Begin \/ Transmit \/ Take \/ DeadlinePasses \/ Expire \/ Breaks
  \/ OverLimit \/ Raises \/ Redirected \/ Opens \/ ReadBody \/ ReadLine

Spec == Init /\ [][Next]_vars

\* Time passes, and the alarm interrupts what waits.
FairSpec == Spec /\ WF_vars(DeadlinePasses) /\ WF_vars(Expire)

-----------------------------------------------------------------------------
(* Properties. *)

TypeOK ==
  /\ args \in [command : {"public", "diagnose", "authenticated"}, send : BOOLEAN,
               typed : {"nothing", "SEND ONCE", "else"}]
  /\ pc \in {"start", "request", "reply", "stream", "done"}
  /\ at \in [scenario : Scenarios, stage : Stages, profile : {"c", "user"}]
  /\ req \in [redirects : 0 .. MaxRedirects, sent : BOOLEAN, late : BOOLEAN]
  /\ got.status \in Statuses \cup {0} /\ got.media \in Medias
  /\ events.total \in 0 .. MaxLines
  /\ outcomes \subseteq Overalls
  /\ report.overall \in Overalls \cup {"none"} /\ report.attempts \in 0 .. 1
  /\ post \in [made : Nat, taken : BOOLEAN, refused : BOOLEAN]

RowsOf(stage) == {i \in DOMAIN rows : rows[i].stage = stage}
PassRow(scenario, stage) ==
  \E i \in DOMAIN rows : /\ rows[i].scenario = scenario /\ rows[i].stage = stage
                        /\ rows[i].outcome = "PASS"

\* A message is posted once at most, only for --send, after SEND ONCE was typed
\* and the session was accepted: a redirect or a failure never posts it again
\* (validate_authenticated, max_redirects=0).
OnePost ==
  /\ post.made <= 1
  /\ post.made > 0 => args.send /\ args.typed = "SEND ONCE"
  /\ post.made > 0 /\ report.overall # "INTERNAL_ERROR" => PassRow("TEST", "SESSION")

\* The report never denies a message Rumble took, nor claims one it did not: a
\* row that says rejected or not run is never of a message taken, in time or
\* later, and one that says accepted always is.
SendRowTrue ==
  \A i \in RowsOf("SEND") :
    /\ rows[i].observation \in {"SEND_REJECTED", "RETRY_AFTER", "SEND_DISABLED"}
         => ~post.taken
    /\ rows[i].outcome = "PASS" => post.taken

\* Exit code 0 is proof: of a live channel resolved and streamed twice and an
\* offline one established as such, or of a session and, with --send, of a
\* message taken.  It stands on rows, each the verdict on a reply of its own.
PassIsProven ==
  pc = "done" /\ report.exit = 0 =>
    /\ args.command = "public" =>
         /\ \A s \in {"PAGE", "EMBED", "SSE", "RECONNECT"} : PassRow("LIVE", s)
         /\ Last(rows).scenario = "OFFLINE" /\ Last(rows).outcome = "OFFLINE"
    /\ args.command = "authenticated" =>
         /\ \A s \in {"PAGE", "EMBED", "SESSION"} : PassRow("TEST", s)
         /\ IF args.send THEN PassRow("TEST", "SEND") /\ post.taken
            ELSE RowsOf("SEND") # {} /\ post.made = 0

Severity ==
  [PASS |-> 5, OFFLINE |-> 5, NOT_RUN |-> 5, INPUT_REMOTE |-> 4, ENVIRONMENT |-> 3,
   MISMATCH |-> 2]

\* The overall result and the rows, kept apart by the code and appended to at
\* some thirty returns, agree: the overall result is that of the worst row.
OverallIsWorst ==
  pc = "done" /\ args.command # "diagnose" /\ report.overall \notin {"none", "INTERNAL_ERROR"} =>
    report.overall = Worst[Min({Severity[rows[i].outcome] : i \in DOMAIN rows})]

\* `diagnose' and the validator judge the same reply alike, though each has its
\* own copy of the rules: diagnose passes a channel exactly when the validator
\* finds it live or, asked for an offline one, offline; and otherwise both
\* come to the same overall result.
ResolversAgree ==
  pc = "done" /\ args.command = "diagnose" /\ report.overall \notin {"none", "INTERNAL_ERROR"} =>
    LET live == VerdictOn(at, got)
        offline == VerdictOn([at EXCEPT !.scenario = "OFFLINE"], got)
    IN  IF report.overall = "PASS" THEN live.on \/ offline.outcome = "OFFLINE"
        ELSE live.overall = report.overall /\ offline.overall = report.overall

\* What arrives after its request's deadline proves nothing: no body read or
\* event streamed by then makes a row pass.
LateProvesNothing ==
  [][Len(rows') > Len(rows) /\ Last(rows').outcome = "PASS" => ~req.late]_vars

\* However the remote stalls, drips or redirects, a run that has begun ends.
RunEnds == pc \notin {"start", "done"} ~> pc = "done"

\* The report owns up to every POST made: "Mutation attempts" is never less
\* than what went on the wire (Report.send_attempts, _internal_report).
AttemptsReported == pc = "done" => post.made <= report.attempts
=============================================================================
