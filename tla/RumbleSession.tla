---------------------------- MODULE RumbleSession ----------------------------
(***************************************************************************)
(* Who Chatterino is on Rumble, and what it sends: SessionController, the   *)
(* account manager and its credential store, the sign-in of the application *)
(* controller, and what a channel makes of a message it sends.              *)
(*                                                                         *)
(* Everything runs on the GUI thread.  What interleaves are the answers: of *)
(* the server to probes, eligibility requests and messages, of the keyring  *)
(* to reads, writes and deletions, of the browser to a sign-in, and the     *)
(* user, who selects, removes and adds accounts in between.  A generation    *)
(* is modelled by where a request is kept: `ses' holds the requests of the   *)
(* current generation, `late' those of earlier ones.  A credential is named  *)
(* by the account it belongs to.  The connection of a channel is            *)
(* RumbleConnection's; here it has a stream, and is connected or not.        *)
(***************************************************************************)
EXTENDS Naturals, Sequences, SequencesExt, FiniteSets

CONSTANTS
  Accounts,   \* Rumble accounts
  Channels,   \* open channels
  Streams,    \* stream IDs they may have
  None,       \* no account, no stream
  MaxLogins,  \* bound: sign-ins in the browser
  MaxSelects, \* bound: accounts selected or removed
  MaxSends,   \* bound: messages sent
  MaxChanges  \* bound: connections and disconnections

ASSUME SessionAssumption ==
  /\ IsFiniteSet(Accounts)
  /\ None \notin Accounts /\ None \notin Streams
  /\ MaxLogins \in Nat /\ MaxSelects \in Nat
  /\ MaxSends \in Nat /\ MaxChanges \in Nat

VARIABLES
  ses,    \* SessionController::State
  late,   \* requests of earlier generations, which may still be answered
  acct,   \* RumbleAccountManager: the accounts, those with a credential in
          \* memory, the selected one
  login,  \* is the sign-in browser open?
  jobs,   \* keyring jobs, run one at a time in the order they were queued
  stored, \* the accounts whose credential is in the keyring
  chan,   \* per channel: stream, connected, its own messages it shows
  posted, \* the messages Rumble has taken, each with its stream
  hist,   \* was an ambiguous outcome dropped? credentials that were not deleted
  env     \* what has happened so far, for the bounds

vars == <<ses, late, acct, login, jobs, stored, chan, posted, hist, env>>

Messages == 1 .. MaxSends

\* `fresh': the channel's sendGeneration is still the one captured.
NoSend == [m |-> 0, chan |-> None, stream |-> None, fresh |-> FALSE]

NoSession ==
  [state |-> "Empty", bearer |-> None, identity |-> None, probe |-> "none",
   sending |-> FALSE, send |-> NoSend, reqs |-> {},
   elig |-> [s \in Streams |-> None], denied |-> None, blocked |-> "no"]

\* After load(): every account saved is listed and its credential asked for.
Init ==
  /\ ses = NoSession /\ late = {}
  /\ stored \in SUBSET Accounts
  /\ \E list \in SUBSET Accounts, current \in Accounts \cup {None} :
       /\ stored \subseteq list /\ current \in list \cup {None}
       /\ acct = [list |-> list, ready |-> {}, current |-> current]
       /\ jobs \in {[i \in DOMAIN q |-> [op |-> "read", of |-> q[i]]] :
                      q \in SetToSeqs(list)}
  /\ login = FALSE
  /\ chan = [c \in Channels |->
               [stream |-> None, up |-> FALSE, rows |-> <<>>, optimistic |-> {}]]
  /\ posted = {}
  /\ hist = [unshown |-> FALSE, undeleted |-> {}]
  /\ env = [logins |-> 0, selects |-> 0, sends |-> 0, changes |-> 0]

-----------------------------------------------------------------------------
(* The session. *)

Request(kind, of, stream, m) ==
  [kind |-> kind, of |-> of, stream |-> stream, m |-> m]

\* The requests session s waits for.
Requests(s) ==
  {Request("elig", s.bearer, x, 0) : x \in s.reqs}
    \cup (IF s.probe = "none" THEN {} ELSE {Request("probe", s.bearer, None, 0)})
    \cup (IF s.send = NoSend THEN {}
          ELSE {Request("send", s.bearer, s.send.stream, s.send.m)})

\* notify: every channel asks for its eligibility, unless it is known or on
\* its way.
Notified(s) ==
  IF s.state # "Valid" THEN s
  ELSE [s EXCEPT !.reqs = @ \cup {x \in {chan'[c].stream : c \in Channels} \ {None} :
                                    s.elig[x] = None}]

\* importSession and validate, on a session that was cleared.
Probing(a, probe) ==
  [NoSession EXCEPT !.state = "Validating", !.bearer = a, !.probe = probe]

\* Mutant of Replaced: what was known of the streams outlives clear().
ReplacedKeeping(s, t) ==
  ses' = [t EXCEPT !.elig = s.elig] /\ late' = late \cup Requests(s)

\* clear() of s, its requests going to an earlier generation, and what follows.
Replaced(s, t) == ses' = t /\ late' = late \cup Requests(s)

\* Mutant of Selected: the credential is not asked for.
SelectedUnready(a) == Probing(a.current, "plain")

\* The session of the account that is selected in a, if its credential is there.
Selected(a) ==
  IF a.current \in a.ready THEN Probing(a.current, "plain") ELSE NoSession

\* Mutant of Activate: any session that is valid will do.
ActivateAnyValid(a) ==
  IF a.current # None /\ ses.state = "Valid"
  THEN UNCHANGED <<ses, late>>
  ELSE Replaced(ses, Selected(a))

\* activateSelectedAccount.
Activate(a) ==
  IF a.current # None /\ ses.state = "Valid" /\ ses.identity = a.current
  THEN UNCHANGED <<ses, late>>
  ELSE Replaced(ses, Selected(a))

-----------------------------------------------------------------------------
(* Sign-in. *)

\* loginInBrowser.
Login ==
  /\ env.logins < MaxLogins /\ ~login
  /\ login' = TRUE
  /\ env' = [env EXCEPT !.logins = @ + 1]
  /\ UNCHANGED <<ses, late, acct, jobs, stored, chan, posted, hist>>

\* The browser closes without a session, or is cancelled.
BrowserFails ==
  /\ login
  /\ login' = FALSE
  /\ UNCHANGED <<ses, late, acct, jobs, stored, chan, posted, hist, env>>

\* The browser hands over a session of a: it is imported and validated.
BrowserSession(a) ==
  /\ login
  /\ login' = FALSE
  /\ Replaced(ses, Probing(a, "login"))
  /\ UNCHANGED <<acct, jobs, stored, chan, posted, hist, env>>

\* What an accepted probe makes of session s whose bearer belongs to a.
Accepted(s, a) ==
  Notified([s EXCEPT !.state = "Valid", !.identity = a, !.probe = "none",
                     !.blocked = "no"])

\* The probe of a saved account.
ProbeAccepted ==
  /\ ses.probe = "plain"
  /\ UNCHANGED <<late, acct, login, jobs, stored, chan, posted, hist, env>>
  /\ ses' = Accepted(ses, ses.bearer)

\* The probe of a sign-in: the credential is to be saved.
LoginAccepted ==
  /\ ses.probe = "login"
  /\ UNCHANGED <<late, acct, login, stored, chan, posted, hist, env>>
  /\ ses' = Accepted(ses, ses.bearer)
  /\ jobs' = Append(jobs, [op |-> "write", of |-> ses.bearer])

\* Mutant of LoginRefused: the session of the sign-in is left in place.
LoginRefusedKeeping ==
  /\ ses.probe = "login"
  /\ ses' = [ses EXCEPT !.state = "Unvalidated", !.probe = "none"]
  /\ UNCHANGED <<late, acct, login, jobs, stored, chan, posted, hist, env>>

\* The probe of a sign-in was rejected, limited or not answered, or the
\* account cannot be named or saved: back to the account that is selected.
LoginRefused ==
  /\ ses.probe = "login"
  /\ Replaced(ses, Selected(acct))
  /\ UNCHANGED <<acct, login, jobs, stored, chan, posted, hist, env>>

\* The probe of a saved account: HTTP 401 or 403.
ProbeRejected ==
  /\ ses.probe = "plain"
  /\ Replaced(ses, NoSession)
  /\ UNCHANGED <<acct, login, jobs, stored, chan, posted, hist, env>>

\* The same: 429, another answer, or none in time.
ProbeFails(limited) ==
  /\ ses.probe = "plain"
  /\ ses' = [ses EXCEPT !.state = "Unvalidated", !.probe = "none",
                        !.blocked = IF limited THEN "future" ELSE @]
  /\ UNCHANGED <<late, acct, login, jobs, stored, chan, posted, hist, env>>

\* The deadline in `blocked' passes.
BlockExpires ==
  /\ ses.blocked = "future"
  /\ ses' = [ses EXCEPT !.blocked = "past"]
  /\ UNCHANGED <<late, acct, login, jobs, stored, chan, posted, hist, env>>

-----------------------------------------------------------------------------
(* Accounts. *)

Select(a) ==
  /\ env.selects < MaxSelects
  /\ a \in acct.list \cup {None} /\ a # acct.current
  /\ acct' = [acct EXCEPT !.current = a]
  /\ Activate(acct')
  /\ env' = [env EXCEPT !.selects = @ + 1]
  /\ UNCHANGED <<login, jobs, stored, chan, posted, hist>>

\* Mutant of RemoveAccount: the credential stays in the keyring.
RemoveAccountUnsaved(a) ==
  /\ env.selects < MaxSelects /\ a \in acct.list
  /\ acct' = [list |-> acct.list \ {a}, ready |-> acct.ready \ {a},
              current |-> IF acct.current = a THEN None ELSE acct.current]
  /\ IF acct.current = a THEN Activate(acct') ELSE UNCHANGED <<ses, late>>
  /\ env' = [env EXCEPT !.selects = @ + 1]
  /\ UNCHANGED <<login, jobs, stored, chan, posted, hist>>

\* removeAccount.
RemoveAccount(a) ==
  /\ env.selects < MaxSelects /\ a \in acct.list
  /\ acct' = [list |-> acct.list \ {a}, ready |-> acct.ready \ {a},
              current |-> IF acct.current = a THEN None ELSE acct.current]
  /\ IF acct.current = a THEN Activate(acct') ELSE UNCHANGED <<ses, late>>
  /\ jobs' = Append(jobs, [op |-> "erase", of |-> a])
  /\ env' = [env EXCEPT !.selects = @ + 1]
  /\ UNCHANGED <<login, stored, chan, posted, hist>>

\* The next job of the keyring is this one.
Runs(op, a) ==
  /\ jobs # <<>> /\ Head(jobs) = [op |-> op, of |-> a]
  /\ jobs' = Tail(jobs)

\* load's read: the credential of an account that may have been removed since.
CredentialRead(a) ==
  /\ Runs("read", a) /\ a \in stored
  /\ acct' = [acct EXCEPT !.ready = @ \cup ({a} \cap acct.list)]
  /\ IF acct.current = a THEN Activate(acct') ELSE UNCHANGED <<ses, late>>
  /\ UNCHANGED <<login, stored, chan, posted, hist, env>>

ReadFails(a) ==
  /\ Runs("read", a)
  /\ UNCHANGED <<ses, late, acct, login, stored, chan, posted, hist, env>>

\* addValidatedAccount: the account is added, or added again, and selected.
CredentialWritten(a) ==
  /\ Runs("write", a)
  /\ stored' = stored \cup {a}
  /\ acct' = [list |-> acct.list \cup {a}, ready |-> acct.ready \cup {a},
              current |-> a]
  /\ IF acct.current = a THEN UNCHANGED <<ses, late>> ELSE Activate(acct')
  /\ UNCHANGED <<login, chan, posted, hist, env>>

\* The sign-in fails after all: back to the account that is selected.
WriteFails(a) ==
  /\ Runs("write", a)
  /\ Replaced(ses, Selected(acct))
  /\ UNCHANGED <<acct, login, stored, chan, posted, hist, env>>

CredentialErased(a) ==
  /\ Runs("erase", a)
  /\ stored' = stored \ {a}
  /\ UNCHANGED <<ses, late, acct, login, chan, posted, hist, env>>

EraseFails(a) ==
  /\ Runs("erase", a)
  /\ hist' = [hist EXCEPT !.undeleted = @ \cup {a}]
  /\ UNCHANGED <<ses, late, acct, login, stored, chan, posted, env>>

-----------------------------------------------------------------------------
(* Eligibility: which emotes the account may use on a stream. *)

EligibilityKnown(x) ==
  /\ x \in ses.reqs
  /\ UNCHANGED <<late, acct, login, jobs, stored, chan, posted, hist, env>>
  /\ ses' = Notified([ses EXCEPT !.reqs = @ \ {x}, !.elig[x] = ses.bearer])

\* HTTP 401 or 403 ends the session, whatever else it waits for.
EligibilityRejected(x) ==
  /\ x \in ses.reqs
  /\ Replaced([ses EXCEPT !.reqs = @ \ {x}], NoSession)
  /\ UNCHANGED <<acct, login, jobs, stored, chan, posted, hist, env>>

\* No usable answer.  It is asked for again at the next notify.
EligibilityUnknown(x) ==
  /\ x \in ses.reqs
  /\ ses' = [ses EXCEPT !.reqs = @ \ {x}]
  /\ UNCHANGED <<late, acct, login, jobs, stored, chan, posted, hist, env>>

\* Mutant of LateAnswer: a late answer counts like any other.
LateAnswerCounts(r) ==
  /\ r \in late
  /\ late' = late \ {r}
  /\ UNCHANGED <<acct, login, jobs, stored, chan, posted, hist, env>>
  /\ ses' = IF r.kind = "probe" THEN Accepted(ses, r.of) ELSE ses

\* The answer to a request of an earlier generation.  RumbleQtAuthTransport
\* drops it when the request is cancelled; AuthTransport does not promise to.
LateAnswer(r) ==
  /\ r \in late
  /\ late' = late \ {r}
  /\ UNCHANGED <<ses, acct, login, jobs, stored, chan, posted, hist, env>>

-----------------------------------------------------------------------------
(* Channels. *)

\* Messages sent on c now belong to an earlier sendGeneration.
SendOutdated(s, c) ==
  IF s.send.chan = c THEN [s EXCEPT !.send.fresh = FALSE] ELSE s

Shown(c) == {chan[c].rows[i].m : i \in DOMAIN chan[c].rows}

\* Rows of c with message m in place of the optimistic one.
Upgraded(c, ms) ==
  [i \in DOMAIN chan[c].rows |->
     IF chan[c].rows[i].m \in ms \cap chan[c].optimistic
     THEN [chan[c].rows[i] EXCEPT !.real = TRUE] ELSE chan[c].rows[i]]

\* New rows, of the messages in `order'.
Rows(order, real) == [i \in DOMAIN order |-> [m |-> order[i], real |-> real]]

\* The orders in which those of ms that c does not show are added.
Additions(c, ms) == SetToSeqs(ms \ Shown(c))

\* What the channel shows once the authoritative messages ms have come in.
Authoritative(c, ms, order) ==
  [chan[c] EXCEPT !.rows = Upgraded(c, ms) \o Rows(order, TRUE),
                  !.optimistic = @ \ ms]

\* The messages of stream x that Rumble has.
Taken(x) == {p.m : p \in {q \in posted : q.stream = x}}

\* The channel connects to stream x, whose init batch may bring back any of
\* the messages sent there.
Connect(c, x) ==
  /\ env.changes < MaxChanges /\ ~chan[c].up
  /\ \E ms \in SUBSET Taken(x) : \E order \in Additions(c, ms) :
       chan' = [chan EXCEPT ![c] = [Authoritative(c, ms, order) EXCEPT
                                      !.stream = x, !.up = TRUE]]
  /\ ses' = Notified(SendOutdated(ses, c))
  /\ env' = [env EXCEPT !.changes = @ + 1]
  /\ UNCHANGED <<late, acct, login, jobs, stored, posted, hist>>

\* It leaves Connected.
Disconnect(c) ==
  /\ env.changes < MaxChanges /\ chan[c].up
  /\ chan' = [chan EXCEPT ![c].up = FALSE]
  /\ ses' = SendOutdated(ses, c)
  /\ env' = [env EXCEPT !.changes = @ + 1]
  /\ UNCHANGED <<late, acct, login, jobs, stored, posted, hist>>

\* Mutant of Realtime: a message is shown though its optimistic row is there.
RealtimeAppended(c, m) ==
  /\ chan[c].up /\ m \in Taken(chan[c].stream)
  /\ chan' = [chan EXCEPT ![c].rows = @ \o Rows(<<m>>, TRUE),
                          ![c].optimistic = @ \ {m}]
  /\ UNCHANGED <<ses, late, acct, login, jobs, stored, posted, hist, env>>

\* applyRealtimeOwner.
Realtime(c, m) ==
  /\ chan[c].up /\ m \in Taken(chan[c].stream)
  /\ \E order \in Additions(c, {m}) :
       chan' = [chan EXCEPT ![c] = Authoritative(c, {m}, order)]
  /\ UNCHANGED <<ses, late, acct, login, jobs, stored, posted, hist, env>>

\* messageRemovedFromStart: other messages have pushed the oldest row out.
RowEvicted(c) ==
  /\ chan[c].rows # <<>>
  /\ chan' = [chan EXCEPT ![c].rows = Tail(@),
                          ![c].optimistic = @ \ {Head(chan[c].rows).m}]
  /\ UNCHANGED <<ses, late, acct, login, jobs, stored, posted, hist, env>>

-----------------------------------------------------------------------------
(* Sending. *)

\* canSendMessage, and what send() asks for itself.
Writable(c) ==
  /\ chan[c].up /\ chan[c].stream # None
  /\ ses.state = "Valid" /\ ~ses.sending
  /\ ses.denied # chan[c].stream /\ ses.blocked # "future"

Send(c) ==
  /\ env.sends < MaxSends /\ Writable(c)
  /\ env' = [env EXCEPT !.sends = @ + 1]
  /\ UNCHANGED <<late, acct, login, jobs, stored, chan, posted, hist>>
  /\ ses' = Notified([ses EXCEPT !.sending = TRUE,
                                 !.send = [m |-> env.sends + 1, chan |-> c,
                                           stream |-> chan[c].stream,
                                           fresh |-> TRUE]])

\* Rumble takes the message, whether or not anybody waits for the answer.
Take(r) ==
  /\ r \in Requests(ses) \cup late /\ r.kind = "send"
  /\ posted' = posted \cup {[m |-> r.m, stream |-> r.stream]}
  /\ UNCHANGED <<ses, late, acct, login, jobs, stored, chan, hist, env>>

\* The messages Rumble has taken, of all streams.
TakenAnywhere == UNION {Taken(x) : x \in Streams}

\* Mutant of Sent: the session stays busy when the answer is no.
SentStillBusy == [ses EXCEPT !.send = NoSend]

\* The send is over.
Sent == [ses EXCEPT !.send = NoSend, !.sending = FALSE]

\* HTTP 200 with the message's ID: it is shown at once, unless it is there.
SendConfirmed ==
  /\ ses.send # NoSend /\ ses.send.m \in TakenAnywhere
  /\ chan' = IF ses.send.fresh /\ ses.send.m \notin Shown(ses.send.chan)
             THEN [chan EXCEPT
                     ![ses.send.chan].rows = @ \o Rows(<<ses.send.m>>, FALSE),
                     ![ses.send.chan].optimistic = @ \cup {ses.send.m}]
             ELSE chan
  /\ ses' = Notified(Sent)
  /\ UNCHANGED <<late, acct, login, jobs, stored, posted, hist, env>>

\* Time-out, network failure, 408, 5xx, or 200 without an ID: Rumble may have
\* the message, or take it yet.
SendAmbiguous ==
  /\ ses.send # NoSend
  /\ late' = late \cup {r \in Requests(ses) : r.kind = "send"}
  /\ UNCHANGED <<acct, login, jobs, stored, chan, posted, env>>
  /\ ses' = Notified(Sent)
  /\ hist' = [hist EXCEPT !.unshown = @ \/ ~ses.send.fresh]

\* What a refusal changes: 401, 403, 429 with and without a usable
\* Retry-After, any other.
Refused(status) ==
  CASE status = "401" -> [Sent EXCEPT !.state = "Unvalidated"]
    [] status = "403" -> [Sent EXCEPT !.denied = ses.send.stream]
    [] status = "429" -> [Sent EXCEPT !.blocked = "future"]
    [] status = "429 bare" ->
         [Sent EXCEPT !.blocked = IF @ = "no" THEN "future" ELSE @]
    [] OTHER -> Sent

SendRefused(status) ==
  /\ ses.send # NoSend /\ ses.send.m \notin TakenAnywhere
  /\ UNCHANGED <<late, acct, login, jobs, stored, chan, posted, hist, env>>
  /\ ses' = Notified(Refused(status))

-----------------------------------------------------------------------------
SessionAnswers ==
  \/ ProbeAccepted \/ ProbeRejected \/ \E l \in BOOLEAN : ProbeFails(l)
  \/ LoginAccepted \/ LoginRefused

SendAnswers ==
  \/ SendConfirmed \/ SendAmbiguous
  \/ \E status \in {"401", "403", "429", "429 bare", "400"} : SendRefused(status)

KeyringAnswers ==
  \E a \in Accounts :
    \/ CredentialRead(a) \/ ReadFails(a) \/ CredentialWritten(a) \/ WriteFails(a)
    \/ CredentialErased(a) \/ EraseFails(a)

Next ==
  \/ Login \/ BrowserFails \/ \E a \in Accounts : BrowserSession(a)
  \/ SessionAnswers \/ SendAnswers \/ KeyringAnswers \/ BlockExpires
  \/ \E a \in Accounts \cup {None} : Select(a)
  \/ \E a \in Accounts : RemoveAccount(a)
  \/ \E x \in Streams :
       EligibilityKnown(x) \/ EligibilityRejected(x) \/ EligibilityUnknown(x)
  \/ \E r \in late : LateAnswer(r)
  \/ \E r \in Requests(ses) \cup late : Take(r)
  \/ \E c \in Channels :
       \/ \E x \in Streams : Connect(c, x)
       \/ Disconnect(c) \/ RowEvicted(c) \/ Send(c)
       \/ \E m \in Messages : Realtime(c, m)

Spec == Init /\ [][Next]_vars

-----------------------------------------------------------------------------
(* Properties. *)

TypeOK ==
  /\ ses \in [state : {"Empty", "Unvalidated", "Validating", "Valid"},
              bearer : Accounts \cup {None}, identity : Accounts \cup {None},
              probe : {"none", "plain", "login"}, sending : BOOLEAN,
              send : [m : 0 .. MaxSends, chan : Channels \cup {None},
                      stream : Streams \cup {None}, fresh : BOOLEAN],
              reqs : SUBSET Streams, elig : [Streams -> Accounts \cup {None}],
              denied : Streams \cup {None}, blocked : {"no", "future", "past"}]
  /\ late \subseteq [kind : {"probe", "send", "elig"}, of : Accounts,
                     stream : Streams \cup {None}, m : 0 .. MaxSends]
  /\ acct \in [list : SUBSET Accounts, ready : SUBSET Accounts,
               current : Accounts \cup {None}]
  /\ login \in BOOLEAN
  /\ jobs \in Seq([op : {"read", "write", "erase"}, of : Accounts])
  /\ stored \subseteq Accounts
  /\ chan \in [Channels ->
                [stream : Streams \cup {None}, up : BOOLEAN,
                 rows : Seq([m : Messages, real : BOOLEAN]),
                 optimistic : SUBSET Messages]]
  /\ posted \subseteq [m : Messages, stream : Streams]
  /\ hist \in [unshown : BOOLEAN, undeleted : SUBSET Accounts]
  /\ env \in [logins : 0 .. MaxLogins, selects : 0 .. MaxSelects,
              sends : 0 .. MaxSends, changes : 0 .. MaxChanges]

\* What the session believes of the account is what was said of the bearer it
\* holds: an identity or an eligibility never comes from an answer to a request
\* made with another bearer, however late it is.
IdentityOfBearer ==
  /\ ses.identity \in {None, ses.bearer}
  /\ \A x \in Streams : ses.elig[x] \in {None, ses.bearer}
  /\ ses.state = "Valid" => ses.identity = ses.bearer /\ ses.bearer # None

\* The session is the selected account's, unless a sign-in is being validated
\* or saved: whatever the order of selections, removals, sign-ins and answers
\* of the keyring, nobody sends as an account that is not selected.
SessionIsSelected ==
  ses.bearer # None =>
    \/ ses.bearer = acct.current
    \/ ses.probe = "login"
    \/ Contains(jobs, [op |-> "write", of |-> ses.bearer])

\* The flags that refuse the next validation or message are set exactly while a
\* request of the current generation is on its way, whose answer or 20-second
\* timer resets them: no order of replacements and answers leaves them behind.
BusyIsWaiting ==
  /\ ses.state = "Validating" <=> ses.probe # "none"
  /\ ses.sending <=> ses.send # NoSend
  /\ ~(ses.sending /\ ses.state = "Validating")

\* "either network ordering remains duplicate-free": a message of one's own is
\* shown once, and an optimistic row is one the channel still waits to replace.
OwnMessagesOnce ==
  \A c \in Channels :
    /\ IsInjective([i \in DOMAIN chan[c].rows |-> chan[c].rows[i].m])
    /\ \A i \in DOMAIN chan[c].rows :
         chan[c].rows[i].real <=> chan[c].rows[i].m \notin chan[c].optimistic

\* Once its jobs are done, an account that was removed has no credential in the
\* keyring, unless the keyring refused to delete it.
RemovedIsErased ==
  \A a \in stored \ (acct.list \cup hist.undeleted) :
    \E i \in DOMAIN jobs : jobs[i].of = a

\* rumble-protocol.md: an ambiguous outcome "must be shown as 'may have sent'".
AmbiguousShown == ~hist.unshown
=============================================================================
