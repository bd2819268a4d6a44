-------------------------- MODULE RumbleSessionProofs --------------------------
(***************************************************************************)
(* Proofs about RumbleSession, for any accounts, channels and streams and   *)
(* any number of sign-ins, selections, messages and reconnections.          *)
(***************************************************************************)
EXTENDS RumbleSession, FiniteSetTheorems, TLAPS

SessionFields == {"state", "bearer", "identity", "probe", "sending", "send",
                  "reqs", "elig", "denied", "blocked"}
SendFields == {"m", "chan", "stream", "fresh"}

\* Records with the fields of a session, and of a message on its way.
IsSession(s) == s = [f \in SessionFields |-> s[f]]
IsSend(p) == p = [f \in SendFields |-> p[f]]

\* What the session's identity rests on: it is the bearer's, and whoever is
\* being validated is an account.
Named(s) ==
  /\ s.bearer \in Accounts \cup {None}
  /\ s.elig \in [Streams -> Accounts \cup {None}]
  /\ s.identity \in {None, s.bearer}
  /\ \A x \in Streams : s.elig[x] \in {None, s.bearer}
  /\ s.state = "Valid" => s.identity = s.bearer /\ s.bearer # None
  /\ s.probe # "none" => s.bearer # None

\* A busy flag and its request; a message that was sent has its number.
Busy(s) ==
  /\ s.state = "Validating" <=> s.probe # "none"
  /\ s.sending \in BOOLEAN
  /\ s.sending <=> s.send # NoSend
  /\ ~(s.sending /\ s.state = "Validating")
  /\ IsSend(s.send) /\ (s.send # NoSend => s.send.m \in Messages)

Sound(s) == IsSession(s) /\ Named(s) /\ Busy(s)

\* SessionIsSelected, of session s, accounts a and jobs j.
Owned(s, a, j) ==
  s.bearer # None =>
    \/ s.bearer = a.current
    \/ s.probe = "login"
    \/ \E i \in 1 .. Len(j) : j[i] = [op |-> "write", of |-> s.bearer]

AccountTypes == [list : SUBSET Accounts, ready : SUBSET Accounts,
                 current : Accounts \cup {None}]
JobTypes == [op : {"read", "write", "erase"}, of : Accounts]
BoundTypes == [logins : Nat, selects : Nat, sends : Nat, changes : Nat]

\* The inductive invariant.
IInv ==
  /\ Sound(ses)
  /\ acct \in AccountTypes
  /\ jobs \in Seq(JobTypes)
  /\ env \in BoundTypes
  /\ Owned(ses, acct, jobs)

-----------------------------------------------------------------------------
(* Sessions as they are built. *)

LEMMA NoSessionSound ==
  /\ Sound(NoSession) /\ NoSession.bearer = None
  /\ NoSession.identity = None /\ NoSession.elig = [s \in Streams |-> None]
  /\ ~NoSession.sending /\ NoSession.send = NoSend
<1>1. IsSession(NoSession) /\ Named(NoSession)
  BY SessionAssumption DEF IsSession, SessionFields, Named, NoSession
<1>2. Busy(NoSession)
  BY DEF Busy, IsSend, SendFields, NoSession, NoSend
<1> QED
  BY <1>1, <1>2 DEF Sound, NoSession

LEMMA ProbingSound ==
  ASSUME NEW a \in Accounts, NEW p \in {"plain", "login"}
  PROVE  /\ Sound(Probing(a, p))
         /\ Probing(a, p).bearer = a /\ Probing(a, p).probe = p
<1> DEFINE s == Probing(a, p)
<1>1. /\ IsSession(s)
      /\ s.state = "Validating" /\ s.bearer = a /\ s.probe = p
      /\ s.identity = None /\ s.elig = NoSession.elig
      /\ s.sending = NoSession.sending /\ s.send = NoSession.send
  BY NoSessionSound DEF Probing, Sound, IsSession, SessionFields
<1> HIDE DEF s
<1>2. Named(s)
  BY <1>1, NoSessionSound, SessionAssumption DEF Named
<1>3. Busy(s)
  BY <1>1, NoSessionSound DEF Busy, Sound
<1> QED
  BY <1>1, <1>2, <1>3 DEF Sound, s

LEMMA SelectedSound ==
  ASSUME NEW a \in AccountTypes
  PROVE  /\ Sound(Selected(a))
         /\ Selected(a).bearer \in {None, a.current}
<1>1. CASE a.current \in a.ready
  <2>1. a.current \in Accounts
    BY <1>1 DEF AccountTypes
  <2> QED
    BY <1>1, <2>1, ProbingSound DEF Selected
<1>2. CASE a.current \notin a.ready
  BY <1>2, NoSessionSound DEF Selected
<1> QED
  BY <1>1, <1>2

\* activateSelectedAccount leaves the session of the selected account, or none.
LEMMA ActivateSound ==
  ASSUME NEW a \in AccountTypes, Sound(ses), Activate(a)
  PROVE  Sound(ses') /\ ses'.bearer \in {None, a.current}
<1>1. CASE a.current # None /\ ses.state = "Valid" /\ ses.identity = a.current
  BY <1>1 DEF Activate, Sound, Named
<1>2. CASE ~(a.current # None /\ ses.state = "Valid" /\ ses.identity = a.current)
  BY <1>2, SelectedSound DEF Activate, Replaced
<1> QED
  BY <1>1, <1>2

\* notify only asks for eligibilities.
LEMMA NotifiedSound ==
  ASSUME NEW s, Sound(s)
  PROVE  /\ Sound(Notified(s))
         /\ Notified(s).bearer = s.bearer /\ Notified(s).probe = s.probe
<1>1. CASE s.state # "Valid"
  BY <1>1 DEF Notified
<1>2. CASE s.state = "Valid"
  <2>1. PICK r : Notified(s) = [s EXCEPT !.reqs = r]
    BY <1>2 DEF Notified
  <2> DEFINE n == [s EXCEPT !.reqs = r]
  <2>2. /\ IsSession(n)
        /\ n.state = s.state /\ n.bearer = s.bearer /\ n.identity = s.identity
        /\ n.probe = s.probe /\ n.sending = s.sending /\ n.send = s.send
        /\ n.elig = s.elig
    BY DEF Sound, IsSession, SessionFields
  <2> HIDE DEF n
  <2>3. Sound(n)
    BY <2>2 DEF Sound, Named, Busy
  <2> QED
    BY <2>1, <2>2, <2>3 DEF n
<1> QED
  BY <1>1, <1>2

-----------------------------------------------------------------------------
(* The queue of the keyring. *)

\* A job that is queued takes none away.
LEMMA QueuedKeeps ==
  ASSUME NEW j \in Seq(JobTypes), NEW x \in JobTypes,
         NEW s, NEW a, Owned(s, a, j)
  PROVE  Append(j, x) \in Seq(JobTypes) /\ Owned(s, a, Append(j, x))
<1>1. /\ Append(j, x) \in Seq(JobTypes)
      /\ Len(Append(j, x)) = Len(j) + 1
      /\ \A i \in 1 .. Len(j) : Append(j, x)[i] = j[i]
  OBVIOUS
<1>2. 1 .. Len(j) \subseteq 1 .. Len(Append(j, x))
  BY <1>1
<1> QED
  BY <1>1, <1>2 DEF Owned

\* The first job is the only one that running it takes away.
LEMMA RunKeeps ==
  ASSUME jobs \in Seq(JobTypes), NEW op, NEW a, Runs(op, a)
  PROVE  /\ jobs' \in Seq(JobTypes)
         /\ \A i \in 1 .. Len(jobs) :
              jobs[i] # [op |-> op, of |-> a] =>
                \E k \in 1 .. Len(jobs') : jobs'[k] = jobs[i]
<1>1. /\ jobs # <<>> /\ jobs[1] = [op |-> op, of |-> a]
      /\ jobs' = Tail(jobs)
  BY DEF Runs
<1>2. /\ jobs' \in Seq(JobTypes) /\ Len(jobs) \in Nat
      /\ Len(jobs') = Len(jobs) - 1
      /\ \A k \in 1 .. Len(jobs) - 1 : jobs'[k] = jobs[k + 1]
  BY <1>1
<1>3. ASSUME NEW i \in 1 .. Len(jobs), jobs[i] # [op |-> op, of |-> a]
      PROVE  \E k \in 1 .. Len(jobs') : jobs'[k] = jobs[i]
  <2>1. i # 1
    BY <1>1, <1>3
  <2>2. i - 1 \in 1 .. Len(jobs') /\ jobs'[i - 1] = jobs[i]
    BY <1>2, <2>1
  <2> QED
    BY <2>2
<1> QED
  BY <1>2, <1>3

-----------------------------------------------------------------------------
(* Steps that answer the session's own requests. *)

\* What the probe says of the bearer makes the session valid.
LEMMA AcceptedSound ==
  ASSUME NEW p, Sound(ses), ses.probe = p, p # "none"
  PROVE  /\ Sound(Accepted(ses, ses.bearer))
         /\ Accepted(ses, ses.bearer).bearer = ses.bearer
<1> DEFINE n == [ses EXCEPT !.state = "Valid", !.identity = ses.bearer,
                            !.probe = "none", !.blocked = "no"]
<1>1. /\ IsSession(n)
      /\ n.state = "Valid" /\ n.identity = ses.bearer /\ n.probe = "none"
      /\ n.bearer = ses.bearer /\ n.elig = ses.elig
      /\ n.sending = ses.sending /\ n.send = ses.send
  BY DEF Sound, IsSession, SessionFields
<1> HIDE DEF n
<1>2. Named(n)
  BY <1>1 DEF Sound, Named
<1>3. Busy(n)
  BY <1>1 DEF Sound, Busy
<1>4. Sound(n)
  BY <1>1, <1>2, <1>3 DEF Sound
<1> QED
  BY <1>1, <1>4, NotifiedSound DEF Accepted, n

LEMMA ProbeSound ==
  ASSUME Sound(ses), acct \in AccountTypes,
         ProbeAccepted \/ LoginAccepted \/ ProbeRejected
           \/ (\E l \in BOOLEAN : ProbeFails(l)) \/ LoginRefused
  PROVE  /\ Sound(ses')
         /\ \/ ses'.bearer \in {None, acct.current}
            \/ ses'.bearer = ses.bearer /\ (ses.probe = "plain" \/ LoginAccepted)
<1>1. CASE ProbeAccepted
  BY <1>1, AcceptedSound DEF ProbeAccepted
<1>2. CASE LoginAccepted
  BY <1>2, AcceptedSound DEF LoginAccepted
<1>3. CASE ProbeRejected
  BY <1>3, NoSessionSound DEF ProbeRejected, Replaced
<1>4. ASSUME NEW l \in BOOLEAN, ProbeFails(l)
      PROVE  Sound(ses') /\ ses'.bearer = ses.bearer /\ ses.probe = "plain"
  <2>1. /\ IsSession(ses')
        /\ ses'.state = "Unvalidated" /\ ses'.probe = "none"
        /\ ses'.identity = ses.identity /\ ses'.bearer = ses.bearer
        /\ ses'.elig = ses.elig /\ ses'.sending = ses.sending
        /\ ses'.send = ses.send
    BY <1>4 DEF ProbeFails, Sound, IsSession, SessionFields
  <2>2. Named(ses')
    BY <2>1 DEF Sound, Named
  <2>3. Busy(ses')
    BY <2>1 DEF Sound, Busy
  <2> QED
    BY <1>4, <2>1, <2>2, <2>3 DEF Sound, ProbeFails
<1>5. CASE LoginRefused
  BY <1>5, SelectedSound DEF LoginRefused, Replaced
<1> QED
  BY <1>1, <1>2, <1>3, <1>4, <1>5 DEF ProbeAccepted

-----------------------------------------------------------------------------
(* Steps that leave the bearer and its probe alone, or end the session. *)

\* Session t keeps whose it is.
Kept(s, t) == Sound(t) /\ t.bearer = s.bearer /\ t.probe = s.probe

LEMMA NotifiedKept ==
  ASSUME NEW s, NEW t, Kept(s, t)
  PROVE  Kept(s, Notified(t))
  BY NotifiedSound DEF Kept

\* A message that was sent has a number, so that it differs from no message
\* even when its channel has moved on.
LEMMA OutdatedKept ==
  ASSUME NEW s, NEW c, Sound(s)
  PROVE  Kept(s, SendOutdated(s, c))
<1>1. CASE s.send.chan # c
  BY <1>1 DEF SendOutdated, Kept
<1>2. CASE s.send.chan = c
  <2> DEFINE p == [s.send EXCEPT !.fresh = FALSE]
             n == [s EXCEPT !.send = p]
  <2>1. SendOutdated(s, c) = n
    BY <1>2 DEF SendOutdated
  <2>2. IsSend(p) /\ p.m = s.send.m /\ (s.send = NoSend => p = NoSend)
    <3>1. /\ IsSend(p) /\ p.m = s.send.m /\ p.chan = s.send.chan
          /\ p.stream = s.send.stream /\ p.fresh = FALSE
      BY DEF Sound, Busy, IsSend, SendFields
    <3>2. IsSend(NoSend) /\ NoSend.fresh = FALSE
      BY DEF IsSend, SendFields, NoSend
    <3> HIDE DEF p
    <3>3. ASSUME s.send = NoSend PROVE \A f \in SendFields : p[f] = NoSend[f]
      BY <3>1, <3>2, <3>3 DEF SendFields
    <3> QED
      BY <3>1, <3>2, <3>3 DEF IsSend
  <2>3. p # NoSend => s.send # NoSend /\ p.m \in Messages
    BY <2>2 DEF Sound, Busy
  <2> HIDE DEF p
  <2>4. p = NoSend => s.send = NoSend
    <3>1. NoSend.m \notin Messages
      BY DEF NoSend, Messages
    <3> QED
      BY <2>2, <3>1 DEF Sound, Busy
  <2>5. /\ IsSession(n) /\ n.send = p
        /\ n.state = s.state /\ n.bearer = s.bearer /\ n.identity = s.identity
        /\ n.probe = s.probe /\ n.sending = s.sending /\ n.elig = s.elig
    BY DEF Sound, IsSession, SessionFields
  <2> HIDE DEF n
  <2>6. Named(n) /\ Busy(n)
    BY <2>2, <2>3, <2>4, <2>5 DEF Sound, Named, Busy
  <2> QED
    BY <2>1, <2>5, <2>6 DEF Kept, Sound
<1> QED
  BY <1>1, <1>2

LEMMA RefusedKept ==
  ASSUME Sound(ses), ses.send # NoSend
  PROVE  Kept(ses, Sent) /\ \A status : Kept(ses, Refused(status))
<1>1. ses.state # "Validating" /\ ses.probe = "none"
  BY DEF Sound, Busy
<1>2. /\ IsSession(Sent) /\ Sent.send = NoSend /\ Sent.sending = FALSE
      /\ Sent.state = ses.state /\ Sent.bearer = ses.bearer
      /\ Sent.identity = ses.identity /\ Sent.probe = ses.probe
      /\ Sent.elig = ses.elig
  BY DEF Sent, Sound, IsSession, SessionFields
<1>3. IsSend(NoSend)
  BY DEF IsSend, SendFields, NoSend
<1>4. Kept(ses, Sent)
  BY <1>1, <1>2, <1>3 DEF Kept, Sound, Named, Busy
<1>5. ASSUME NEW status PROVE Kept(ses, Refused(status))
  <2>1. CASE status = "401"
    <3> DEFINE n == [Sent EXCEPT !.state = "Unvalidated"]
    <3>1. /\ IsSession(n) /\ n.send = NoSend /\ n.sending = FALSE
          /\ n.state = "Unvalidated" /\ n.bearer = ses.bearer
          /\ n.identity = ses.identity /\ n.probe = ses.probe
          /\ n.elig = ses.elig
      BY <1>2 DEF IsSession, SessionFields
    <3>2. Refused(status) = n
      BY <2>1 DEF Refused
    <3> HIDE DEF n
    <3> QED
      BY <1>1, <1>3, <3>1, <3>2 DEF Kept, Sound, Named, Busy
  <2>2. CASE status # "401"
    <3>1. PICK d, b :
            Refused(status) \in {Sent, [Sent EXCEPT !.denied = d],
                                [Sent EXCEPT !.blocked = b]}
      BY <2>2 DEF Refused
    <3>2. ASSUME NEW n \in {Sent, [Sent EXCEPT !.denied = d],
                           [Sent EXCEPT !.blocked = b]}
          PROVE  /\ IsSession(n) /\ n.send = NoSend /\ n.sending = FALSE
                 /\ n.state = ses.state /\ n.bearer = ses.bearer
                 /\ n.identity = ses.identity /\ n.probe = ses.probe
                 /\ n.elig = ses.elig
      BY <1>2, <3>2 DEF IsSession, SessionFields
    <3> QED
      BY <1>1, <1>3, <3>1, <3>2 DEF Kept, Sound, Named, Busy
  <2> QED
    BY <2>1, <2>2
<1> QED
  BY <1>4, <1>5

LEMMA SendKept ==
  ASSUME Sound(ses), env \in BoundTypes, NEW c, Send(c)
  PROVE  Kept(ses, ses')
<1> DEFINE p == [m |-> env.sends + 1, chan |-> c, stream |-> chan[c].stream,
                 fresh |-> TRUE]
           n == [ses EXCEPT !.sending = TRUE, !.send = p]
<1>1. ses' = Notified(n) /\ ses.state = "Valid" /\ env.sends < MaxSends
  BY DEF Send, Writable
<1>2. IsSend(p) /\ p.m \in Messages /\ p # NoSend
  <2>1. env.sends \in Nat /\ MaxSends \in Nat
    BY SessionAssumption DEF BoundTypes
  <2>2. IsSend(p) /\ p.m = env.sends + 1
    BY DEF IsSend, SendFields
  <2>3. env.sends + 1 \in Messages
    BY <1>1, <2>1 DEF Messages
  <2>4. NoSend.m \notin Messages
    BY DEF NoSend, Messages
  <2> HIDE DEF p
  <2> QED
    BY <2>2, <2>3, <2>4
<1> HIDE DEF p
<1>3. /\ IsSession(n) /\ n.send = p /\ n.sending = TRUE
      /\ n.state = ses.state /\ n.bearer = ses.bearer
      /\ n.identity = ses.identity /\ n.probe = ses.probe /\ n.elig = ses.elig
  BY DEF Sound, IsSession, SessionFields
<1> HIDE DEF n
<1>4. Kept(ses, n)
  BY <1>1, <1>2, <1>3 DEF Kept, Sound, Named, Busy
<1> QED
  BY <1>1, <1>4, NotifiedKept

\* An eligibility that is known is the bearer's.
LEMMA EligibilityKept ==
  ASSUME Sound(ses), NEW x \in Streams,
         EligibilityKnown(x) \/ EligibilityUnknown(x)
  PROVE  Kept(ses, ses')
<1> DEFINE r == ses.reqs \ {x}
<1>1. CASE EligibilityKnown(x)
  <2> DEFINE e == [ses.elig EXCEPT ![x] = ses.bearer]
             n == [ses EXCEPT !.reqs = r, !.elig = e]
  <2>1. ses' = Notified(n)
    BY <1>1 DEF EligibilityKnown
  <2>2. /\ e \in [Streams -> Accounts \cup {None}]
        /\ \A y \in Streams : e[y] \in {None, ses.bearer}
    BY DEF Sound, Named
  <2> HIDE DEF e, r
  <2>3. /\ IsSession(n) /\ n.elig = e /\ n.send = ses.send
        /\ n.sending = ses.sending /\ n.state = ses.state
        /\ n.bearer = ses.bearer /\ n.identity = ses.identity
        /\ n.probe = ses.probe
    BY DEF Sound, IsSession, SessionFields
  <2> HIDE DEF n
  <2>4. Named(n) /\ Busy(n)
    BY <2>2, <2>3 DEF Sound, Named, Busy
  <2> QED
    BY <2>1, <2>3, <2>4, NotifiedKept DEF Kept, Sound
<1>2. CASE EligibilityUnknown(x)
  <2> DEFINE n == [ses EXCEPT !.reqs = r]
  <2>1. ses' = n
    BY <1>2 DEF EligibilityUnknown
  <2> HIDE DEF r
  <2>2. /\ IsSession(n) /\ n.elig = ses.elig /\ n.send = ses.send
        /\ n.sending = ses.sending /\ n.state = ses.state
        /\ n.bearer = ses.bearer /\ n.identity = ses.identity
        /\ n.probe = ses.probe
    BY DEF Sound, IsSession, SessionFields
  <2> HIDE DEF n
  <2> QED
    BY <2>1, <2>2 DEF Kept, Sound, Named, Busy
<1> QED
  BY <1>1, <1>2

LEMMA BlockKept ==
  ASSUME Sound(ses), BlockExpires
  PROVE  Kept(ses, ses')
<1>1. /\ IsSession(ses') /\ ses'.elig = ses.elig /\ ses'.send = ses.send
      /\ ses'.sending = ses.sending /\ ses'.state = ses.state
      /\ ses'.bearer = ses.bearer /\ ses'.identity = ses.identity
      /\ ses'.probe = ses.probe
  BY DEF BlockExpires, Sound, IsSession, SessionFields
<1> QED
  BY <1>1 DEF Kept, Sound, Named, Busy

\* The steps of the channels, of sending and of eligibility.
ChannelStep ==
  \/ BlockExpires \/ SendConfirmed \/ SendAmbiguous
  \/ \E status \in {"401", "403", "429", "429 bare", "400"} : SendRefused(status)
  \/ \E x \in Streams : EligibilityKnown(x) \/ EligibilityUnknown(x)
  \/ \E c \in Channels :
       (\E x \in Streams : Connect(c, x)) \/ Disconnect(c) \/ Send(c)

LEMMA ChannelKept ==
  ASSUME IInv, ChannelStep
  PROVE  Kept(ses, ses') /\ UNCHANGED <<acct, jobs>> /\ env' \in BoundTypes
<1> USE DEF IInv
<1>1. CASE BlockExpires
  BY <1>1, BlockKept DEF BlockExpires
<1>2. CASE SendConfirmed
  BY <1>2, RefusedKept, NotifiedKept DEF SendConfirmed
<1>3. CASE SendAmbiguous
  BY <1>3, RefusedKept, NotifiedKept DEF SendAmbiguous
<1>4. ASSUME NEW status, SendRefused(status)
      PROVE  Kept(ses, ses') /\ UNCHANGED <<acct, jobs, env>>
  BY <1>4, RefusedKept, NotifiedKept DEF SendRefused
<1>5. ASSUME NEW x \in Streams, EligibilityKnown(x) \/ EligibilityUnknown(x)
      PROVE  Kept(ses, ses') /\ UNCHANGED <<acct, jobs, env>>
  BY <1>5, EligibilityKept DEF EligibilityKnown, EligibilityUnknown
<1>6. ASSUME NEW c \in Channels, NEW x \in Streams, Connect(c, x)
      PROVE  Kept(ses, ses') /\ UNCHANGED <<acct, jobs>> /\ env' \in BoundTypes
  <2>1. Kept(ses, ses')
    BY <1>6, OutdatedKept, NotifiedKept DEF Connect
  <2> QED
    BY <1>6, <2>1 DEF Connect, BoundTypes
<1>7. ASSUME NEW c \in Channels, Disconnect(c)
      PROVE  Kept(ses, ses') /\ UNCHANGED <<acct, jobs>> /\ env' \in BoundTypes
  <2>1. Kept(ses, ses')
    BY <1>7, OutdatedKept DEF Disconnect
  <2> QED
    BY <1>7, <2>1 DEF Disconnect, BoundTypes
<1>8. ASSUME NEW c \in Channels, Send(c)
      PROVE  Kept(ses, ses') /\ UNCHANGED <<acct, jobs>> /\ env' \in BoundTypes
  <2>1. env' = [env EXCEPT !.sends = @ + 1] /\ UNCHANGED <<acct, jobs>>
    BY <1>8 DEF Send
  <2> QED
    BY <1>8, <2>1, SendKept DEF BoundTypes
<1> QED
  BY <1>1, <1>2, <1>3, <1>4, <1>5, <1>6, <1>7, <1>8
     DEF ChannelStep, BlockExpires, SendConfirmed, SendAmbiguous

-----------------------------------------------------------------------------
(* Steps of the accounts and the keyring. *)

LEMMA SelectSteps ==
  ASSUME IInv, NEW a \in Accounts \cup {None},
         Select(a) \/ (a \in Accounts /\ RemoveAccount(a))
  PROVE  IInv'
<1> USE DEF IInv
<1>1. CASE Select(a)
  <2>1. acct' \in AccountTypes /\ env' \in BoundTypes
    BY <1>1 DEF Select, AccountTypes, BoundTypes
  <2>2. Activate(acct') /\ jobs' = jobs
    BY <1>1 DEF Select
  <2>3. Sound(ses') /\ ses'.bearer \in {None, acct'.current}
    BY <2>1, <2>2, ActivateSound
  <2> QED
    BY <2>1, <2>2, <2>3 DEF Owned
<1>2. CASE a \in Accounts /\ RemoveAccount(a)
  <2>1. acct' \in AccountTypes /\ env' \in BoundTypes
    BY <1>2 DEF RemoveAccount, AccountTypes, BoundTypes
  <2>2. /\ jobs' = Append(jobs, [op |-> "erase", of |-> a])
        /\ [op |-> "erase", of |-> a] \in JobTypes
    BY <1>2 DEF RemoveAccount, JobTypes
  <2>3. jobs' \in Seq(JobTypes) /\ Owned(ses, acct, jobs')
    BY <2>2, QueuedKeeps
  <2>4. CASE acct.current = a
    <3>1. Activate(acct')
      BY <1>2, <2>4 DEF RemoveAccount
    <3>2. Sound(ses') /\ ses'.bearer \in {None, acct'.current}
      BY <2>1, <3>1, ActivateSound
    <3> QED
      BY <2>1, <2>3, <3>2 DEF Owned
  <2>5. CASE acct.current # a
    <3>1. ses' = ses /\ acct'.current = acct.current
      BY <1>2, <2>5 DEF RemoveAccount
    <3> QED
      BY <2>1, <2>3, <3>1 DEF Owned
  <2> QED
    BY <2>4, <2>5
<1> QED
  BY <1>1, <1>2

\* A job that is not the write of its bearer leaves the session its owner.
LEMMA OwnedAfterRun ==
  ASSUME IInv, NEW op, NEW a, Runs(op, a), acct'.current = acct.current,
         ses.bearer # a \/ op # "write"
  PROVE  Owned(ses, acct', jobs')
<1> DEFINE w == [op |-> "write", of |-> ses.bearer]
<1>1. w # [op |-> op, of |-> a]
  <2>1. w.op = "write" /\ w.of = ses.bearer
    OBVIOUS
  <2> QED
    BY <2>1
<1>2. ASSUME NEW i \in 1 .. Len(jobs), jobs[i] = w
      PROVE  \E k \in 1 .. Len(jobs') : jobs'[k] = w
  BY <1>1, <1>2, RunKeeps DEF IInv
<1> QED
  BY <1>2 DEF IInv, Owned

LEMMA KeyringSteps ==
  ASSUME IInv, NEW a \in Accounts,
         \/ CredentialRead(a) \/ ReadFails(a) \/ CredentialWritten(a)
         \/ WriteFails(a) \/ CredentialErased(a) \/ EraseFails(a)
  PROVE  IInv'
<1> USE DEF IInv
<1>1. CASE CredentialRead(a)
  <2>1. /\ acct' = [acct EXCEPT !.ready = @ \cup ({a} \cap acct.list)]
        /\ Runs("read", a) /\ env' = env
    BY <1>1 DEF CredentialRead
  <2>2. acct' \in AccountTypes /\ acct'.current = acct.current
    BY <2>1 DEF AccountTypes
  <2>3. jobs' \in Seq(JobTypes)
    BY <2>1, RunKeeps
  <2>4. CASE acct.current = a
    <3>1. Sound(ses') /\ ses'.bearer \in {None, acct'.current}
      BY <1>1, <2>2, <2>4, ActivateSound DEF CredentialRead
    <3> QED
      BY <2>1, <2>2, <2>3, <3>1 DEF Owned
  <2>5. CASE acct.current # a
    <3>1. ses' = ses
      BY <1>1, <2>5 DEF CredentialRead
    <3>2. Owned(ses, acct', jobs')
      BY <2>1, <2>2, OwnedAfterRun
    <3> QED
      BY <2>1, <2>2, <2>3, <3>1, <3>2
  <2> QED
    BY <2>4, <2>5
<1>2. CASE ReadFails(a) \/ CredentialErased(a) \/ EraseFails(a)
  <2>1. PICK op \in {"read", "erase"} : Runs(op, a) /\ UNCHANGED <<ses, acct, env>>
    BY <1>2 DEF ReadFails, CredentialErased, EraseFails
  <2>2. jobs' \in Seq(JobTypes) /\ Owned(ses, acct', jobs')
    BY <2>1, RunKeeps, OwnedAfterRun
  <2> QED
    BY <2>1, <2>2
<1>3. CASE CredentialWritten(a)
  <2>1. /\ acct' = [list |-> acct.list \cup {a}, ready |-> acct.ready \cup {a},
                    current |-> a]
        /\ Runs("write", a) /\ env' = env
    BY <1>3 DEF CredentialWritten
  <2>2. acct' \in AccountTypes /\ acct'.current = a
    BY <2>1 DEF AccountTypes
  <2>3. jobs' \in Seq(JobTypes)
    BY <2>1, RunKeeps
  <2>4. CASE acct.current # a
    <3>1. Sound(ses') /\ ses'.bearer \in {None, acct'.current}
      BY <1>3, <2>2, <2>4, ActivateSound DEF CredentialWritten
    <3> QED
      BY <2>1, <2>2, <2>3, <3>1 DEF Owned
  <2>5. CASE acct.current = a
    <3>1. ses' = ses
      BY <1>3, <2>5 DEF CredentialWritten
    <3>2. Owned(ses, acct', jobs')
      <4>1. CASE ses.bearer = a
        BY <2>2, <4>1 DEF Owned
      <4>2. CASE ses.bearer # a
        BY <2>1, <2>2, <2>5, <4>2, OwnedAfterRun
      <4> QED
        BY <4>1, <4>2
    <3> QED
      BY <2>1, <2>2, <2>3, <3>1, <3>2
  <2> QED
    BY <2>4, <2>5
<1>4. CASE WriteFails(a)
  <2>1. Runs("write", a) /\ UNCHANGED <<acct, env>> /\ ses' = Selected(acct)
    BY <1>4 DEF WriteFails, Replaced
  <2>2. jobs' \in Seq(JobTypes)
    BY <2>1, RunKeeps
  <2>3. Sound(ses') /\ ses'.bearer \in {None, acct'.current}
    BY <2>1, SelectedSound
  <2> QED
    BY <2>1, <2>2, <2>3 DEF Owned
<1> QED
  BY <1>1, <1>2, <1>3, <1>4

-----------------------------------------------------------------------------
(* The invariant. *)

LEMMA SessionStep ==
  ASSUME IInv, SessionAnswers \/ (\E x \in Streams : EligibilityRejected(x))
                 \/ (\E a \in Accounts : BrowserSession(a))
  PROVE  IInv'
<1> USE DEF IInv
<1>1. CASE SessionAnswers
  <2>1. /\ Sound(ses')
        /\ \/ ses'.bearer \in {None, acct.current}
           \/ ses'.bearer = ses.bearer /\ (ses.probe = "plain" \/ LoginAccepted)
    BY <1>1, ProbeSound DEF SessionAnswers
  <2>2. UNCHANGED <<acct, env>>
    BY <1>1 DEF SessionAnswers, ProbeAccepted, ProbeRejected, ProbeFails,
                LoginAccepted, LoginRefused
  <2>3. CASE LoginAccepted
    <3> DEFINE w == [op |-> "write", of |-> ses.bearer]
    <3>1. w \in JobTypes
      BY <2>3 DEF LoginAccepted, Sound, Named, JobTypes
    <3>2. jobs' = Append(jobs, w)
      BY <2>3 DEF LoginAccepted
    <3> HIDE DEF w
    <3>3. jobs' \in Seq(JobTypes) /\ jobs'[Len(jobs')] = w /\ Len(jobs') \in 1 .. Len(jobs')
      BY <3>1, <3>2
    <3>4. Owned(ses', acct', jobs')
      BY <2>1, <2>2, <3>3 DEF Owned, w
    <3> QED
      BY <2>1, <2>2, <3>3, <3>4
  <2>4. CASE ~LoginAccepted
    <3>1. jobs' = jobs
      BY <1>1, <2>4 DEF SessionAnswers, ProbeAccepted, ProbeRejected, ProbeFails,
                        LoginRefused
    <3>2. Owned(ses', acct', jobs')
      BY <2>1, <2>2, <2>4, <3>1 DEF Owned
    <3> QED
      BY <2>1, <2>2, <3>1, <3>2
  <2> QED
    BY <2>3, <2>4
<1>2. ASSUME NEW x \in Streams, EligibilityRejected(x) PROVE IInv'
  BY <1>2, NoSessionSound DEF EligibilityRejected, Replaced, Owned
<1>3. ASSUME NEW a \in Accounts, BrowserSession(a) PROVE IInv'
  BY <1>3, ProbingSound DEF BrowserSession, Replaced, Owned
<1> QED
  BY <1>1, <1>2, <1>3

LEMMA Initially == Init => IInv
<1> SUFFICES ASSUME Init PROVE IInv
  OBVIOUS
<1>1. Sound(ses) /\ ses.bearer = None
  BY NoSessionSound DEF Init
<1>2. env \in BoundTypes
  BY DEF Init, BoundTypes
<1>3. PICK list \in SUBSET Accounts, current \in Accounts \cup {None} :
        /\ acct = [list |-> list, ready |-> {}, current |-> current]
        /\ jobs \in {[i \in DOMAIN q |-> [op |-> "read", of |-> q[i]]] :
                       q \in SetToSeqs(list)}
  BY DEF Init
<1>4. acct \in AccountTypes
  BY <1>3 DEF AccountTypes
<1>5. PICK q \in SetToSeqs(list) :
        jobs = [i \in DOMAIN q |-> [op |-> "read", of |-> q[i]]]
  BY <1>3
<1>6. Cardinality(list) \in Nat
  BY <1>3, FS_Subset, FS_CardinalityType, SessionAssumption
<1>7. q \in [1 .. Cardinality(list) -> list]
  BY <1>5 DEF SetToSeqs
<1>8. jobs \in Seq(JobTypes)
  <2>1. \A i \in 1 .. Cardinality(list) : [op |-> "read", of |-> q[i]] \in JobTypes
    BY <1>3, <1>7 DEF JobTypes
  <2>2. jobs \in [1 .. Cardinality(list) -> JobTypes]
    BY <1>5, <1>7, <2>1
  <2> QED
    BY <1>6, <2>2
<1> QED
  BY <1>1, <1>2, <1>4, <1>8 DEF IInv, Owned

LEMMA Inductive == IInv /\ [Next]_vars => IInv'
<1> SUFFICES ASSUME IInv, [Next]_vars PROVE IInv'
  OBVIOUS
<1>1. CASE UNCHANGED <<ses, acct, jobs>> /\ env' \in BoundTypes
  BY <1>1 DEF IInv
<1>2. CASE UNCHANGED vars
  BY <1>1, <1>2 DEF vars, IInv
<1>3. CASE Login \/ BrowserFails
  BY <1>1, <1>3 DEF Login, BrowserFails, IInv, BoundTypes
<1>4. CASE \/ \E r \in late : LateAnswer(r)
           \/ \E r \in Requests(ses) \cup late : Take(r)
           \/ \E c \in Channels : RowEvicted(c) \/ \E m \in Messages : Realtime(c, m)
  BY <1>1, <1>4 DEF LateAnswer, Take, RowEvicted, Realtime, IInv
<1>5. CASE \/ SessionAnswers \/ (\E x \in Streams : EligibilityRejected(x))
           \/ \E a \in Accounts : BrowserSession(a)
  BY <1>5, SessionStep
<1>6. CASE ChannelStep
  <2>1. Kept(ses, ses') /\ UNCHANGED <<acct, jobs>> /\ env' \in BoundTypes
    BY <1>6, ChannelKept
  <2> QED
    BY <2>1 DEF IInv, Kept, Owned
<1>7. CASE \/ \E a \in Accounts \cup {None} : Select(a)
           \/ \E a \in Accounts : RemoveAccount(a)
  BY <1>7, SelectSteps
<1>8. CASE KeyringAnswers
  BY <1>8, KeyringSteps DEF KeyringAnswers
<1> QED
  BY <1>2, <1>3, <1>4, <1>5, <1>6, <1>7, <1>8 DEF Next, ChannelStep, SendAnswers

LEMMA Invariant == Spec => []IInv
  BY Initially, Inductive, PTL DEF Spec

\* The session's identity and eligibilities are its bearer's, whatever order
\* the answers to earlier accounts' requests come in.
THEOREM NobodyElse == Spec => []IdentityOfBearer
<1>1. IInv => IdentityOfBearer
  BY DEF IInv, Sound, Named, IdentityOfBearer
<1> QED
  BY <1>1, Invariant, PTL

\* Nobody sends as an account that is not selected: the session belongs to the
\* selected account, to a sign-in being validated, or to one being saved.
THEOREM SelectedOnly == Spec => []SessionIsSelected
<1>1. IInv => SessionIsSelected
  BY DEF IInv, Owned, SessionIsSelected, Contains
<1> QED
  BY <1>1, Invariant, PTL

\* No flag that refuses the next validation or message outlives its request.
THEOREM NothingStaysBusy == Spec => []BusyIsWaiting
<1>1. IInv => BusyIsWaiting
  BY DEF IInv, Sound, Busy, BusyIsWaiting
<1> QED
  BY <1>1, Invariant, PTL

-----------------------------------------------------------------------------
(* The keyring. *)

\* A credential that nobody may use any more is about to be deleted: it is the
\* deletion that is queued, and not a read, which would leave it.
Erasing ==
  /\ hist \in [unshown : BOOLEAN, undeleted : SUBSET Accounts]
  /\ \A a \in stored \ (acct.list \cup hist.undeleted) :
       \E i \in 1 .. Len(jobs) : jobs[i] = [op |-> "erase", of |-> a]

\* A job that is queued loses none, and one that runs only itself.
LEMMA ErasingQueued ==
  ASSUME IInv, Erasing, NEW x, jobs' = Append(jobs, x), UNCHANGED <<stored, hist>>,
         \A a \in acct.list \ acct'.list : x = [op |-> "erase", of |-> a]
  PROVE  Erasing'
<1>1. /\ Len(jobs') = Len(jobs) + 1 /\ Len(jobs) \in Nat /\ jobs'[Len(jobs')] = x
      /\ \A i \in 1 .. Len(jobs) : jobs'[i] = jobs[i]
  BY DEF IInv
<1>2. ASSUME NEW a \in stored, a \notin acct'.list, a \notin hist.undeleted
      PROVE  \E i \in 1 .. Len(jobs') : jobs'[i] = [op |-> "erase", of |-> a]
  <2>1. CASE a \in acct.list
    BY <1>1, <1>2, <2>1
  <2>2. CASE a \notin acct.list
    <3>1. PICK i \in 1 .. Len(jobs) : jobs[i] = [op |-> "erase", of |-> a]
      BY <1>2, <2>2 DEF Erasing
    <3> QED
      BY <1>1, <3>1
  <2> QED
    BY <2>1, <2>2
<1> QED
  BY <1>2 DEF Erasing

LEMMA ErasingRun ==
  ASSUME IInv, Erasing, NEW op, NEW a, Runs(op, a),
         acct.list \subseteq acct'.list, hist' \in [unshown : BOOLEAN, undeleted : SUBSET Accounts],
         hist.undeleted \subseteq hist'.undeleted,
         stored' \subseteq stored \cup acct'.list,
         op = "erase" => a \notin stored' \/ a \in hist'.undeleted
  PROVE  Erasing'
<1>1. ASSUME NEW b \in stored', b \notin acct'.list, b \notin hist'.undeleted
      PROVE  \E i \in 1 .. Len(jobs') : jobs'[i] = [op |-> "erase", of |-> b]
  <2>1. PICK i \in 1 .. Len(jobs) : jobs[i] = [op |-> "erase", of |-> b]
    BY <1>1 DEF Erasing
  <2>2. [op |-> "erase", of |-> b] # [op |-> op, of |-> a]
    BY <1>1
  <2>3. \E k \in 1 .. Len(jobs') : jobs'[k] = jobs[i]
    BY <2>1, <2>2, RunKeeps DEF IInv
  <2> QED
    BY <2>1, <2>3
<1> QED
  BY <1>1 DEF Erasing

LEMMA ErasingKeyring ==
  ASSUME IInv, Erasing, KeyringAnswers
  PROVE  Erasing'
<1>1. PICK a \in Accounts :
        \/ CredentialRead(a) \/ ReadFails(a) \/ CredentialWritten(a) \/ WriteFails(a)
        \/ CredentialErased(a) \/ EraseFails(a)
  BY DEF KeyringAnswers
<1>2. /\ hist \in [unshown : BOOLEAN, undeleted : SUBSET Accounts] /\ acct \in AccountTypes
  BY DEF Erasing, IInv
<1>3. CASE CredentialRead(a)
  <2>1. Runs("read", a) /\ UNCHANGED <<stored, hist>> /\ acct'.list = acct.list
    BY <1>2, <1>3 DEF CredentialRead, AccountTypes
  <2> QED
    BY <1>2, <2>1, ErasingRun
<1>4. CASE ReadFails(a)
  BY <1>2, <1>4, ErasingRun DEF ReadFails
<1>5. CASE WriteFails(a)
  BY <1>2, <1>5, ErasingRun DEF WriteFails
<1>6. CASE CredentialWritten(a)
  <2>1. /\ Runs("write", a) /\ stored' = stored \cup {a} /\ UNCHANGED hist
        /\ acct'.list = acct.list \cup {a}
    BY <1>6 DEF CredentialWritten
  <2> QED
    BY <1>2, <2>1, ErasingRun
<1>7. CASE CredentialErased(a)
  <2>1. Runs("erase", a) /\ stored' = stored \ {a} /\ UNCHANGED <<hist, acct>>
    BY <1>7 DEF CredentialErased
  <2> QED
    BY <1>2, <2>1, ErasingRun
<1>8. CASE EraseFails(a)
  <2>1. /\ Runs("erase", a) /\ UNCHANGED <<stored, acct>>
        /\ hist' = [hist EXCEPT !.undeleted = @ \cup {a}]
    BY <1>8 DEF EraseFails
  <2> QED
    BY <1>2, <2>1, ErasingRun
<1> QED
  BY <1>1, <1>3, <1>4, <1>5, <1>6, <1>7, <1>8

LEMMA ErasingStep == IInv /\ Erasing /\ [Next]_vars => Erasing'
<1> SUFFICES ASSUME IInv, Erasing, [Next]_vars PROVE Erasing'
  OBVIOUS
<1>1. CASE UNCHANGED <<acct, jobs, stored, hist>>
  BY <1>1 DEF Erasing
<1>2. CASE UNCHANGED vars
  BY <1>1, <1>2 DEF vars
<1>3. CASE KeyringAnswers
  BY <1>3, ErasingKeyring
<1>4. CASE LoginAccepted
  BY <1>4, ErasingQueued DEF LoginAccepted
<1>5. CASE \E a \in Accounts : RemoveAccount(a)
  <2>1. PICK a \in Accounts : /\ acct'.list = acct.list \ {a} /\ UNCHANGED <<stored, hist>>
                              /\ jobs' = Append(jobs, [op |-> "erase", of |-> a])
    BY <1>5 DEF RemoveAccount
  <2> QED
    BY <2>1, ErasingQueued
<1>6. CASE \E a \in Accounts \cup {None} : Select(a)
  <2>1. acct'.list = acct.list /\ UNCHANGED <<jobs, stored, hist>>
    BY <1>6 DEF Select, IInv, AccountTypes
  <2> QED
    BY <2>1 DEF Erasing
<1>7. CASE SendAmbiguous
  <2>1. /\ UNCHANGED <<acct, jobs, stored>>
        /\ \E u \in BOOLEAN : hist' = [hist EXCEPT !.unshown = u]
    BY <1>7 DEF SendAmbiguous, Erasing, IInv, Sound, Busy, IsSend
  <2> QED
    BY <2>1 DEF Erasing
<1>8. CASE \/ Login \/ BrowserFails \/ (\E a \in Accounts : BrowserSession(a)) \/ BlockExpires
           \/ ProbeAccepted \/ ProbeRejected \/ (\E l \in BOOLEAN : ProbeFails(l)) \/ LoginRefused
           \/ SendConfirmed
           \/ (\E status \in {"401", "403", "429", "429 bare", "400"} : SendRefused(status))
  BY <1>1, <1>8 DEF Login, BrowserFails, BrowserSession, BlockExpires, ProbeAccepted,
                   ProbeRejected, ProbeFails, LoginRefused, SendConfirmed, SendRefused
<1>9. CASE \/ (\E x \in Streams :
                 EligibilityKnown(x) \/ EligibilityRejected(x) \/ EligibilityUnknown(x))
           \/ (\E r \in late : LateAnswer(r)) \/ (\E r \in Requests(ses) \cup late : Take(r))
  BY <1>1, <1>9 DEF EligibilityKnown, EligibilityRejected, EligibilityUnknown, LateAnswer, Take
<1>10. CASE \E c \in Channels :
              \/ \E x \in Streams : Connect(c, x)
              \/ Disconnect(c) \/ RowEvicted(c) \/ Send(c)
              \/ \E m \in Messages : Realtime(c, m)
  BY <1>1, <1>10 DEF Connect, Disconnect, RowEvicted, Send, Realtime
<1> QED
  BY <1>2, <1>3, <1>4, <1>5, <1>6, <1>7, <1>8, <1>9, <1>10, Zenon
     DEF Next, SessionAnswers, SendAnswers

\* An account that was removed leaves no credential behind, unless the keyring
\* refused: its deletion stays queued behind whatever was there, and neither a
\* read nor a failed sign-in that comes first takes its place.
THEOREM RemovedAreErased == Spec => []RemovedIsErased
<1>1. Init => Erasing
  BY DEF Init, Erasing
<1>2. IInv /\ Erasing => RemovedIsErased
  <2> SUFFICES ASSUME IInv, Erasing, NEW a \in stored \ (acct.list \cup hist.undeleted)
               PROVE  \E i \in DOMAIN jobs : jobs[i].of = a
    BY DEF RemovedIsErased
  <2>1. PICK i \in 1 .. Len(jobs) : jobs[i] = [op |-> "erase", of |-> a]
    BY DEF Erasing
  <2>2. i \in DOMAIN jobs
    BY DEF IInv
  <2> QED
    BY <2>1, <2>2
<1> QED
  BY <1>1, <1>2, ErasingStep, Invariant, PTL DEF Spec

-----------------------------------------------------------------------------
(* The messages of one's own. *)

RowTypes == [m : Messages, real : BOOLEAN]

\* A channel whose rows are of different messages, those it waits to replace
\* and no others being optimistic.
Once(k) ==
  /\ k \in [stream : Streams \cup {None}, up : BOOLEAN, rows : Seq(RowTypes),
            optimistic : SUBSET Messages]
  /\ \A i, j \in 1 .. Len(k.rows) : k.rows[i].m = k.rows[j].m => i = j
  /\ \A i \in 1 .. Len(k.rows) : k.rows[i].real <=> k.rows[i].m \notin k.optimistic

\* Only messages that were sent are on their way or with Rumble.
Numbered ==
  /\ \A r \in late : r.kind = "send" => r.m \in Messages
  /\ \A p \in posted : p.m \in Messages

\* The invariant of the rows, with what it rests on.
Showing ==
  /\ Numbered
  /\ DOMAIN chan = Channels /\ chan = [c \in Channels |-> chan[c]]
  /\ \A c \in Channels : Once(chan[c])

\* A message that a session waits for was sent.
LEMMA RequestNumbered ==
  ASSUME NEW s, Sound(s), NEW r \in Requests(s), r.kind = "send"
  PROVE  r.m \in Messages
<1>1. s.send # NoSend /\ r = Request("send", s.bearer, s.send.stream, s.send.m)
  BY DEF Requests, Request
<1> QED
  BY <1>1 DEF Sound, Busy, Request

\* An earlier generation's requests were a session's.
LEMMA LateNumbered ==
  ASSUME Numbered, Sound(ses), UNCHANGED posted,
         NEW s, Sound(s), late' \subseteq late \cup Requests(s)
  PROVE  Numbered'
<1>1. \A r \in late' : r.kind = "send" => r.m \in Messages
  BY RequestNumbered DEF Numbered
<1> QED
  BY <1>1 DEF Numbered

LEMMA NumberedStep ==
  ASSUME IInv, Numbered, [Next]_vars
  PROVE  Numbered'
<1>1. Sound(ses)
  BY DEF IInv
<1>2. CASE UNCHANGED <<late, posted>>
  BY <1>2 DEF Numbered
<1>3. CASE UNCHANGED posted /\ late' \subseteq late \cup Requests(ses)
  BY <1>1, <1>3, LateNumbered
<1>4. CASE UNCHANGED vars
  BY <1>2, <1>4 DEF vars
<1>5. CASE SessionAnswers \/ (\E a \in Accounts : BrowserSession(a))
  BY <1>3, <1>5 DEF SessionAnswers, ProbeAccepted, ProbeRejected, ProbeFails, LoginAccepted,
                   LoginRefused, BrowserSession, Replaced
<1>6. CASE SendAnswers
  BY <1>3, <1>6 DEF SendAnswers, SendConfirmed, SendAmbiguous, SendRefused
<1>7. CASE KeyringAnswers
  BY <1>3, <1>7 DEF KeyringAnswers, CredentialRead, ReadFails, CredentialWritten, WriteFails,
                   CredentialErased, EraseFails, Activate, Replaced
<1>8. CASE \/ \E a \in Accounts \cup {None} : Select(a)
           \/ \E a \in Accounts : RemoveAccount(a)
  BY <1>3, <1>8 DEF Select, RemoveAccount, Activate, Replaced
<1>9. CASE \E x \in Streams : EligibilityRejected(x)
  <2>1. PICK x \in Streams : EligibilityRejected(x)
    BY <1>9
  <2> DEFINE s == [ses EXCEPT !.reqs = @ \ {x}]
  <2>2. /\ IsSession(s) /\ s.elig = ses.elig /\ s.send = ses.send
        /\ s.sending = ses.sending /\ s.state = ses.state
        /\ s.bearer = ses.bearer /\ s.identity = ses.identity
        /\ s.probe = ses.probe
    BY <1>1 DEF Sound, IsSession, SessionFields
  <2>3. UNCHANGED posted /\ late' \subseteq late \cup Requests(s)
    BY <2>1 DEF EligibilityRejected, Replaced
  <2> HIDE DEF s
  <2>4. Sound(s)
    BY <1>1, <2>2 DEF Sound, Named, Busy
  <2> QED
    BY <1>1, <2>3, <2>4, LateNumbered
<1>10. CASE \/ \E x \in Streams : EligibilityKnown(x) \/ EligibilityUnknown(x)
            \/ \E r \in late : LateAnswer(r)
            \/ Login \/ BrowserFails \/ BlockExpires
  BY <1>3, <1>10 DEF EligibilityKnown, EligibilityUnknown, LateAnswer, Login, BrowserFails,
                    BlockExpires
<1>11. CASE \E r \in Requests(ses) \cup late : Take(r)
  <2>1. PICK r \in Requests(ses) \cup late : Take(r)
    BY <1>11
  <2>2. r.m \in Messages
    BY <1>1, <2>1, RequestNumbered DEF Take, Numbered
  <2>3. late' = late /\ posted' = posted \cup {[m |-> r.m, stream |-> r.stream]}
    BY <2>1 DEF Take
  <2> QED
    BY <2>2, <2>3 DEF Numbered
<1>12. CASE \E c \in Channels :
              \/ \E x \in Streams : Connect(c, x)
              \/ Disconnect(c) \/ RowEvicted(c) \/ Send(c)
              \/ \E m \in Messages : Realtime(c, m)
  BY <1>2, <1>12 DEF Connect, Disconnect, RowEvicted, Send, Realtime
<1> QED
  BY <1>4, <1>5, <1>6, <1>7, <1>8, <1>9, <1>10, <1>11, <1>12 DEF Next

LEMMA SequenceOf ==
  ASSUME NEW S, NEW n \in Nat, NEW f \in [1 .. n -> S]
  PROVE  f \in Seq(S) /\ Len(f) = n
  OBVIOUS

LEMMA Joined ==
  ASSUME NEW S, NEW s \in Seq(S), NEW t \in Seq(S)
  PROVE  /\ s \o t \in Seq(S) /\ Len(s \o t) = Len(s) + Len(t)
         /\ \A i \in 1 .. Len(s) : (s \o t)[i] = s[i]
         /\ \A i \in 1 .. Len(t) : (s \o t)[Len(s) + i] = t[i]
  OBVIOUS

\* Other rows, and what is awaited for them.
LEMMA RowsReplaced ==
  ASSUME NEW k, Once(k), NEW r \in Seq(RowTypes), NEW o \in SUBSET Messages,
         \A i, j \in 1 .. Len(r) : r[i].m = r[j].m => i = j,
         \A i \in 1 .. Len(r) : r[i].real <=> r[i].m \notin o
  PROVE  Once([k EXCEPT !.rows = r, !.optimistic = o])
<1> DEFINE n == [k EXCEPT !.rows = r, !.optimistic = o]
<1>1. /\ n \in [stream : Streams \cup {None}, up : BOOLEAN, rows : Seq(RowTypes),
               optimistic : SUBSET Messages]
      /\ n.rows = r /\ n.optimistic = o
  BY DEF Once
<1> HIDE DEF n
<1>2. Once(n)
  BY <1>1 DEF Once
<1> QED
  BY <1>2 DEF n

\* What was added in some order are messages of the set, each of them once.
LEMMA AdditionsOnce ==
  ASSUME NEW c, NEW ms \in SUBSET Messages, NEW order \in Additions(c, ms)
  PROVE  /\ order \in Seq(Messages)
         /\ \A i \in 1 .. Len(order) : order[i] \in ms \ Shown(c)
         /\ \A i, j \in 1 .. Len(order) : order[i] = order[j] => i = j
<1> DEFINE new == ms \ Shown(c)
<1>1. IsFiniteSet(Messages)
  BY SessionAssumption, FS_Interval DEF Messages
<1>2. Cardinality(new) \in Nat
  BY <1>1, FS_Subset, FS_CardinalityType
<1>3. /\ order \in [1 .. Cardinality(new) -> new]
      /\ \A i, j \in 1 .. Cardinality(new) : i # j => order[i] # order[j]
  BY DEF Additions, SetToSeqs
<1> HIDE DEF new
<1>4. new \subseteq Messages
  BY DEF new
<1>5. order \in [1 .. Cardinality(new) -> Messages]
  BY <1>3, <1>4
<1>6. order \in Seq(Messages) /\ Len(order) = Cardinality(new)
  BY <1>2, <1>5, SequenceOf
<1>7. \A i \in 1 .. Cardinality(new) : order[i] \in new
  BY <1>3
<1> QED
  BY <1>3, <1>6, <1>7 DEF new

\* One sequence after another.
LEMMA Concatenated ==
  ASSUME NEW S, NEW a \in Seq(S), NEW b \in Seq(S)
  PROVE  /\ a \o b \in Seq(S) /\ Len(a \o b) = Len(a) + Len(b)
         /\ \A i \in 1 .. Len(a) : (a \o b)[i] = a[i]
         /\ \A i \in 1 .. Len(b) : (a \o b)[Len(a) + i] = b[i]
         /\ Len(a) \in Nat /\ Len(b) \in Nat
  OBVIOUS

\* An authoritative message takes the place of its optimistic row, or a place of
\* its own where it was not shown.
LEMMA AuthoritativeOnce ==
  ASSUME NEW c, Once(chan[c]), NEW ms \in SUBSET Messages, NEW order \in Additions(c, ms)
  PROVE  Once(Authoritative(c, ms, order))
<1> DEFINE old == chan[c].rows
           opt == chan[c].optimistic
           up == Upgraded(c, ms)
           new == Rows(order, TRUE)
           all == up \o new
<1>1. /\ old \in Seq(RowTypes) /\ opt \in SUBSET Messages
      /\ \A i, j \in 1 .. Len(old) : old[i].m = old[j].m => i = j
      /\ \A i \in 1 .. Len(old) : old[i].real <=> old[i].m \notin opt
  BY DEF Once
<1>2. /\ up \in Seq(RowTypes) /\ Len(up) = Len(old)
      /\ \A i \in 1 .. Len(old) : /\ up[i].m = old[i].m
                                  /\ up[i].real <=> old[i].m \notin opt \ ms
  <2>1. /\ DOMAIN old = 1 .. Len(old) /\ Len(old) \in Nat
        /\ \A i \in 1 .. Len(old) : old[i] \in RowTypes
    BY <1>1
  <2>2. \A i \in 1 .. Len(old) :
          up[i] = IF old[i].m \in ms \cap opt THEN [old[i] EXCEPT !.real = TRUE] ELSE old[i]
    BY <2>1 DEF Upgraded
  <2>3. \A i \in 1 .. Len(old) : /\ up[i].m = old[i].m
                                 /\ up[i].real <=> old[i].m \notin opt \ ms
    BY <1>1, <2>1, <2>2 DEF RowTypes
  <2>4. up \in [1 .. Len(old) -> RowTypes]
    <3>1. \A i \in 1 .. Len(old) : up[i] \in RowTypes
      BY <2>1, <2>2 DEF RowTypes
    <3> QED
      BY <2>1, <3>1 DEF Upgraded
  <2> HIDE DEF up, opt, old
  <2>5. up \in Seq(RowTypes) /\ Len(up) = Len(old)
    BY <2>1, <2>4, SequenceOf
  <2> QED
    BY <2>3, <2>5
<1>3. /\ order \in Seq(Messages)
      /\ \A i \in 1 .. Len(order) : order[i] \in ms \ Shown(c)
      /\ \A i, j \in 1 .. Len(order) : order[i] = order[j] => i = j
  BY AdditionsOnce
<1>4. /\ new \in Seq(RowTypes) /\ Len(new) = Len(order)
      /\ \A i \in 1 .. Len(order) : new[i] = [m |-> order[i], real |-> TRUE]
  <2>1. /\ DOMAIN order = 1 .. Len(order) /\ Len(order) \in Nat
        /\ \A i \in 1 .. Len(order) : order[i] \in Messages
    BY <1>3
  <2>2. \A i \in 1 .. Len(order) : /\ new[i] = [m |-> order[i], real |-> TRUE]
                                   /\ new[i] \in RowTypes
    BY <2>1 DEF Rows, RowTypes
  <2>3. new \in [1 .. Len(order) -> RowTypes]
    BY <2>1, <2>2 DEF Rows
  <2> HIDE DEF new
  <2>4. new \in Seq(RowTypes) /\ Len(new) = Len(order)
    BY <2>1, <2>3, SequenceOf
  <2> QED
    BY <2>2, <2>4
<1>5. \A i \in 1 .. Len(old) : old[i].m \in Shown(c)
  BY <1>1 DEF Shown
<1> HIDE DEF up, new, old, opt
<1>6. /\ all \in Seq(RowTypes) /\ Len(all) = Len(old) + Len(order)
      /\ \A i \in 1 .. Len(old) : all[i] = up[i]
      /\ \A i \in 1 .. Len(order) : all[Len(old) + i] = new[i]
      /\ Len(old) \in Nat /\ Len(order) \in Nat
  <2>1. /\ up \in Seq(RowTypes) /\ Len(up) = Len(old)
        /\ new \in Seq(RowTypes) /\ Len(new) = Len(order)
    BY <1>2, <1>4
  <2> HIDE DEF all
  <2>2. /\ up \o new \in Seq(RowTypes) /\ Len(up \o new) = Len(up) + Len(new)
        /\ \A i \in 1 .. Len(up) : (up \o new)[i] = up[i]
        /\ \A i \in 1 .. Len(new) : (up \o new)[Len(up) + i] = new[i]
        /\ Len(up) \in Nat /\ Len(new) \in Nat
    BY <2>1, Concatenated
  <2>3. /\ all \in Seq(RowTypes) /\ Len(all) = Len(up) + Len(new)
        /\ \A i \in 1 .. Len(up) : all[i] = up[i]
        /\ \A i \in 1 .. Len(new) : all[Len(up) + i] = new[i]
        /\ Len(up) \in Nat /\ Len(new) \in Nat
    BY <2>2, Zenon DEF all
  <2> QED
    BY <2>1, <2>3, Zenon
<1>7. \A i \in 1 .. Len(all) :
        \/ i \in 1 .. Len(old) /\ all[i].m = old[i].m /\ all[i].m \in Shown(c)
        \/ /\ i - Len(old) \in 1 .. Len(order) /\ all[i].m = order[i - Len(old)]
           /\ all[i].m \in ms \ Shown(c) /\ all[i].real
  <2> SUFFICES ASSUME NEW i \in 1 .. Len(all), i \notin 1 .. Len(old)
               PROVE  /\ i - Len(old) \in 1 .. Len(order) /\ all[i].m = order[i - Len(old)]
                      /\ all[i].m \in ms \ Shown(c) /\ all[i].real
    BY <1>2, <1>5, <1>6
  <2>1. i - Len(old) \in 1 .. Len(order) /\ Len(old) + (i - Len(old)) = i
    BY <1>6
  <2>2. all[i] = [m |-> order[i - Len(old)], real |-> TRUE]
    BY <1>4, <1>6, <2>1
  <2> QED
    BY <1>3, <2>1, <2>2
<1> HIDE DEF all
<1>8. \A i, j \in 1 .. Len(all) : all[i].m = all[j].m => i = j
  <2> SUFFICES ASSUME NEW i \in 1 .. Len(all), NEW j \in 1 .. Len(all), all[i].m = all[j].m
               PROVE  i = j
    OBVIOUS
  <2>1. CASE all[i].m \in Shown(c)
    BY <1>1, <1>7, <2>1
  <2>2. CASE all[i].m \notin Shown(c)
    <3>1. /\ i - Len(old) \in 1 .. Len(order) /\ j - Len(old) \in 1 .. Len(order)
          /\ order[i - Len(old)] = order[j - Len(old)]
      BY <1>7, <2>2
    <3>2. i - Len(old) = j - Len(old)
      BY <1>3, <3>1
    <3>3. i \in Int /\ j \in Int
      BY <1>6
    <3> QED
      BY <1>6, <3>2, <3>3
  <2> QED
    BY <2>1, <2>2
<1>9. \A i \in 1 .. Len(all) : all[i].real <=> all[i].m \notin opt \ ms
  BY <1>2, <1>6, <1>7
<1>10. Authoritative(c, ms, order) = [chan[c] EXCEPT !.rows = all, !.optimistic = opt \ ms]
  BY DEF Authoritative, all, up, new, opt
<1> DEFINE k == chan[c]
           o == opt \ ms
<1>11. o \in SUBSET Messages /\ Once(k)
  BY <1>1
<1>12. \A i \in 1 .. Len(all) : all[i].real <=> all[i].m \notin o
  BY <1>9
<1>13. Authoritative(c, ms, order) = [k EXCEPT !.rows = all, !.optimistic = o]
  BY <1>10
<1> HIDE DEF k, o
<1>14. Once([k EXCEPT !.rows = all, !.optimistic = o])
  BY <1>6, <1>8, <1>11, <1>12, RowsReplaced
<1> QED
  BY <1>13, <1>14

\* One's own message is shown at once, where it is not shown.
LEMMA OptimisticOnce ==
  ASSUME NEW k, Once(k), NEW m \in Messages, \A i \in 1 .. Len(k.rows) : k.rows[i].m # m
  PROVE  Once([k EXCEPT !.rows = @ \o Rows(<<m>>, FALSE), !.optimistic = @ \cup {m}])
<1> DEFINE row == [m |-> m, real |-> FALSE]
           new == Rows(<<m>>, FALSE)
           all == k.rows \o new
<1>1. new \in Seq(RowTypes) /\ Len(new) = 1 /\ new[1] = row
  <2>1. DOMAIN <<m>> = 1 .. 1 /\ \A i \in 1 .. 1 : <<m>>[i] = m
    OBVIOUS
  <2>2. new = [i \in 1 .. 1 |-> row]
    BY <2>1 DEF Rows
  <2>3. row \in RowTypes
    BY DEF RowTypes
  <2> HIDE DEF new, row
  <2>4. new \in [1 .. 1 -> RowTypes] /\ new[1] = row
    BY <2>2, <2>3
  <2>5. new \in Seq(RowTypes) /\ Len(new) = 1
    BY <2>4, SequenceOf
  <2> QED
    BY <2>4, <2>5
<1>2. row.m = m /\ row.real = FALSE
  OBVIOUS
<1> HIDE DEF row, new
<1>3. k.rows \in Seq(RowTypes) /\ Len(k.rows) \in Nat
  BY DEF Once
<1>4. /\ all \in Seq(RowTypes) /\ Len(all) = Len(k.rows) + 1
      /\ \A i \in 1 .. Len(k.rows) : all[i] = k.rows[i]
      /\ all[Len(k.rows) + 1] = row
  <2>1. /\ all \in Seq(RowTypes) /\ Len(all) = Len(k.rows) + Len(new)
        /\ \A i \in 1 .. Len(k.rows) : all[i] = k.rows[i]
        /\ \A i \in 1 .. Len(new) : all[Len(k.rows) + i] = new[i]
    BY <1>1, <1>3, Joined
  <2> HIDE DEF all
  <2>2. 1 \in 1 .. Len(new)
    BY <1>1
  <2>3. all[Len(k.rows) + 1] = new[1]
    BY <2>1, <2>2
  <2> QED
    BY <1>1, <2>1, <2>3
<1> HIDE DEF all
<1>5. \A i \in 1 .. Len(all) : i \in 1 .. Len(k.rows) \/ i = Len(k.rows) + 1
  BY <1>3, <1>4
<1>6. \A i, j \in 1 .. Len(all) : all[i].m = all[j].m => i = j
  BY <1>2, <1>4, <1>5 DEF Once
<1>7. \A i \in 1 .. Len(all) : all[i].real <=> all[i].m \notin k.optimistic \cup {m}
  BY <1>2, <1>4, <1>5 DEF Once
<1>8. [k EXCEPT !.rows = @ \o Rows(<<m>>, FALSE), !.optimistic = @ \cup {m}]
        = [k EXCEPT !.rows = all, !.optimistic = k.optimistic \cup {m}]
  BY DEF all, new
<1>9. k.optimistic \cup {m} \in SUBSET Messages
  BY DEF Once
<1> QED
  BY <1>4, <1>6, <1>7, <1>8, <1>9, RowsReplaced

\* The oldest row goes, and with it what was awaited for it.
LEMMA EvictedOnce ==
  ASSUME NEW k, Once(k), k.rows # <<>>
  PROVE  Once([k EXCEPT !.rows = Tail(@), !.optimistic = @ \ {Head(k.rows).m}])
<1> DEFINE rest == Tail(k.rows)
<1>1. /\ k.rows \in Seq(RowTypes) /\ Len(k.rows) \in Nat
      /\ 1 \in 1 .. Len(k.rows) /\ Head(k.rows) = k.rows[1]
  BY DEF Once
<1>2. /\ rest \in Seq(RowTypes) /\ Len(rest) = Len(k.rows) - 1
      /\ \A i \in 1 .. Len(rest) : i + 1 \in 1 .. Len(k.rows) /\ rest[i] = k.rows[i + 1]
  BY <1>1
<1> HIDE DEF rest
<1>3. \A i, j \in 1 .. Len(rest) : rest[i].m = rest[j].m => i = j
  <2> SUFFICES ASSUME NEW i \in 1 .. Len(rest), NEW j \in 1 .. Len(rest),
                      rest[i].m = rest[j].m
               PROVE  i = j
    OBVIOUS
  <2>1. i + 1 = j + 1
    BY <1>2 DEF Once
  <2> QED
    BY <2>1
<1>4. \A i \in 1 .. Len(rest) : rest[i].m # Head(k.rows).m
  <2> SUFFICES ASSUME NEW i \in 1 .. Len(rest), rest[i].m = k.rows[1].m PROVE FALSE
    BY <1>1
  <2>1. i + 1 = 1
    BY <1>1, <1>2 DEF Once
  <2> QED
    BY <2>1
<1>5. \A i \in 1 .. Len(rest) :
        rest[i].real <=> rest[i].m \notin k.optimistic \ {Head(k.rows).m}
  BY <1>2, <1>4 DEF Once
<1>6. [k EXCEPT !.rows = Tail(@), !.optimistic = @ \ {Head(k.rows).m}]
        = [k EXCEPT !.rows = rest, !.optimistic = k.optimistic \ {Head(k.rows).m}]
  BY DEF rest
<1>7. k.optimistic \ {Head(k.rows).m} \in SUBSET Messages
  BY DEF Once
<1> QED
  BY <1>2, <1>3, <1>5, <1>6, <1>7, RowsReplaced

\* A step that changes one channel, or none.
LEMMA OneChannel ==
  ASSUME Showing, Numbered', NEW c, NEW k, chan' = [chan EXCEPT ![c] = k],
         c \in Channels => Once(k)
  PROVE  Showing'
  BY DEF Showing

LEMMA ShowingStep ==
  ASSUME IInv, Showing, [Next]_vars
  PROVE  Showing'
<1>1. Numbered'
  BY NumberedStep DEF Showing
<1>2. CASE UNCHANGED chan
  BY <1>1, <1>2 DEF Showing
<1>3. ASSUME NEW x PROVE Taken(x) \subseteq Messages
  BY DEF Showing, Numbered, Taken
<1>4. ASSUME NEW c \in Channels, NEW x \in Streams, Connect(c, x) PROVE Showing'
  <2>1. PICK ms \in SUBSET Taken(x) : \E order \in Additions(c, ms) :
          chan' = [chan EXCEPT ![c] = [Authoritative(c, ms, order) EXCEPT
                                         !.stream = x, !.up = TRUE]]
    BY <1>4 DEF Connect
  <2>2. PICK order \in Additions(c, ms) :
          chan' = [chan EXCEPT ![c] = [Authoritative(c, ms, order) EXCEPT
                                         !.stream = x, !.up = TRUE]]
    BY <2>1
  <2>3. Once(Authoritative(c, ms, order))
    BY <1>3, AuthoritativeOnce DEF Showing
  <2>4. Once([Authoritative(c, ms, order) EXCEPT !.stream = x, !.up = TRUE])
    BY <2>3 DEF Once
  <2> QED
    BY <1>1, <2>4, <2>2, OneChannel
<1>5. ASSUME NEW c \in Channels, Disconnect(c) PROVE Showing'
  <2>1. chan' = [chan EXCEPT ![c] = [chan[c] EXCEPT !.up = FALSE]]
    BY <1>5 DEF Disconnect
  <2>2. Once([chan[c] EXCEPT !.up = FALSE])
    BY DEF Showing, Once
  <2> QED
    BY <1>1, <2>1, <2>2, OneChannel
<1>6. ASSUME NEW c \in Channels, RowEvicted(c) PROVE Showing'
  <2> DEFINE k == [chan[c] EXCEPT !.rows = Tail(@), !.optimistic = @ \ {Head(chan[c].rows).m}]
  <2>1. chan' = [chan EXCEPT ![c] = k] /\ chan[c].rows # <<>>
    BY <1>6 DEF RowEvicted
  <2>2. Once(k)
    BY <2>1, EvictedOnce DEF Showing
  <2> QED
    BY <1>1, <2>1, <2>2, OneChannel
<1>7. ASSUME NEW c \in Channels, NEW m \in Messages, Realtime(c, m) PROVE Showing'
  <2>1. PICK order \in Additions(c, {m}) :
          chan' = [chan EXCEPT ![c] = Authoritative(c, {m}, order)]
    BY <1>7 DEF Realtime
  <2>2. Once(Authoritative(c, {m}, order))
    BY AuthoritativeOnce DEF Showing
  <2> QED
    BY <1>1, <2>1, <2>2, OneChannel
<1>8. CASE SendConfirmed /\ ~UNCHANGED chan
  <2> DEFINE c == ses.send.chan
             m == ses.send.m
             k == [chan[c] EXCEPT !.rows = @ \o Rows(<<m>>, FALSE), !.optimistic = @ \cup {m}]
  <2>1. chan' = [chan EXCEPT ![c] = k] /\ m \notin Shown(c) /\ ses.send # NoSend
    BY <1>8 DEF SendConfirmed
  <2>2. m \in Messages
    BY <2>1 DEF IInv, Sound, Busy
  <2>3. ASSUME c \in Channels PROVE Once(k)
    <3>1. Once(chan[c])
      BY <2>3 DEF Showing
    <3>2. \A i \in 1 .. Len(chan[c].rows) : chan[c].rows[i].m # m
      BY <2>1, <3>1 DEF Shown, Once
    <3> QED
      BY <2>2, <3>1, <3>2, OptimisticOnce
  <2> HIDE DEF c, k
  <2> QED
    BY <1>1, <2>1, <2>3, OneChannel
<1>9. CASE \/ SessionAnswers \/ SendAmbiguous
           \/ (\E status \in {"401", "403", "429", "429 bare", "400"} : SendRefused(status))
           \/ Login \/ BrowserFails \/ BlockExpires \/ (\E a \in Accounts : BrowserSession(a))
  BY <1>2, <1>9 DEF SessionAnswers, ProbeAccepted, ProbeRejected, ProbeFails, LoginAccepted,
                   LoginRefused, SendAmbiguous, SendRefused, Login, BrowserFails, BlockExpires,
                   BrowserSession
<1>10. CASE \/ KeyringAnswers \/ (\E a \in Accounts \cup {None} : Select(a))
            \/ \E a \in Accounts : RemoveAccount(a)
  BY <1>2, <1>10 DEF KeyringAnswers, CredentialRead, ReadFails, CredentialWritten, WriteFails,
                    CredentialErased, EraseFails, Select, RemoveAccount
<1>11. CASE \/ (\E x \in Streams :
                  EligibilityKnown(x) \/ EligibilityRejected(x) \/ EligibilityUnknown(x))
            \/ (\E r \in late : LateAnswer(r)) \/ (\E r \in Requests(ses) \cup late : Take(r))
            \/ \E c \in Channels : Send(c)
  BY <1>2, <1>11 DEF EligibilityKnown, EligibilityRejected, EligibilityUnknown, LateAnswer,
                    Take, Send
<1>12. CASE UNCHANGED vars
  BY <1>2, <1>12 DEF vars
<1> QED
  BY <1>2, <1>4, <1>5, <1>6, <1>7, <1>8, <1>9, <1>10, <1>11, <1>12, Zenon DEF Next, SendAnswers

\* Whatever order the answer to a message, its event in the stream and the
\* history of a reconnection come in, for any channels, streams and number of
\* messages: it is shown once, and as optimistic while its event is awaited.
THEOREM OwnRowsOnce == Spec => []OwnMessagesOnce
<1>1. Init => Showing
  <2> SUFFICES ASSUME Init PROVE Showing
    OBVIOUS
  <2>1. Numbered
    BY DEF Init, Numbered
  <2>2. chan = [c \in Channels |->
                  [stream |-> None, up |-> FALSE, rows |-> <<>>, optimistic |-> {}]]
    BY DEF Init
  <2>3. Once([stream |-> None, up |-> FALSE, rows |-> <<>>, optimistic |-> {}])
    BY DEF Once
  <2> QED
    BY <2>1, <2>2, <2>3 DEF Showing
<1>2. Showing => OwnMessagesOnce
  <2> SUFFICES ASSUME Showing, NEW c \in Channels
               PROVE  /\ IsInjective([i \in DOMAIN chan[c].rows |-> chan[c].rows[i].m])
                      /\ \A i \in DOMAIN chan[c].rows :
                           chan[c].rows[i].real <=> chan[c].rows[i].m \notin chan[c].optimistic
    BY DEF OwnMessagesOnce
  <2>1. Once(chan[c]) /\ DOMAIN chan[c].rows = 1 .. Len(chan[c].rows)
    BY DEF Showing, Once
  <2> QED
    BY <2>1 DEF Once, IsInjective
<1> QED
  BY <1>1, <1>2, ShowingStep, Invariant, PTL DEF Spec
=============================================================================
