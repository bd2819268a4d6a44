------------------------ MODULE RumbleValidationProofs ------------------------
(***************************************************************************)
(* Proofs about RumbleValidation, for any limit on redirects and on the    *)
(* length of a stream: the message is posted once at most, the report      *)
(* never denies a message that was taken, its overall result is that of    *)
(* the worst row, exit code 0 is proof, what comes late proves nothing,    *)
(* and the two resolvers agree.                                            *)
(*                                                                         *)
(* That no second POST is made rests on what the request in hand is        *)
(* whenever one has been: the message, already sent, and not to be         *)
(* redirected.  That a denial is true rests on what Rumble has answered by *)
(* the time the reply is judged.                                           *)
(***************************************************************************)
EXTENDS RumbleValidation, TLAPS

\* A record with the fields of a reply, whatever its body.
IsReply(g) ==
  /\ g = [f \in {"status", "media", "retry", "body"} |-> g[f]]
  /\ g.status \in Nat
Requests == [scenario : Scenarios, stage : Stages, profile : {"c", "user"}]

Types ==
  /\ args \in [command : {"public", "diagnose", "authenticated"}, send : BOOLEAN,
               typed : {"nothing", "SEND ONCE", "else"}]
  /\ at \in Requests
  /\ req \in [redirects : Nat, sent : BOOLEAN, late : BOOLEAN]
  /\ IsReply(got)
  /\ rows \in Seq(Range(rows))
  /\ post \in [made : Nat, taken : BOOLEAN, refused : BOOLEAN]

Running == pc \in {"request", "reply", "stream"}

\* Where the run is: what leads to the request in hand.
Place ==
  /\ pc \in {"start", "request", "reply", "stream", "done"}
  /\ pc = "start" => at.stage = "PAGE"
  /\ at.stage \in {"SESSION", "SEND"} => at.scenario = "TEST"
  /\ Running /\ args.send => args.typed = "SEND ONCE"
  /\ at.stage = "SEND" => args.send /\ args.typed = "SEND ONCE"
  /\ at.stage = "SEND" /\ (Running \/ report.overall # "INTERNAL_ERROR") =>
       PassRow("TEST", "SESSION")
  /\ pc = "request" => got.status = 0
  /\ pc = "stream" => at.stage \in {"SSE", "RECONNECT"}

\* Once a POST was made, it is the request in hand, and sent.
Posted ==
  \/ post.made = 0
  \/ post.made = 1 /\ at.stage = "SEND" /\ (pc = "request" => req.sent)

\* What Rumble did, where a reply to the message is read or its row stands.
Judged ==
  /\ post.taken => post.made > 0 /\ ~post.refused
  /\ pc = "reply" /\ at.stage = "SEND" => got.status = 200 /\ post.taken
  /\ RowsOf("SEND") # {} => pc = "done"
  /\ \A i \in RowsOf("SEND") :
       /\ rows[i].observation \in {"SEND_REJECTED", "RETRY_AFTER"} => post.refused
       /\ rows[i].observation = "SEND_DISABLED" => post.made = 0
       /\ rows[i].outcome = "PASS" => post.taken

IInv == Types /\ Place /\ Posted /\ Judged

-----------------------------------------------------------------------------

\* Only an accepted session leads on.
LEMMA SessionOn ==
  ASSUME NEW g, SessionVerdict(g).on PROVE SessionVerdict(g).outcome = "PASS"
BY DEF SessionVerdict, Failure, Remote, Mismatch, Inconclusive, Passes, Verdict, FailureKinds

\* What the row on a message says of the reply.
LEMMA SendRow ==
  ASSUME NEW g, IsReply(g)
  PROVE  /\ SendVerdict(g).observation \in {"SEND_REJECTED", "RETRY_AFTER"} =>
              g.status # 0 /\ Refusal(g.status)
         /\ SendVerdict(g).observation # "SEND_DISABLED"
         /\ SendVerdict(g).outcome = "PASS" => g.status = 200
BY DEF SendVerdict, Mismatch, Inconclusive, Passes, Verdict, Refusal, IsReply

\* A sequence is one over its own elements.
LEMMA OwnRange ==
  ASSUME NEW T, NEW u \in Seq(T) PROVE u \in Seq(Range(u))
<1>1. u = [i \in 1 .. Len(u) |-> u[i]] /\ Len(u) \in Nat
  OBVIOUS
<1>2. \A i \in 1 .. Len(u) : u[i] \in Range(u)
  BY DEF Range
<1> HIDE DEF Range
<1> QED BY <1>1, <1>2

\* u is s with t at its end.
Appended(s, t, u) ==
  /\ u \in Seq(Range(u))
  /\ \A i \in DOMAIN s : i \in DOMAIN u /\ u[i] = s[i]
  /\ \A i \in DOMAIN u :
       \/ i \in DOMAIN s /\ u[i] = s[i]
       \/ \E j \in DOMAIN t : u[i] = t[j]
  /\ \A j \in DOMAIN t : \E i \in DOMAIN u : u[i] = t[j]

LEMMA Grown ==
  ASSUME NEW s, NEW t, NEW u, s \in Seq(Range(s)), t \in Seq(Range(t)), u = s \o t
  PROVE  Appended(s, t, u)
<1> DEFINE T == Range(s) \cup Range(t)
<1>1. s \in Seq(T) /\ t \in Seq(T)
  BY DEF Range
<1> HIDE DEF T
<1>2. u \in Seq(T) /\ Len(u) = Len(s) + Len(t)
  BY <1>1
<1>3. \A i \in 1 .. Len(s) : u[i] = s[i]
  BY <1>1
<1>4. \A j \in 1 .. Len(t) : u[Len(s) + j] = t[j]
  BY <1>1
<1>5. u \in Seq(Range(u))
  BY <1>2, OwnRange
<1>6. ASSUME NEW i \in DOMAIN u, i \notin DOMAIN s
      PROVE  \E j \in DOMAIN t : u[i] = t[j]
  <2>1. i - Len(s) \in 1 .. Len(t)
    BY <1>1, <1>2, <1>6
  <2>2. u[Len(s) + (i - Len(s))] = t[i - Len(s)]
    BY <1>4, <2>1
  <2> QED BY <1>1, <1>2, <2>1, <2>2
<1>7. ASSUME NEW j \in DOMAIN t PROVE \E i \in DOMAIN u : u[i] = t[j]
  <2>1. Len(s) + j \in DOMAIN u
    BY <1>1, <1>2
  <2> QED BY <1>1, <1>4, <2>1
<1> QED BY <1>1, <1>2, <1>3, <1>5, <1>6, <1>7 DEF Appended

-----------------------------------------------------------------------------
(* Judging a reply. *)

\* What is known of the reply g of the request in hand, and of the message by
\* then.
Heard(g) ==
  /\ Running /\ IInv
  /\ IsReply(g)
  /\ args' = args
  /\ post' \in [made : Nat, taken : BOOLEAN, refused : BOOLEAN]
  /\ post'.made = post.made
  /\ post'.taken => post'.made > 0 /\ ~post'.refused
  /\ at.stage = "SEND" /\ g.status = 200 => post'.taken
  /\ at.stage = "SEND" /\ g.status # 0 /\ Refusal(g.status) => post'.refused

\* The next request is not the message, unless the session was accepted.
LEMMA NextRequest ==
  ASSUME NEW g, Heard(g), NEW a \in Requests,
         Request(a), at.stage # "SEND",
         rows' \in Seq(Range(rows')),
         \A i \in DOMAIN rows' : rows'[i].stage # "SEND",
         a.stage \in {"SESSION", "SEND"} => a.scenario = "TEST",
         a.stage = "SEND" => args.send /\ PassRow("TEST", "SESSION")'
  PROVE  IInv'
<1> USE DEF Heard, IInv, Request
<1>a. NoRequest \in [redirects : Nat, sent : BOOLEAN, late : BOOLEAN]
  BY DEF NoRequest
<1>b. IsReply(NoReply)
  BY DEF NoReply, IsReply
<1>1. Types'
  BY <1>a, <1>b DEF Types
<1>2. Place'
  BY DEF Place, NoReply, Running, Types
<1>3. Posted'
  BY DEF Posted, Types
<1>4. Judged'
  BY DEF Judged, RowsOf, Types
<1> QED BY <1>1, <1>2, <1>3, <1>4

\* While the run lasts, no row is about the message.
LEMMA NoSendRow ==
  ASSUME IInv, Running PROVE \A i \in DOMAIN rows : rows[i].stage # "SEND"
BY DEF IInv, Judged, RowsOf, Running

LEMMA DiagnoseStep ==
  ASSUME NEW g, Heard(g), DiagnoseConcludes(g) PROVE IInv'
<1> USE DEF Heard
<1>1. rows' = rows /\ \A i \in DOMAIN rows' : rows'[i].stage # "SEND"
  BY NoSendRow DEF DiagnoseConcludes
<1>2. CASE at.stage = "PAGE" /\ Readable(g, "HTML") /\ g.body = "LIVE"
  <2> DEFINE a == [at EXCEPT !.stage = "EMBED"]
  <2>1. /\ a \in Requests
        /\ a.stage = "EMBED"
    BY DEF IInv, Types, Stages, Requests
  <2>2. Request(a)
    BY <1>2 DEF DiagnoseConcludes
  <2> HIDE DEF a
  <2> QED BY <1>1, <1>2, <2>1, <2>2, NextRequest DEF IInv, Types
<1>3. CASE ~(at.stage = "PAGE" /\ Readable(g, "HTML") /\ g.body = "LIVE")
  <2>1. pc' = "done" /\ got' = g /\ UNCHANGED <<at, req, rows>>
    BY <1>3 DEF DiagnoseConcludes, Finished
  <2>2. Types'
    BY <2>1 DEF IInv, Types
  <2>3. Place'
    BY <2>1 DEF IInv, Place, Running, PassRow
  <2>4. Posted'
    BY <2>1 DEF IInv, Posted
  <2>5. Judged'
    BY <1>1, <2>1 DEF IInv, Judged, RowsOf
  <2> QED BY <2>2, <2>3, <2>4, <2>5 DEF IInv
<1> QED BY <1>2, <1>3

\* The row of a reply, and the one on the message that was not asked for.
LEMMA RowsGrow ==
  ASSUME Types, NEW r, NEW t \in {<<r>>, <<r, NotRun>>}, rows' = rows \o t
  PROVE  /\ rows' \in Seq(Range(rows'))
         /\ \A i \in DOMAIN rows : i \in DOMAIN rows' /\ rows'[i] = rows[i]
         /\ \A i \in DOMAIN rows' :
              \/ i \in DOMAIN rows /\ rows'[i] = rows[i]
              \/ rows'[i] = r
              \/ rows'[i] = NotRun /\ t = <<r, NotRun>>
         /\ \E i \in DOMAIN rows' : rows'[i] = r
<1> DEFINE q == NotRun
<1> HIDE DEF q
<1>1. <<r>> \in Seq({r}) /\ DOMAIN <<r>> = {1} /\ <<r>>[1] = r
  OBVIOUS
<1>2. /\ <<r, q>> \in Seq({r, q}) /\ DOMAIN <<r, q>> = {1, 2}
      /\ <<r, q>>[1] = r /\ <<r, q>>[2] = q
  OBVIOUS
<1>3. t = <<r>> \/ t = <<r, q>>
  BY DEF q
<1>4. t \in Seq(Range(t))
  BY <1>1, <1>2, <1>3, OwnRange
<1>5. \A j \in DOMAIN t : t[j] = r \/ (t[j] = q /\ t = <<r, q>>)
  <2>1. CASE t = <<r>>
    BY <1>1, <2>1
  <2>2. CASE t = <<r, q>>
    BY <1>2, <2>2
  <2> QED BY <1>3, <2>1, <2>2
<1>6. 1 \in DOMAIN t /\ t[1] = r
  <2>1. CASE t = <<r>>
    BY <1>1, <2>1
  <2>2. CASE t = <<r, q>>
    BY <1>2, <2>2
  <2> QED BY <1>3, <2>1, <2>2
<1>7. rows \in Seq(Range(rows))
  BY DEF Types
<1>8. Appended(rows, t, rows')
  BY <1>4, <1>7, Grown
<1> QED BY <1>5, <1>6, <1>8 DEF q, Appended

LEMMA ValidationStep ==
  ASSUME NEW g, Heard(g), ValidationConcludes(g) PROVE IInv'
<1> DEFINE v == VerdictOn(at, g)
           row == Row(v.outcome, v.observation)
           next == IF v.on THEN Successor(at) ELSE "none"
           unsent == at.stage = "SESSION" /\ v.on /\ ~args.send
           t == IF unsent THEN <<row, NotRun>> ELSE <<row>>
<1> USE DEF Heard
<1>1. /\ rows' = rows \o t
      /\ \/ next # "none" /\ Request([at EXCEPT !.stage = next])
         \/ /\ next = "none" /\ at.scenario = "LIVE"
            /\ Request([scenario |-> "OFFLINE", stage |-> "PAGE", profile |-> "c"])
         \/ /\ next = "none" /\ at.scenario # "LIVE"
            /\ pc' = "done" /\ got' = g /\ UNCHANGED <<at, req>>
  BY DEF ValidationConcludes, Reported, Finished
<1>2. /\ row.scenario = at.scenario /\ row.stage = at.stage
      /\ row.outcome = v.outcome /\ row.observation = v.observation
  BY DEF Row
<1>3. v.on /\ at.stage = "SESSION" => v.outcome = "PASS"
  BY SessionOn DEF VerdictOn
<1>4. at.stage = "SEND" => v = SendVerdict(g)
  BY DEF VerdictOn
<1> HIDE DEF v, row
<1>6. t = <<row, NotRun>> => unsent
  <2>1. <<row>> # <<row, NotRun>>
    OBVIOUS
  <2> QED BY <2>1
<1>a. t \in {<<row>>, <<row, NotRun>>}
  OBVIOUS
<1> HIDE DEF t
<1>5. /\ rows' \in Seq(Range(rows'))
      /\ \A i \in DOMAIN rows : i \in DOMAIN rows' /\ rows'[i] = rows[i]
      /\ \A i \in DOMAIN rows' :
           \/ i \in DOMAIN rows /\ rows'[i] = rows[i]
           \/ rows'[i] = row
           \/ rows'[i] = NotRun /\ t = <<row, NotRun>>
      /\ \E i \in DOMAIN rows' : rows'[i] = row
  <2>1. rows' = rows \o t
    BY <1>1, Zenon
  <2>2. Types
    BY DEF IInv
  <2> HIDE DEF Heard
  <2> QED BY <1>a, <2>1, <2>2, RowsGrow, Zenon
<1>7. \A i \in DOMAIN rows : rows[i].stage # "SEND"
  BY NoSendRow
<1>8. next # "none" =>
        /\ at.stage # "SEND" /\ next \in Stages /\ v.on
        /\ next = "SESSION" => at.scenario = "TEST"
        /\ next = "SEND" => args.send /\ at.stage = "SESSION"
  BY DEF Successor, IInv, Types, Stages
<1>9. CASE next # "none" /\ Request([at EXCEPT !.stage = next])
  <2> DEFINE a == [at EXCEPT !.stage = next]
  <2>1. /\ a \in Requests
        /\ a.stage = next /\ a.scenario = at.scenario
    BY <1>8, <1>9 DEF IInv, Types, Requests
  <2>2. \A i \in DOMAIN rows' : rows'[i].stage # "SEND"
    <3>1. ~unsent
      BY <1>9 DEF Successor
    <3> QED BY <1>2, <1>5, <1>6, <1>7, <1>8, <1>9, <3>1
  <2>3. next = "SEND" => args.send /\ PassRow("TEST", "SESSION")'
    <3> SUFFICES ASSUME next = "SEND" PROVE args.send /\ PassRow("TEST", "SESSION")'
      OBVIOUS
    <3>1. at.stage = "SESSION" /\ v.outcome = "PASS" /\ at.scenario = "TEST" /\ args.send
      BY <1>3, <1>8, <1>9 DEF IInv, Place
    <3> QED BY <1>2, <1>5, <3>1 DEF PassRow
  <2>4. a.stage \in {"SESSION", "SEND"} => a.scenario = "TEST"
    BY <1>8, <1>9, <2>1 DEF IInv, Place
  <2>5. Request(a)
    BY <1>9
  <2> HIDE DEF a, next
  <2> QED BY <1>5, <1>8, <1>9, <2>1, <2>2, <2>3, <2>4, <2>5, NextRequest
<1>10. CASE /\ next = "none" /\ at.scenario = "LIVE"
            /\ Request([scenario |-> "OFFLINE", stage |-> "PAGE", profile |-> "c"])
  <2> DEFINE a == [scenario |-> "OFFLINE", stage |-> "PAGE", profile |-> "c"]
  <2>1. /\ a \in Requests
        /\ a.stage = "PAGE"
    BY DEF Scenarios, Stages, Requests
  <2>2. at.stage \notin {"SESSION", "SEND"}
    BY <1>10 DEF IInv, Place
  <2>3. \A i \in DOMAIN rows' : rows'[i].stage # "SEND"
    BY <1>2, <1>5, <1>6, <1>7, <2>2
  <2>4. Request(a)
    BY <1>10
  <2> HIDE DEF a
  <2> QED BY <1>5, <2>1, <2>2, <2>3, <2>4, NextRequest
<1>11. CASE /\ next = "none" /\ at.scenario # "LIVE"
            /\ pc' = "done" /\ got' = g /\ UNCHANGED <<at, req>>
  <2>1. Types'
    BY <1>5, <1>11 DEF IInv, Types
  <2>2. Place'
    <3>1. PassRow("TEST", "SESSION") => PassRow("TEST", "SESSION")'
      BY <1>5 DEF PassRow
    <3> QED BY <1>11, <3>1 DEF IInv, Place, Running
  <2>3. Posted'
    BY <1>11 DEF IInv, Posted
  <2>4. Judged'
    <3>1. post'.taken => post'.made > 0 /\ ~post'.refused
      OBVIOUS
    <3>2. ASSUME NEW i \in DOMAIN rows', rows'[i].stage = "SEND"
          PROVE  /\ rows'[i].observation \in {"SEND_REJECTED", "RETRY_AFTER"} => post'.refused
                 /\ rows'[i].observation = "SEND_DISABLED" => post'.made = 0
                 /\ rows'[i].outcome = "PASS" => post'.taken
      <4>1. CASE rows'[i] = row
        BY <1>2, <1>4, <3>2, <4>1, SendRow
      <4>2. CASE rows'[i] = NotRun /\ t = <<row, NotRun>>
        <5>1. post'.made = 0
          BY <1>6, <4>2 DEF IInv, Posted
        <5>2. NotRun.observation = "SEND_DISABLED" /\ NotRun.outcome = "NOT_RUN"
          BY DEF NotRun
        <5> QED BY <4>2, <5>1, <5>2
      <4> QED BY <1>5, <1>7, <3>2, <4>1, <4>2
    <3> QED BY <1>11, <3>1, <3>2 DEF Judged, RowsOf
  <2> QED BY <2>1, <2>2, <2>3, <2>4 DEF IInv
<1> QED BY <1>1, <1>9, <1>10, <1>11

LEMMA ConcludeStep ==
  ASSUME NEW g, Heard(g), Conclude(g) PROVE IInv'
<1>1. CASE Legacy(g)
  <2> DEFINE a == [at EXCEPT !.profile = "user"]
  <2>1. a \in Requests /\ a.stage = "PAGE" /\ at.stage = "PAGE"
    BY <1>1 DEF Legacy, Heard, IInv, Types, Requests
  <2>2. Request(a) /\ rows' = rows
    BY <1>1 DEF Conclude
  <2>3. \A i \in DOMAIN rows' : rows'[i].stage # "SEND"
    BY <2>2, NoSendRow DEF Heard
  <2>4. rows' \in Seq(Range(rows'))
    BY <2>2 DEF Heard, IInv, Types
  <2> HIDE DEF a
  <2> QED BY <2>1, <2>2, <2>3, <2>4, NextRequest
<1>2. CASE ~Legacy(g) /\ args.command = "diagnose"
  BY <1>2, DiagnoseStep DEF Conclude
<1>3. CASE ~Legacy(g) /\ args.command # "diagnose"
  BY <1>3, ValidationStep DEF Conclude
<1> QED BY <1>1, <1>2, <1>3

\* The reply as it was opened, its body found to be `body'.
LEMMA BodyStep ==
  ASSUME IInv, Running, NEW body, Conclude([got EXCEPT !.body = body]),
         UNCHANGED <<args, post>>
  PROVE  IInv'
<1> DEFINE g == [got EXCEPT !.body = body]
<1>1. IsReply(g) /\ g.status = got.status
  BY DEF IInv, Types, IsReply
<1> HIDE DEF g
<1>2. /\ pc = "request" => got.status = 0
      /\ pc = "stream" => at.stage \in {"SSE", "RECONNECT"}
  BY DEF IInv, Place
<1>3. /\ pc = "reply" /\ at.stage = "SEND" => got.status = 200 /\ post.taken
      /\ post.taken => post.made > 0 /\ ~post.refused
  BY DEF IInv, Judged
<1>4. at.stage = "SEND" => g.status = 0 \/ (g.status = 200 /\ post.taken)
  BY <1>1, <1>2, <1>3 DEF Running
<1>5. post' = post /\ args' = args /\ post \in [made : Nat, taken : BOOLEAN, refused : BOOLEAN]
  BY DEF IInv, Types
<1>6. ~Refusal(200)
  BY DEF Refusal
<1>7. Heard(g)
  BY <1>1, <1>3, <1>4, <1>5, <1>6 DEF Heard
<1> QED BY <1>7, ConcludeStep DEF g

LEMMA FailStep ==
  ASSUME IInv, Running, NEW kind, Fail(kind) PROVE IInv'
BY BodyStep DEF Fail

LEMMA InitIInv == Init => IInv
<1> SUFFICES ASSUME Init PROVE IInv
  OBVIOUS
<1>1. Types
  <2>1. rows \in Seq(Range(rows))
    BY OwnRange DEF Init
  <2>2. args \in [command : {"public", "diagnose", "authenticated"}, send : BOOLEAN,
                 typed : {"nothing", "SEND ONCE", "else"}]
    BY DEF Init
  <2>3. at \in Requests
    BY DEF Init, Requests, Scenarios, Stages
  <2>4. IsReply(got)
    BY DEF Init, NoReply, IsReply
  <2> QED BY <2>1, <2>2, <2>3, <2>4 DEF Init, Types, NoRequest
<1>2. Place
  BY DEF Init, Place, Running
<1>3. Posted /\ Judged
  BY DEF Init, Posted, Judged, RowsOf
<1> QED BY <1>1, <1>2, <1>3 DEF IInv

LEMMA StepIInv == IInv /\ [Next]_vars => IInv'
<1> SUFFICES ASSUME IInv, [Next]_vars PROVE IInv'
  OBVIOUS
<1> USE DEF IInv
<1>1. CASE Reject
  <2> USE <1>1 DEF Reject
  <2>1. Types'
    BY DEF Types
  <2>2. Place'
    BY DEF Place, Running, PassRow
  <2>3. Posted' /\ Judged'
    BY DEF Posted, Judged, RowsOf
  <2> QED BY <2>1, <2>2, <2>3
<1>2. CASE Begin
  <2>1. \E typed \in {"SEND ONCE", "else", "nothing"} :
          (args.send => typed = "SEND ONCE") /\ args' = [args EXCEPT !.typed = typed]
    BY <1>2 DEF Begin
  <2>2. /\ at.stage = "PAGE" /\ UNCHANGED <<rows, report, post, at>>
        /\ pc' = "request" /\ req' = NoRequest /\ got' = NoReply /\ pc = "start"
    BY <1>2 DEF Begin, Request, Place
  <2>3. Types'
    <3>1. IsReply(NoReply)
      BY DEF NoReply, IsReply
    <3>2. NoRequest \in [redirects : Nat, sent : BOOLEAN, late : BOOLEAN]
      BY DEF NoRequest
    <3> QED BY <2>1, <2>2, <3>1, <3>2 DEF Types
  <2>4. Place'
    BY <2>1, <2>2 DEF Place, NoReply, Running, Types
  <2>5. Posted' /\ Judged'
    BY <2>2 DEF Posted, Judged, RowsOf
  <2> QED BY <2>3, <2>4, <2>5
<1>3. CASE Transmit
  <2>1. /\ pc = "request" /\ ~req.sent
        /\ req' = [req EXCEPT !.sent = TRUE]
        /\ UNCHANGED <<args, pc, at, got, rows, report>>
    BY <1>3 DEF Transmit
  <2>2. /\ at.stage = "SEND" => post.made = 0 /\ post' = [post EXCEPT !.made = 1]
        /\ at.stage # "SEND" => post' = post /\ post.made = 0
    <3>1. post.made = 0
      BY <2>1 DEF Posted
    <3>2. post' = [post EXCEPT !.made = IF at.stage = "SEND" THEN post.made + 1 ELSE post.made]
      BY <1>3 DEF Transmit
    <3>3. post = [post EXCEPT !.made = post.made]
      BY DEF Types
    <3>4. CASE at.stage = "SEND"
      BY <3>1, <3>2, <3>4
    <3>5. CASE at.stage # "SEND"
      BY <3>1, <3>2, <3>3, <3>5
    <3> QED BY <3>4, <3>5
  <2>3. Types'
    <3>1. req' \in [redirects : Nat, sent : BOOLEAN, late : BOOLEAN]
      BY <2>1, Zenon DEF Types
    <3>2. post' \in [made : Nat, taken : BOOLEAN, refused : BOOLEAN]
      <4>1. 1 \in Nat
        OBVIOUS
      <4>2. post' = post \/ post' = [post EXCEPT !.made = 1]
        BY <2>2
      <4> QED BY <4>1, <4>2, Zenon DEF Types
    <3> QED BY <2>1, <3>1, <3>2 DEF Types
  <2>4. Place'
    BY <2>1 DEF Place, Running, PassRow
  <2>5. Posted'
    BY <2>1, <2>2 DEF Posted, Types
  <2>6. \A i \in DOMAIN rows' : rows'[i].stage # "SEND"
    BY <2>1, NoSendRow DEF Running
  <2>7. post'.taken = post.taken /\ post'.refused = post.refused /\ post'.made \in {post.made, 1}
    BY <2>2 DEF Types
  <2>8. post'.taken => post'.made > 0 /\ ~post'.refused
    <3>1. post.taken => post.made > 0 /\ ~post.refused
      BY Zenon DEF Judged
    <3>2. post.made > 0 => post'.made > 0
      <4>1. 1 > 0
        OBVIOUS
      <4> QED BY <2>7, <4>1, Zenon
    <3> QED BY <2>7, <3>1, <3>2, Zenon
  <2>9. Judged'
    BY <2>1, <2>6, <2>8 DEF Judged, RowsOf
  <2> QED BY <2>3, <2>4, <2>5, <2>9
<1>4. CASE Take
  <2> USE <1>4 DEF Take
  <2>1. Types'
    BY DEF Types
  <2>2. Place'
    BY DEF Place, Running, PassRow
  <2>3. Posted'
    BY DEF Posted, Types
  <2>4. Judged'
    BY DEF Judged, RowsOf, Types
  <2> QED BY <2>1, <2>2, <2>3, <2>4
<1>5. CASE DeadlinePasses
  <2> USE <1>5 DEF DeadlinePasses
  <2>1. Types'
    BY DEF Types
  <2>2. Place'
    BY DEF Place, Running, PassRow
  <2>3. Posted' /\ Judged'
    BY DEF Posted, Judged, RowsOf, Types
  <2> QED BY <2>1, <2>2, <2>3
<1>6. CASE Expire \/ Breaks \/ OverLimit
  BY <1>6, FailStep DEF Expire, Breaks, OverLimit, Running
<1>7. CASE Raises
  <2> DEFINE row == [scenario |-> "TEST",
                     stage |-> IF args.command = "authenticated" THEN "SESSION" ELSE "PAGE",
                     outcome |-> "MISMATCH", observation |-> "INTERNAL"]
  <2>1. /\ rows' = rows \/ rows' = <<row>>
        /\ pc' = "done" /\ report'.overall = "INTERNAL_ERROR" /\ Running
        /\ UNCHANGED <<args, at, req, got, post>>
    BY <1>7 DEF Raises, Internal, Finished, Running
  <2>2. row.stage # "SEND"
    OBVIOUS
  <2> HIDE DEF row
  <2>3. \A i \in DOMAIN rows' : rows'[i].stage # "SEND"
    <3>1. DOMAIN <<row>> = {1} /\ <<row>>[1] = row
      OBVIOUS
    <3> QED BY <2>1, <2>2, <3>1, NoSendRow
  <2>4. rows' \in Seq(Range(rows'))
    <3>1. <<row>> \in Seq({row})
      OBVIOUS
    <3> QED BY <2>1, <3>1, OwnRange DEF Types
  <2>5. Types'
    BY <2>1, <2>4 DEF Types
  <2>6. Place'
    BY <2>1 DEF Place, Running
  <2>7. Posted' /\ Judged'
    BY <2>1, <2>3 DEF Posted, Judged, RowsOf
  <2> QED BY <2>5, <2>6, <2>7
<1>8. CASE Redirected
  <2>1. PICK location \in {"none", "same", "other"} :
          IF location = "same" /\ req.redirects < RedirectLimit
          THEN /\ req' = [req EXCEPT !.redirects = @ + 1, !.sent = FALSE]
               /\ UNCHANGED <<args, pc, at, got, events, rows, outcomes, report, post>>
          ELSE Fail("REDIRECT")
    BY <1>8 DEF Redirected
  <2>2. CASE ~(location = "same" /\ req.redirects < RedirectLimit)
    BY <1>8, <2>1, <2>2, FailStep DEF Redirected, Running
  <2>3. CASE location = "same" /\ req.redirects < RedirectLimit
    <3>1. at.stage # "SEND"
      <4>1. req.redirects \in Nat
        BY DEF Types
      <4> QED BY <2>3, <4>1 DEF RedirectLimit
    <3>2. /\ req' = [req EXCEPT !.redirects = @ + 1, !.sent = FALSE]
          /\ UNCHANGED <<args, pc, at, got, rows, report, post>>
      BY <2>1, <2>3
    <3>3. Types'
      <4>1. req.redirects + 1 \in Nat
        <5>1. req.redirects \in Nat
          BY DEF Types
        <5> HIDE DEF IInv
        <5> QED BY <5>1
      <4>2. req' \in [redirects : Nat, sent : BOOLEAN, late : BOOLEAN]
        <5>1. \A r \in [redirects : Nat, sent : BOOLEAN, late : BOOLEAN], n \in Nat :
                [r EXCEPT !.redirects = n, !.sent = FALSE]
                  \in [redirects : Nat, sent : BOOLEAN, late : BOOLEAN]
          OBVIOUS
        <5>2. req' = [req EXCEPT !.redirects = req.redirects + 1, !.sent = FALSE]
          BY <3>2
        <5> QED BY <4>1, <5>1, <5>2, Zenon DEF Types
      <4>3. rows' \in Seq(Range(rows')) /\ IsReply(got') /\ at' \in Requests
        BY <3>2 DEF Types
      <4>4. /\ args' \in [command : {"public", "diagnose", "authenticated"}, send : BOOLEAN,
                           typed : {"nothing", "SEND ONCE", "else"}]
            /\ post' \in [made : Nat, taken : BOOLEAN, refused : BOOLEAN]
        BY <3>2, Zenon DEF Types
      <4> QED BY <4>2, <4>3, <4>4, Zenon DEF Types
    <3>4. Place'
      BY <3>2 DEF Place, Running, PassRow
    <3>5. Posted' /\ Judged'
      BY <3>1, <3>2 DEF Posted, Judged, RowsOf
    <3> QED BY <3>3, <3>4, <3>5
  <2> QED BY <2>2, <2>3
<1>9. CASE Opens
  <2>1. PICK g \in Replies :
          /\ IF at.stage = "SEND"
             THEN /\ g.status = 200 => post.taken
                  /\ Refusal(g.status) => ~post.taken
                  /\ post' = [post EXCEPT !.refused = Refusal(g.status)]
             ELSE post' = post
          /\ IF Reads(at, g)
             THEN /\ pc' = IF at.stage \in {"SSE", "RECONNECT"} THEN "stream" ELSE "reply"
                  /\ got' = g
                  /\ UNCHANGED <<at, req, events, rows, outcomes, report>>
             ELSE Conclude(g)
    BY <1>9 DEF Opens
  <2>2. pc = "request" /\ req.sent /\ args' = args /\ Running
    BY <1>9 DEF Opens, Running
  <2>3. IsReply(g) /\ Refusal(g.status) \in BOOLEAN
    <3>1. g.status \in Nat
      <4>1. \A s \in Statuses : s \in Nat
        BY DEF Statuses, Redirects
      <4>2. 200 \in Statuses /\ 201 \in Statuses /\ 429 \in Statuses
        BY DEF Statuses
      <4>3. g.status \in Statuses
        <5>1. CASE g \in [status : {200, 201}, media : Medias, retry : {FALSE}, body : {"unread"}]
          BY <5>1, <4>2
        <5>2. CASE g \in [status : Statuses \ (Redirects \cup {200, 201}), media : {"OTHER"},
                          retry : {FALSE}, body : {"unread"}]
          BY <5>2
        <5>3. CASE g \in [status : {429}, media : {"OTHER"}, retry : {TRUE}, body : {"unread"}]
          BY <5>3, <4>2
        <5> QED BY <5>1, <5>2, <5>3 DEF Replies
      <4> QED BY <4>1, <4>3
    <3>2. g = [f \in {"status", "media", "retry", "body"} |-> g[f]]
      BY DEF Replies
    <3> QED BY <3>1, <3>2 DEF IsReply, Refusal
  <2>4. /\ post' \in [made : Nat, taken : BOOLEAN, refused : BOOLEAN]
        /\ post'.made = post.made /\ post'.taken = post.taken
        /\ at.stage = "SEND" => post'.refused = Refusal(g.status)
        /\ at.stage # "SEND" => post' = post
    BY <2>1, <2>3 DEF Types
  <2>5. post'.taken => post'.made > 0 /\ ~post'.refused
    BY <2>1, <2>4 DEF Judged
  <2>6. CASE Reads(at, g)
    <3>1. Types'
      BY <2>1, <2>2, <2>3, <2>4, <2>6 DEF Types
    <3>2. Place'
      BY <2>1, <2>2, <2>6 DEF Place, Running, PassRow
    <3>3. Posted'
      BY <2>1, <2>2, <2>4, <2>6 DEF Posted
    <3>4. at.stage = "SEND" => g.status = 200 /\ post'.taken
      BY <2>1, <2>4, <2>6 DEF Reads
    <3>5. \A i \in DOMAIN rows' : rows'[i].stage # "SEND"
      BY <2>1, <2>2, <2>6, NoSendRow
    <3>6. Judged'
      BY <2>1, <2>5, <2>6, <3>4, <3>5 DEF Judged, RowsOf
    <3> QED BY <3>1, <3>2, <3>3, <3>6
  <2>7. CASE ~Reads(at, g)
    <3>1. Heard(g)
      BY <2>1, <2>2, <2>3, <2>4, <2>5 DEF Heard
    <3> QED BY <2>1, <2>7, <3>1, ConcludeStep
  <2> QED BY <2>6, <2>7
<1>10. CASE ReadBody
  BY <1>10, BodyStep DEF ReadBody, Running
<1>11. CASE ReadLine
  <2>1. CASE \E data : Reading(data)
    <3>1. UNCHANGED <<args, pc, at, req, got, rows, report, post>>
      BY <1>11, <2>1 DEF ReadLine, Reading
    <3>2. Types'
      BY <3>1 DEF Types
    <3>4. Place'
      BY <3>1 DEF Place, Running, PassRow
    <3>3. Posted' /\ Judged'
      BY <3>1 DEF Posted, Judged, RowsOf
    <3> QED BY <3>2, <3>3, <3>4
  <2>2. CASE \E body : StreamIs(body)
    BY <1>11, <2>2, BodyStep DEF ReadLine, StreamIs, Running
  <2> QED BY <1>11, <2>1, <2>2
       DEF ReadLine, DataLine, CommentLine, BlankLine, EndOfStream, LongLine, TooManyLines
<1>12. CASE UNCHANGED vars
  <2> USE <1>12 DEF vars
  <2>1. Types'
    BY DEF Types
  <2>2. Place'
    BY DEF Place, Running, PassRow
  <2>3. Posted' /\ Judged'
    BY DEF Posted, Judged, RowsOf
  <2> QED BY <2>1, <2>2, <2>3
<1> QED BY <1>1, <1>2, <1>3, <1>4, <1>5, <1>6, <1>7, <1>8, <1>9, <1>10, <1>11, <1>12
     DEF Next

-----------------------------------------------------------------------------
(* The theorems. *)

LEMMA Inductive == Spec => []IInv
BY InitIInv, StepIInv, PTL DEF Spec

\* However often the validator is redirected, refused or broken off, it posts
\* at most one message, and that only with --send, SEND ONCE typed and the
\* session accepted (validate_authenticated, open).
THEOREM PostsOnce == Spec => []OnePost
<1>1. IInv => OnePost
  <2> SUFFICES ASSUME IInv PROVE OnePost
    OBVIOUS
  <2>1. post.made = 0 \/ (post.made = 1 /\ at.stage = "SEND")
    BY DEF IInv, Posted
  <2>2. at.stage = "SEND" =>
          /\ args.send /\ args.typed = "SEND ONCE"
          /\ report.overall # "INTERNAL_ERROR" => PassRow("TEST", "SESSION")
    BY DEF IInv, Place
  <2>3. post.made <= 1 /\ (post.made > 0 => at.stage = "SEND")
    BY <2>1
  <2> QED BY <2>2, <2>3, Zenon DEF OnePost
<1> QED BY <1>1, Inductive, PTL

\* However Rumble answers, or does not, the report never calls a message that
\* was taken rejected or not sent, nor accepts one that was not (SendVerdict).
THEOREM NeverDenied == Spec => []SendRowTrue
<1>1. IInv => SendRowTrue
  <2> SUFFICES ASSUME IInv, NEW i \in RowsOf("SEND")
               PROVE  /\ rows[i].observation \in {"SEND_REJECTED", "RETRY_AFTER", "SEND_DISABLED"}
                           => ~post.taken
                      /\ rows[i].outcome = "PASS" => post.taken
    BY DEF SendRowTrue
  <2>1. /\ post.taken => post.made > 0 /\ ~post.refused
        /\ rows[i].observation \in {"SEND_REJECTED", "RETRY_AFTER"} => post.refused
        /\ rows[i].observation = "SEND_DISABLED" => post.made = 0
        /\ rows[i].outcome = "PASS" => post.taken
    BY Zenon DEF IInv, Judged
  <2>2. ~(0 > 0)
    OBVIOUS
  <2> QED BY <2>1, <2>2, Zenon
<1> QED BY <1>1, Inductive, PTL

-----------------------------------------------------------------------------
(* The verdicts.  The code keeps the rows and the overall results apart    *)
(* and decides from each whether to go on.  The invariant says that they   *)
(* agree (Tally) and, while every result is PASS, what the rows show by    *)
(* the stage that has been reached (Route).                                *)

\* A row's outcome and the overall result that goes with it.
Agrees(outcome, overall) ==
  \/ outcome \in {"PASS", "OFFLINE", "NOT_RUN"} /\ overall = "PASS"
  \/ outcome = "INPUT_REMOTE" /\ overall = "INCONCLUSIVE_INPUT_OR_REMOTE"
  \/ outcome = "ENVIRONMENT" /\ overall = "INCONCLUSIVE_ENVIRONMENT"
  \/ outcome = "MISMATCH" /\ overall = "CONTRACT_MISMATCH"
Results == {"PASS", "INCONCLUSIVE_INPUT_OR_REMOTE", "INCONCLUSIVE_ENVIRONMENT",
            "CONTRACT_MISMATCH"}

\* Every row has its result and every result its row, until main drops them.
Tally ==
  \/ report.overall = "INTERNAL_ERROR"
  \/ /\ outcomes \subseteq Results
     /\ \A i \in DOMAIN rows : \E o \in outcomes : Agrees(rows[i].outcome, o)
     /\ \A o \in outcomes : \E i \in DOMAIN rows : Agrees(rows[i].outcome, o)

LiveShown == \A s \in {"PAGE", "EMBED", "SSE", "RECONNECT"} : PassRow("LIVE", s)

\* What has passed when a stage is reached.
Route ==
  /\ at.scenario = "OFFLINE" => LiveShown
  /\ at.scenario # "OFFLINE" =>
       /\ at.stage # "PAGE" => PassRow(at.scenario, "PAGE")
       /\ at.stage \notin {"PAGE", "EMBED"} => PassRow(at.scenario, "EMBED")
       /\ at.stage = "RECONNECT" => PassRow(at.scenario, "SSE")
       /\ at.stage = "SEND" => PassRow(at.scenario, "SESSION")

\* What exit code 0 stands on, but for what Rumble did with the message.
Shown ==
  /\ args.command = "public" =>
       /\ LiveShown
       /\ Last(rows).scenario = "OFFLINE" /\ Last(rows).outcome = "OFFLINE"
  /\ args.command = "authenticated" =>
       /\ \A s \in {"PAGE", "EMBED", "SESSION"} : PassRow("TEST", s)
       /\ IF args.send THEN PassRow("TEST", "SEND") ELSE \E i \in DOMAIN rows : rows[i] = NotRun

VInv ==
  /\ pc = "done" \/ report = NoReport
  /\ args.command = "public" => at.scenario \in {"LIVE", "OFFLINE"}
  /\ args.command = "authenticated" => at.scenario = "TEST"
  /\ at.stage \in {"SSE", "RECONNECT"} => at.scenario # "TEST"
  /\ pc = "start" => at.scenario # "OFFLINE"
  /\ args.command # "diagnose" =>
       /\ Tally
       /\ Running /\ outcomes \subseteq {"PASS"} => Route
       /\ pc = "done" /\ report.overall \notin {"none", "INTERNAL_ERROR"} =>
            rows # <<>> /\ report.overall = Combined(outcomes)
       /\ pc = "done" /\ report.exit = 0 => Shown

-----------------------------------------------------------------------------
(* What replies come to. *)

LEMMA FailureAgrees ==
  ASSUME NEW kind \in FailureKinds
  PROVE  LET v == Failure(kind)
         IN  Agrees(v.outcome, v.overall) /\ v.overall \in Results \ {"PASS"} /\ ~v.on
             /\ v.outcome \notin {"PASS", "OFFLINE"}
  BY DEF Failure, FailureKinds, Mismatch, Verdict, Agrees, Results

\* A verdict goes on only when it passes, and passes without going on only for
\* the offline channel.
Fitting(v, scenario) ==
  /\ v.overall \in Results /\ Agrees(v.outcome, v.overall)
  /\ v.on => v.outcome = "PASS"
  /\ v.overall = "PASS" /\ ~v.on => v.outcome = "OFFLINE" /\ scenario = "OFFLINE"

LEMMA SimpleFit ==
  ASSUME NEW o, NEW scenario
  PROVE  /\ Fitting(Mismatch(o), scenario) /\ Fitting(Inconclusive(o), scenario)
         /\ Fitting(Passes(o), scenario) /\ Fitting(Offline(scenario, o), scenario)
         /\ ~Mismatch(o).on /\ ~Inconclusive(o).on /\ ~Offline(scenario, o).on
         /\ Mismatch(o).outcome # "PASS" /\ Inconclusive(o).outcome # "PASS"
         /\ Offline(scenario, o).outcome # "PASS"
  BY DEF Fitting, Mismatch, Inconclusive, Passes, Offline, Verdict, Agrees, Results

LEMMA FailureFits ==
  ASSUME NEW kind \in FailureKinds, NEW scenario
  PROVE  Fitting(Failure(kind), scenario)
  BY FailureAgrees DEF Fitting, Results, Agrees

LEMMA RemoteFits ==
  ASSUME NEW g, NEW scenario
  PROVE  Fitting(Remote(g), scenario) /\ ~Remote(g).on /\ Remote(g).outcome # "PASS"
  BY SimpleFit DEF Remote

LEMMA VerdictFits ==
  ASSUME NEW a, a.stage \in Stages, NEW g
  PROVE  /\ Fitting(VerdictOn(a, g), a.scenario)
         /\ a.stage \in {"SSE", "RECONNECT"} /\ a.scenario = "OFFLINE" => ~VerdictOn(a, g).on
<1> DEFINE s == a.scenario
<1>1. Fitting(PageVerdict(g, s), s)
  BY SimpleFit, FailureFits, RemoteFits, Zenon DEF PageVerdict, Resolved
<1>2. Fitting(EmbedVerdict(g, s), s)
  <2>1. "SHAPE" \in FailureKinds
    BY DEF FailureKinds
  <2> QED BY <2>1, SimpleFit, FailureFits, RemoteFits, Zenon DEF EmbedVerdict, Resolved
<1>3. Fitting(SseVerdict(g, s), s)
  BY SimpleFit, FailureFits, RemoteFits, Zenon DEF SseVerdict
<1>4. s = "OFFLINE" => ~SseVerdict(g, s).on
  BY SimpleFit, FailureAgrees, RemoteFits DEF SseVerdict
<1>5. Fitting(SessionVerdict(g), s)
  BY SimpleFit, FailureFits, RemoteFits, Zenon DEF SessionVerdict
<1>6. Fitting(SendVerdict(g), s)
  <2>1. \/ \E o : SendVerdict(g) = Inconclusive(o)
        \/ \E o : SendVerdict(g) = Passes(o)
        \/ \E o : SendVerdict(g) = Mismatch(o)
    BY DEF SendVerdict
  <2> QED BY <2>1, SimpleFit, Zenon
<1>7. /\ a.stage = "PAGE" => VerdictOn(a, g) = PageVerdict(g, s)
      /\ a.stage = "EMBED" => VerdictOn(a, g) = EmbedVerdict(g, s)
      /\ a.stage \in {"SSE", "RECONNECT"} => VerdictOn(a, g) = SseVerdict(g, s)
      /\ a.stage = "SESSION" => VerdictOn(a, g) = SessionVerdict(g)
      /\ a.stage = "SEND" => VerdictOn(a, g) = SendVerdict(g)
  BY DEF VerdictOn
<1>8. a.stage \in {"PAGE", "EMBED", "SSE", "RECONNECT", "SESSION", "SEND"}
  BY DEF Stages
<1> HIDE DEF s
<1> QED BY <1>1, <1>2, <1>3, <1>4, <1>5, <1>6, <1>7, <1>8 DEF s

\* No reply that was cut short passes.
LEMMA FailureNeverPasses ==
  ASSUME NEW a, a.stage \in Stages, NEW g, g.body \in FailureKinds
  PROVE  VerdictOn(a, g).outcome # "PASS"
<1> DEFINE s == a.scenario
<1>1. /\ \A o : /\ Mismatch(o).outcome # "PASS" /\ Inconclusive(o).outcome # "PASS"
               /\ Offline(s, o).outcome # "PASS"
      /\ Remote(g).outcome # "PASS"
  BY SimpleFit, RemoteFits
<1>2. Failure(g.body).outcome # "PASS"
  BY FailureAgrees
<1>3. PageVerdict(g, s).outcome # "PASS"
  BY <1>1, <1>2, Zenon DEF PageVerdict, Resolved
<1>4. EmbedVerdict(g, s).outcome # "PASS"
  BY <1>1, <1>2, Zenon DEF EmbedVerdict, Resolved
<1>5. SseVerdict(g, s).outcome # "PASS"
  BY <1>1, <1>2 DEF SseVerdict
<1>6. SessionVerdict(g).outcome # "PASS"
  BY <1>1, <1>2, Zenon DEF SessionVerdict
<1>7. SendVerdict(g).outcome # "PASS"
  <2>1. g.body # "valid"
    BY DEF FailureKinds
  <2> QED BY <1>1, <2>1 DEF SendVerdict
<1>8. a.stage \in {"PAGE", "EMBED", "SSE", "RECONNECT", "SESSION", "SEND"}
  BY DEF Stages
<1> QED BY <1>3, <1>4, <1>5, <1>6, <1>7, <1>8 DEF VerdictOn

-----------------------------------------------------------------------------
(* The overall result. *)

LEMMA MinIs ==
  ASSUME NEW S \in SUBSET Nat, NEW m \in S, \A x \in S : m <= x
  PROVE  Min(S) = m
<1>1. Min(S) \in S /\ \A x \in S : Min(S) <= x
  BY DEF Min
<1>2. m \in Nat /\ Min(S) \in Nat
  BY <1>1
<1>3. m <= Min(S) /\ Min(S) <= m
  BY <1>1
<1> QED BY <1>2, <1>3

\* The worst of the results, spelt out.
LEMMA CombinedIs ==
  ASSUME NEW outs \in SUBSET Results
  PROVE  Combined(outs) =
           IF "CONTRACT_MISMATCH" \in outs THEN "CONTRACT_MISMATCH"
           ELSE IF "INCONCLUSIVE_ENVIRONMENT" \in outs THEN "INCONCLUSIVE_ENVIRONMENT"
           ELSE IF "INCONCLUSIVE_INPUT_OR_REMOTE" \in outs THEN "INCONCLUSIVE_INPUT_OR_REMOTE"
           ELSE "PASS"
<1> DEFINE I == {i \in DOMAIN Worst : Worst[i] \in outs \cup {"PASS"}}
<1>1. /\ DOMAIN Worst = 1 .. 5
      /\ Worst[1] = "INTERNAL_ERROR" /\ Worst[2] = "CONTRACT_MISMATCH"
      /\ Worst[3] = "INCONCLUSIVE_ENVIRONMENT"
      /\ Worst[4] = "INCONCLUSIVE_INPUT_OR_REMOTE" /\ Worst[5] = "PASS"
  BY DEF Worst
<1>2. /\ I \in SUBSET Nat /\ 1 \notin I /\ 5 \in I /\ \A i \in I : i \in 1 .. 5
      /\ 2 \in I <=> "CONTRACT_MISMATCH" \in outs
      /\ 3 \in I <=> "INCONCLUSIVE_ENVIRONMENT" \in outs
      /\ 4 \in I <=> "INCONCLUSIVE_INPUT_OR_REMOTE" \in outs
  BY <1>1 DEF Results
<1>3. Combined(outs) = Worst[Min(I)]
  BY DEF Combined
<1> HIDE DEF I
<1>4. CASE 2 \in I
  <2>1. Min(I) = 2
    BY <1>2, <1>4, MinIs
  <2> QED BY <1>1, <1>2, <1>3, <1>4, <2>1
<1>5. CASE 2 \notin I /\ 3 \in I
  <2>1. Min(I) = 3
    BY <1>2, <1>5, MinIs
  <2> QED BY <1>1, <1>2, <1>3, <1>5, <2>1
<1>6. CASE 2 \notin I /\ 3 \notin I /\ 4 \in I
  <2>1. Min(I) = 4
    BY <1>2, <1>6, MinIs
  <2> QED BY <1>1, <1>2, <1>3, <1>6, <2>1
<1>7. CASE 2 \notin I /\ 3 \notin I /\ 4 \notin I
  <2>1. Min(I) = 5
    BY <1>2, <1>7, MinIs
  <2> QED BY <1>1, <1>2, <1>3, <1>7, <2>1
<1> QED BY <1>4, <1>5, <1>6, <1>7

\* The rows say the same by their severity.
LEMMA WorstRow ==
  ASSUME Tally, report.overall # "INTERNAL_ERROR", rows # <<>>, Types
  PROVE  Combined(outcomes) = Worst[Min({Severity[rows[i].outcome] : i \in DOMAIN rows})]
<1> DEFINE S == {Severity[rows[i].outcome] : i \in DOMAIN rows}
           Has(n) == \E i \in DOMAIN rows : Severity[rows[i].outcome] = n
<1>1. /\ outcomes \subseteq Results
      /\ \A i \in DOMAIN rows : \E o \in outcomes : Agrees(rows[i].outcome, o)
      /\ \A o \in outcomes : \E i \in DOMAIN rows : Agrees(rows[i].outcome, o)
  BY DEF Tally
<1>2. \A x, o : Agrees(x, o) =>
        /\ Severity[x] \in 2 .. 5
        /\ Severity[x] = 2 <=> o = "CONTRACT_MISMATCH"
        /\ Severity[x] = 3 <=> o = "INCONCLUSIVE_ENVIRONMENT"
        /\ Severity[x] = 4 <=> o = "INCONCLUSIVE_INPUT_OR_REMOTE"
  BY DEF Severity, Agrees
<1>3. /\ S \subseteq 2 .. 5 /\ \A n : n \in S <=> Has(n)
      /\ Has(2) <=> "CONTRACT_MISMATCH" \in outcomes
      /\ Has(3) <=> "INCONCLUSIVE_ENVIRONMENT" \in outcomes
      /\ Has(4) <=> "INCONCLUSIVE_INPUT_OR_REMOTE" \in outcomes
  <2>1. \A n : n \in S <=> Has(n)
    OBVIOUS
  <2>2. S \subseteq 2 .. 5
    BY <1>1, <1>2
  <2>3. /\ Has(2) <=> "CONTRACT_MISMATCH" \in outcomes
        /\ Has(3) <=> "INCONCLUSIVE_ENVIRONMENT" \in outcomes
        /\ Has(4) <=> "INCONCLUSIVE_INPUT_OR_REMOTE" \in outcomes
    BY <1>1, <1>2
  <2> QED BY <2>1, <2>2, <2>3
<1>4. S # {}
  <2>1. \A T : rows \in Seq(T) => 1 \in DOMAIN rows
    OBVIOUS
  <2>2. 1 \in DOMAIN rows
    BY <2>1, Zenon DEF Types
  <2> QED BY <2>2
<1>5. Worst[2] = "CONTRACT_MISMATCH" /\ Worst[3] = "INCONCLUSIVE_ENVIRONMENT"
      /\ Worst[4] = "INCONCLUSIVE_INPUT_OR_REMOTE" /\ Worst[5] = "PASS"
  BY DEF Worst
<1> HIDE DEF S, Has
<1>g. SUFFICES Combined(outcomes) = Worst[Min(S)]
  BY DEF S
<1>6. CASE 2 \in S
  <2>1. Min(S) = 2
    BY <1>3, <1>6, MinIs
  <2> QED BY <1>1, <1>3, <1>5, <1>6, <2>1, CombinedIs
<1>7. CASE 2 \notin S /\ 3 \in S
  <2>1. Min(S) = 3
    BY <1>3, <1>7, MinIs
  <2> QED BY <1>1, <1>3, <1>5, <1>7, <2>1, CombinedIs
<1>8. CASE 2 \notin S /\ 3 \notin S /\ 4 \in S
  <2>1. Min(S) = 4
    BY <1>3, <1>8, MinIs
  <2> QED BY <1>1, <1>3, <1>5, <1>8, <2>1, CombinedIs
<1>9. CASE 2 \notin S /\ 3 \notin S /\ 4 \notin S
  <2>1. \A x \in S : x = 5
    <3> SUFFICES ASSUME NEW x \in S PROVE x = 5
      OBVIOUS
    <3>1. x \in 2 .. 5 /\ x # 2 /\ x # 3 /\ x # 4
      BY <1>3, <1>9
    <3> QED BY <3>1
  <2>2. Min(S) = 5
    BY <1>4, <2>1, MinIs
  <2> QED BY <1>1, <1>3, <1>5, <1>9, <2>2, CombinedIs
<1> QED BY <1>6, <1>7, <1>8, <1>9

-----------------------------------------------------------------------------
(* Steps. *)

\* A step that leaves the records alone, and one that judges a reply g.
Quiet ==
  /\ UNCHANGED <<args, at, rows, outcomes, report>>
  /\ (pc' = pc /\ got' = got) \/ (Running /\ Running')
Judges(g) ==
  /\ Running /\ Conclude(g) /\ args' = args
  /\ req.late => g.body \in FailureKinds
  /\ at.stage = "EMBED" => g.body # "INTERSTITIAL"
  /\ g.status \in Nat

\* There are no other steps but the first, the rejection and an exception.
LEMMA NextKinds ==
  ASSUME Next, IInv
  PROVE  Reject \/ Begin \/ Raises \/ Quiet \/ \E g : Judges(g)
<1>1. ASSUME NEW kind \in FailureKinds, Fail(kind), Running PROVE \E g : Judges(g)
  <2>1. [got EXCEPT !.body = kind].body = kind /\ [got EXCEPT !.body = kind].status \in Nat
    BY DEF IInv, Types, IsReply
  <2>2. "INTERSTITIAL" \notin FailureKinds
    BY DEF FailureKinds
  <2> QED BY <1>1, <2>1, <2>2 DEF Fail, Judges
<1>2. {"TIMEOUT", "NETWORK", "HEADER_LIMIT", "TOO_LARGE", "REDIRECT"} \subseteq FailureKinds
  BY DEF FailureKinds
<1>3. CASE Expire \/ Breaks \/ OverLimit
  BY <1>1, <1>2, <1>3 DEF Expire, Breaks, OverLimit, Running
<1>4. CASE Redirected
  <2>1. Fail("REDIRECT") \/ UNCHANGED <<args, pc, at, got, events, rows, outcomes, report, post>>
    BY <1>4 DEF Redirected
  <2> QED BY <1>1, <1>2, <1>4, <2>1 DEF Redirected, Running, Quiet
<1>5. CASE Transmit \/ Take \/ DeadlinePasses
  BY <1>5 DEF Transmit, Take, DeadlinePasses, Quiet
<1>6. CASE Opens
  <2>1. PICK g \in Replies :
          IF Reads(at, g)
          THEN /\ pc' = IF at.stage \in {"SSE", "RECONNECT"} THEN "stream" ELSE "reply"
               /\ got' = g
               /\ UNCHANGED <<at, req, events, rows, outcomes, report>>
          ELSE Conclude(g)
    BY <1>6 DEF Opens
  <2>2. pc = "request" /\ ~req.late /\ args' = args
    BY <1>6 DEF Opens
  <2>3. CASE Reads(at, g)
    BY <2>1, <2>2, <2>3 DEF Quiet, Running
  <2>4. CASE ~Reads(at, g)
    <3>1. g.body = "unread" /\ g.status \in Statuses \cup {200, 201, 429}
      BY Zenon DEF Replies
    <3>2. \A s \in Statuses \cup {200, 201, 429} : s \in Nat
      BY DEF Statuses, Redirects
    <3> QED BY <2>1, <2>2, <2>4, <3>1, <3>2 DEF Judges, Running
  <2> QED BY <2>3, <2>4
<1>7. CASE ReadBody
  <2>1. PICK body \in Bodies : Conclude([got EXCEPT !.body = body])
    BY <1>7 DEF ReadBody
  <2>2. [got EXCEPT !.body = body].body = body /\ [got EXCEPT !.body = body].status \in Nat
    BY DEF IInv, Types, IsReply
  <2>3. at.stage = "EMBED" => body # "INTERSTITIAL"
    BY DEF Bodies, EmbedStates
  <2> QED BY <1>7, <2>1, <2>2, <2>3 DEF ReadBody, Judges, Running
<1>8. CASE ReadLine
  <2>1. pc = "stream" /\ ~req.late /\ UNCHANGED <<args, post>>
    BY <1>8 DEF ReadLine
  <2>2. (\E data : Reading(data)) \/ (\E body : StreamIs(body))
    BY <1>8 DEF ReadLine, DataLine, CommentLine, BlankLine, EndOfStream, LongLine, TooManyLines
  <2>3. CASE \E data : Reading(data)
    BY <2>1, <2>3 DEF Reading, Quiet
  <2>4. CASE \E body : StreamIs(body)
    <3>1. PICK body : Conclude([got EXCEPT !.body = body])
      BY <2>4 DEF StreamIs
    <3>2. [got EXCEPT !.body = body].status \in Nat
      BY DEF IInv, Types, IsReply
    <3>3. at.stage # "EMBED"
      BY <2>1 DEF IInv, Place
    <3> QED BY <2>1, <3>1, <3>2, <3>3 DEF Judges, Running
  <2> QED BY <2>2, <2>3, <2>4
<1> QED BY <1>3, <1>4, <1>5, <1>6, <1>7, <1>8 DEF Next

\* What the rows end with.
LEMMA RowEnds ==
  ASSUME Types, NEW r, NEW t, rows' = rows \o t
  PROVE  /\ t = <<r>> => Last(rows') = r /\ rows' # <<>> /\ Len(rows') = Len(rows) + 1
         /\ t = <<r, NotRun>> =>
              /\ Last(rows') = NotRun /\ rows' # <<>>
              /\ \E i \in DOMAIN rows' : rows'[i] = NotRun
<1> DEFINE q == NotRun
           T == Range(rows) \cup {r, q}
<1>1. rows \in Seq(Range(rows))
  BY DEF Types
<1> HIDE DEF q
<1>2. rows \in Seq(T)
  BY <1>1
<1>3. <<r>> \in Seq(T) /\ <<r, q>> \in Seq(T)
  OBVIOUS
<1> HIDE DEF T
<1>4. CASE t = <<r>>
  <2>1. Len(rows') = Len(rows) + 1 /\ rows'[Len(rows) + 1] = r /\ Len(rows) \in Nat
    BY <1>2, <1>3, <1>4
  <2> QED BY <1>4, <2>1 DEF Last
<1>5. CASE t = <<r, q>>
  <2>1. /\ Len(rows') = Len(rows) + 2 /\ rows'[Len(rows) + 2] = q /\ Len(rows) \in Nat
        /\ DOMAIN rows' = 1 .. Len(rows')
    BY <1>2, <1>3, <1>5
  <2>2. Len(rows) + 2 \in DOMAIN rows'
    BY <2>1
  <2>3. Last(rows') = q /\ rows' # <<>>
    BY <2>1 DEF Last
  <2>4. t # <<r>>
    BY <1>5
  <2> QED BY <2>1, <2>2, <2>3, <2>4 DEF q
<1>6. t = <<r, NotRun>> => t = <<r, q>>
  BY DEF q
<1> QED BY <1>4, <1>5, <1>6


\* The row of a reply and the stage that follows agree with the verdict.
LEMMA ValidationV ==
  ASSUME IInv, VInv, Running, NEW g, ValidationConcludes(g), args' = args,
         args.command # "diagnose"
  PROVE  VInv'
<1> DEFINE v == VerdictOn(at, g)
           row == Row(v.outcome, v.observation)
           next == IF v.on THEN Successor(at) ELSE "none"
           unsent == at.stage = "SESSION" /\ v.on /\ ~args.send
           t == IF unsent THEN <<row, NotRun>> ELSE <<row>>
<1>1. rows' = rows \o t /\ outcomes' = outcomes \cup {v.overall}
  BY DEF ValidationConcludes
<1>2. \/ /\ next # "none" /\ Request([at EXCEPT !.stage = next]) /\ report' = report
      \/ /\ next = "none" /\ at.scenario = "LIVE" /\ report' = report
         /\ Request([scenario |-> "OFFLINE", stage |-> "PAGE", profile |-> "c"])
      \/ /\ next = "none" /\ at.scenario # "LIVE" /\ pc' = "done" /\ at' = at
         /\ report'.overall = Combined(outcomes')
         /\ report'.exit = exit_code[Combined(outcomes')]
  BY DEF ValidationConcludes, Reported, Finished
<1>3. /\ row.scenario = at.scenario /\ row.stage = at.stage /\ row.outcome = v.outcome
  BY DEF Row
<1>4. at \in Requests /\ at.stage \in Stages /\ at.scenario \in Scenarios
  BY DEF IInv, Types, Requests
<1>5. /\ Fitting(v, at.scenario)
      /\ at.stage \in {"SSE", "RECONNECT"} /\ at.scenario = "OFFLINE" => ~v.on
  BY <1>4, VerdictFits
<1> HIDE DEF v, row
<1>6. /\ t \in {<<row>>, <<row, NotRun>>}
      /\ t = <<row, NotRun>> <=> unsent
      /\ t = <<row>> <=> ~unsent
  <2>1. <<row>> # <<row, NotRun>>
    OBVIOUS
  <2> QED BY <2>1
<1> HIDE DEF t
<1>7. /\ \A i \in DOMAIN rows : i \in DOMAIN rows' /\ rows'[i] = rows[i]
      /\ \A i \in DOMAIN rows' :
           \/ i \in DOMAIN rows /\ rows'[i] = rows[i]
           \/ rows'[i] = row
           \/ rows'[i] = NotRun /\ t = <<row, NotRun>>
      /\ \E i \in DOMAIN rows' : rows'[i] = row
  BY <1>1, <1>6, RowsGrow, Zenon DEF IInv
<1>8. /\ ~unsent => Last(rows') = row
      /\ unsent => \E i \in DOMAIN rows' : rows'[i] = NotRun
      /\ rows' # <<>>
  <2>1. Types
    BY DEF IInv
  <2> QED BY <1>1, <1>6, <2>1, RowEnds
<1>9. report = NoReport /\ Tally /\ (outcomes \subseteq {"PASS"} => Route)
  BY DEF VInv, Running
<1>10. /\ outcomes \subseteq Results
       /\ \A i \in DOMAIN rows : \E o \in outcomes : Agrees(rows[i].outcome, o)
       /\ \A o \in outcomes : \E i \in DOMAIN rows : Agrees(rows[i].outcome, o)
  BY <1>9 DEF Tally, NoReport
<1>11. /\ v.overall \in Results /\ Agrees(v.outcome, v.overall)
       /\ v.on => v.outcome = "PASS" /\ v.overall = "PASS"
       /\ v.overall = "PASS" /\ ~v.on => v.outcome = "OFFLINE" /\ at.scenario = "OFFLINE"
  BY <1>5 DEF Fitting, Agrees
<1>12. outcomes' \subseteq Results
  BY <1>1, <1>10, <1>11
<1>13. Tally'
  <2>1. \A i \in DOMAIN rows' : \E o \in outcomes' : Agrees(rows'[i].outcome, o)
    <3> SUFFICES ASSUME NEW i \in DOMAIN rows'
                 PROVE  \E o \in outcomes' : Agrees(rows'[i].outcome, o)
      OBVIOUS
    <3>1. CASE i \in DOMAIN rows /\ rows'[i] = rows[i]
      BY <1>1, <1>10, <3>1
    <3>2. CASE rows'[i] = row
      BY <1>1, <1>3, <1>11, <3>2
    <3>3. CASE rows'[i] = NotRun /\ t = <<row, NotRun>>
      <4>1. Agrees(NotRun.outcome, "PASS")
        BY DEF NotRun, Agrees
      <4>2. "PASS" \in outcomes'
        BY <1>1, <1>6, <1>11, <3>3
      <4> QED BY <3>3, <4>1, <4>2
    <3> QED BY <1>7, <3>1, <3>2, <3>3
  <2>2. \A o \in outcomes' : \E i \in DOMAIN rows' : Agrees(rows'[i].outcome, o)
    <3> SUFFICES ASSUME NEW o \in outcomes'
                 PROVE  \E i \in DOMAIN rows' : Agrees(rows'[i].outcome, o)
      OBVIOUS
    <3>1. CASE o \in outcomes
      BY <1>7, <1>10, <3>1
    <3>2. CASE o = v.overall
      BY <1>3, <1>7, <1>11, <3>2
    <3> QED BY <1>1, <3>1, <3>2
  <2> QED BY <1>12, <2>1, <2>2 DEF Tally
\* What has passed has, and the stage in hand has when its verdict does.
<1>14. \A s, e : PassRow(s, e) => PassRow(s, e)'
  BY <1>7 DEF PassRow
<1>a. PICK scenario, stage : scenario = at.scenario /\ stage = at.stage
  OBVIOUS
<1>15. v.on => PassRow(scenario, stage)'
  BY <1>3, <1>7, <1>11, <1>a DEF PassRow
<1>16. LiveShown => LiveShown'
  BY <1>14 DEF LiveShown
<1>17. at.stage \in {"SESSION", "SEND"} => at.scenario = "TEST"
  BY DEF IInv, Place
<1>18. /\ args.command = "public" => at.scenario \in {"LIVE", "OFFLINE"}
       /\ args.command = "authenticated" => at.scenario = "TEST"
       /\ at.stage \in {"SSE", "RECONNECT"} => at.scenario # "TEST"
  BY DEF VInv
<1>19. outcomes' \subseteq {"PASS"} => Route /\ v.overall = "PASS"
  BY <1>1, <1>9
<1>20. CASE next # "none" /\ Request([at EXCEPT !.stage = next]) /\ report' = report
  <2>1. v.on /\ next = Successor(at)
    BY <1>20
  <2>2. /\ at'.scenario = at.scenario /\ at'.stage = next /\ pc' = "request"
    BY <1>20 DEF Request, IInv, Types, Requests
  <2>3. \/ at.stage = "PAGE" /\ next = "EMBED"
        \/ at.stage = "EMBED" /\ at.scenario = "TEST" /\ next = "SESSION"
        \/ at.stage = "EMBED" /\ at.scenario # "TEST" /\ next = "SSE"
        \/ at.stage = "SSE" /\ at.scenario = "LIVE" /\ next = "RECONNECT"
        \/ at.stage = "SESSION" /\ next = "SEND"
    BY <1>20, <2>1 DEF Successor
  <2>4. next \in {"SSE", "RECONNECT"} => at.scenario # "TEST"
    BY <2>3
  <2>5. outcomes' \subseteq {"PASS"} => Route'
    <3> SUFFICES ASSUME Route PROVE Route'
      BY <1>19
    <3>1. PassRow(scenario, stage)'
      BY <1>15, <2>1
    <3>2. /\ at.scenario = "OFFLINE" => LiveShown'
      BY <1>16 DEF Route
    <3>3. at.scenario # "OFFLINE" =>
            /\ next # "PAGE" => PassRow(scenario, "PAGE")'
            /\ next \notin {"PAGE", "EMBED"} => PassRow(scenario, "EMBED")'
            /\ next = "RECONNECT" => PassRow(scenario, "SSE")'
            /\ next = "SEND" => PassRow(scenario, "SESSION")'
      <4> SUFFICES ASSUME at.scenario # "OFFLINE"
                   PROVE  /\ PassRow(scenario, "PAGE")'
                          /\ next \notin {"PAGE", "EMBED"} => PassRow(scenario, "EMBED")'
                          /\ next = "RECONNECT" => PassRow(scenario, "SSE")'
                          /\ next = "SEND" => PassRow(scenario, "SESSION")'
        OBVIOUS
      <4>1. /\ at.stage # "PAGE" => PassRow(scenario, "PAGE")'
            /\ at.stage \notin {"PAGE", "EMBED"} => PassRow(scenario, "EMBED")'
        BY <1>14, <1>a DEF Route
      <4> QED BY <1>a, <2>3, <3>1, <4>1
    <3> QED BY <1>a, <2>2, <3>2, <3>3, Zenon DEF Route
  <2> QED BY <1>9, <1>13, <1>18, <1>20, <2>2, <2>4, <2>5 DEF VInv, Running
<1>21. CASE /\ next = "none" /\ at.scenario = "LIVE" /\ report' = report
            /\ Request([scenario |-> "OFFLINE", stage |-> "PAGE", profile |-> "c"])
  <2>1. at'.scenario = "OFFLINE" /\ at'.stage = "PAGE" /\ pc' = "request"
    BY <1>21 DEF Request
  <2>2. outcomes' \subseteq {"PASS"} => LiveShown'
    <3> SUFFICES ASSUME Route, v.overall = "PASS" PROVE LiveShown'
      BY <1>19
    <3>1. v.on /\ Successor(at) = "none"
      BY <1>11, <1>21
    <3>2. at.stage = "RECONNECT"
      BY <1>4, <1>17, <1>21, <3>1 DEF Successor, Stages
    <3>3. PassRow("LIVE", "PAGE")' /\ PassRow("LIVE", "EMBED")' /\ PassRow("LIVE", "SSE")'
      BY <1>14, <1>21, <3>2 DEF Route
    <3>4. PassRow("LIVE", "RECONNECT")'
      BY <1>15, <1>21, <1>a, <3>1, <3>2
    <3> QED BY <3>3, <3>4 DEF LiveShown
  <2>3. outcomes' \subseteq {"PASS"} => Route'
    BY <2>1, <2>2 DEF Route
  <2>4. args.command # "authenticated"
    BY <1>18, <1>21
  <2> QED BY <1>9, <1>13, <1>21, <2>1, <2>3, <2>4 DEF VInv, Running
<1>22. CASE /\ next = "none" /\ at.scenario # "LIVE" /\ pc' = "done" /\ at' = at
            /\ report'.overall = Combined(outcomes')
            /\ report'.exit = exit_code[Combined(outcomes')]
  <2>1. report'.exit = 0 => Shown'
    <3> SUFFICES ASSUME report'.exit = 0 PROVE Shown'
      OBVIOUS
    <3>1. outcomes' \subseteq {"PASS"}
      <4>1. Combined(outcomes') = "PASS"
        BY <1>12, <1>22, CombinedIs DEF exit_code
      <4> QED BY <1>12, <4>1, CombinedIs DEF Results
    <3>2. Route /\ v.overall = "PASS"
      BY <1>19, <3>1
    <3>3. ASSUME args.command = "public"
          PROVE  LiveShown' /\ Last(rows').scenario = "OFFLINE" /\ Last(rows').outcome = "OFFLINE"
      <4>1. at.scenario = "OFFLINE"
        BY <1>18, <1>22, <3>3
      <4>2. LiveShown'
        BY <1>16, <3>2, <4>1 DEF Route
      <4>3. ~v.on
        <5> SUFFICES ASSUME v.on PROVE FALSE
          OBVIOUS
        <5>1. Successor(at) = "none" /\ at.stage \notin {"SSE", "RECONNECT", "SESSION", "SEND"}
          BY <1>5, <1>17, <1>22, <4>1
        <5> QED BY <1>4, <4>1, <5>1 DEF Successor, Stages
      <4>4. v.outcome = "OFFLINE" /\ Last(rows') = row
        BY <1>8, <1>11, <3>2, <4>3
      <4> QED BY <1>3, <4>1, <4>2, <4>4
    <3>4. ASSUME args.command = "authenticated"
          PROVE  /\ \A s \in {"PAGE", "EMBED", "SESSION"} : PassRow("TEST", s)'
                 /\ IF args.send THEN PassRow("TEST", "SEND")'
                    ELSE \E i \in DOMAIN rows' : rows'[i] = NotRun
      <4>1. at.scenario = "TEST" /\ v.on /\ Successor(at) = "none"
        BY <1>11, <1>18, <1>22, <3>2, <3>4
      <4>2. (at.stage = "SESSION" /\ ~args.send) \/ at.stage = "SEND"
        BY <1>4, <1>18, <4>1 DEF Successor, Stages
      <4>3. /\ PassRow("TEST", "PAGE")' /\ PassRow("TEST", "EMBED")'
            /\ PassRow("TEST", stage)'
            /\ at.stage = "SEND" => PassRow("TEST", "SESSION")'
        BY <1>14, <1>15, <1>a, <3>2, <4>1, <4>2 DEF Route
      <4>4. at.stage = "SEND" => args.send
        BY DEF IInv, Place
      <4> QED BY <1>8, <1>6, <1>a, <4>1, <4>2, <4>3, <4>4
    <3> QED BY <3>3, <3>4 DEF Shown
  <2> QED BY <1>8, <1>13, <1>18, <1>22, <2>1 DEF VInv, Running
<1> QED BY <1>2, <1>20, <1>21, <1>22


LEMMA ConcludeV ==
  ASSUME IInv, VInv, NEW g, Judges(g) PROVE VInv'
<1>1. Running /\ Conclude(g) /\ args' = args
  BY DEF Judges
<1>2. report = NoReport
  BY <1>1 DEF VInv, Running
<1>3. CASE Legacy(g)
  <2>1. /\ UNCHANGED <<rows, outcomes, report>> /\ pc' = "request"
        /\ at' = [at EXCEPT !.profile = "user"]
    BY <1>1, <1>3 DEF Conclude, Request
  <2>2. at'.scenario = at.scenario /\ at'.stage = at.stage
    BY <2>1 DEF IInv, Types, Requests
  <2>3. Tally => Tally'
    BY <2>1 DEF Tally
  <2>4. Route => Route'
    BY <2>1, <2>2 DEF Route, LiveShown, PassRow
  <2> QED BY <1>1, <1>2, <2>1, <2>2, <2>3, <2>4 DEF VInv, Running
<1>4. CASE ~Legacy(g) /\ args.command = "diagnose"
  <2>1. DiagnoseConcludes(g)
    BY <1>1, <1>4 DEF Conclude
  <2>2. CASE at.stage = "PAGE" /\ Readable(g, "HTML") /\ g.body = "LIVE"
    <3>1. pc' = "request" /\ report' = report /\ at' = [at EXCEPT !.stage = "EMBED"]
      BY <2>1, <2>2 DEF DiagnoseConcludes, Request
    <3>2. at'.scenario = at.scenario /\ at'.stage = "EMBED"
      BY <3>1 DEF IInv, Types, Requests
    <3> QED BY <1>1, <1>2, <1>4, <3>1, <3>2 DEF VInv
  <2>3. CASE ~(at.stage = "PAGE" /\ Readable(g, "HTML") /\ g.body = "LIVE")
    <3>1. pc' = "done" /\ at' = at
      BY <2>1, <2>3 DEF DiagnoseConcludes, Finished
    <3> QED BY <1>1, <1>4, <3>1 DEF VInv
  <2> QED BY <2>2, <2>3
<1>5. CASE ~Legacy(g) /\ args.command # "diagnose"
  BY <1>1, <1>5, ValidationV DEF Conclude
<1> QED BY <1>3, <1>4, <1>5

LEMMA InitV == Init => VInv
<1> SUFFICES ASSUME Init PROVE VInv
  OBVIOUS
<1>1. /\ pc = "start" /\ report = NoReport /\ rows = <<>> /\ outcomes = {}
      /\ at.stage = "PAGE"
      /\ at.scenario = IF args.command = "authenticated" THEN "TEST" ELSE "LIVE"
  BY DEF Init
<1>2. Tally
  BY <1>1 DEF Tally
<1> QED BY <1>1, <1>2 DEF VInv, Running

LEMMA StepV == IInv /\ VInv /\ [Next]_vars => VInv'
<1> SUFFICES ASSUME IInv, VInv, [Next]_vars PROVE VInv'
  OBVIOUS
<1>1. CASE Reject
  <2>1. /\ pc = "start" /\ pc' = "done" /\ UNCHANGED <<args, at, rows, outcomes>>
        /\ report' = [NoReport EXCEPT !.exit = 2]
    BY <1>1 DEF Reject
  <2>2. report'.overall = "none" /\ report'.exit # 0 /\ report = NoReport
    BY <2>1 DEF NoReport, VInv
  <2>3. args.command # "diagnose" => Tally'
    BY <2>1, <2>2 DEF VInv, Tally, NoReport
  <2> QED BY <2>1, <2>2, <2>3 DEF VInv, Running
<1>2. CASE Begin
  <2>1. /\ pc = "start" /\ pc' = "request" /\ UNCHANGED <<at, rows, outcomes, report>>
        /\ args'.command = args.command
    BY <1>2 DEF Begin, Request, IInv, Types
  <2>2. at.stage = "PAGE" /\ at.scenario # "OFFLINE" /\ report = NoReport
    BY <2>1 DEF IInv, Place, VInv
  <2>3. Tally => Tally'
    BY <2>1 DEF Tally
  <2>4. Route'
    BY <2>1, <2>2 DEF Route
  <2> QED BY <2>1, <2>2, <2>3, <2>4 DEF VInv
<1>3. CASE Raises
  <2>1. /\ Running /\ pc' = "done" /\ UNCHANGED <<args, at>>
        /\ report'.overall = "INTERNAL_ERROR" /\ report'.exit = exit_code["INTERNAL_ERROR"]
    BY <1>3 DEF Raises, Internal, Finished, Running
  <2>2. exit_code["INTERNAL_ERROR"] # 0
    BY DEF exit_code
  <2>3. Tally'
    BY <2>1 DEF Tally
  <2> QED BY <2>1, <2>2, <2>3 DEF VInv, Running
<1>4. CASE Quiet
  <2>1. /\ UNCHANGED <<args, at, rows, outcomes, report>>
        /\ pc' = pc \/ (Running /\ Running')
    BY <1>4 DEF Quiet
  <2>2. Tally => Tally'
    BY <2>1 DEF Tally
  <2>3. Route => Route'
    BY <2>1 DEF Route, LiveShown, PassRow
  <2>4. Shown => Shown'
    BY <2>1 DEF Shown, LiveShown, PassRow
  <2> QED BY <2>1, <2>2, <2>3, <2>4 DEF VInv, Running
<1>5. CASE \E g : Judges(g)
  BY <1>5, ConcludeV
<1>6. CASE UNCHANGED vars
  <2>1. UNCHANGED <<args, pc, at, rows, outcomes, report>>
    BY <1>6 DEF vars
  <2>2. Tally => Tally'
    BY <2>1 DEF Tally
  <2>3. Route => Route'
    BY <2>1 DEF Route, LiveShown, PassRow
  <2>4. Shown => Shown'
    BY <2>1 DEF Shown, LiveShown, PassRow
  <2> QED BY <2>1, <2>2, <2>3, <2>4 DEF VInv, Running
<1> QED BY <1>1, <1>2, <1>3, <1>4, <1>5, <1>6, NextKinds

-----------------------------------------------------------------------------
(* The two resolvers. *)

\* They come to the same of a reply that neither accepts, and accept the same.
Alike(a, g, overall) ==
  LET live == VerdictOn(a, g)
      offline == VerdictOn([a EXCEPT !.scenario = "OFFLINE"], g)
  IN  IF overall = "PASS" THEN live.on \/ offline.outcome = "OFFLINE"
      ELSE live.overall = overall /\ offline.overall = overall

LEMMA DiagnosedFits ==
  ASSUME NEW a \in Requests, a.stage \in {"PAGE", "EMBED"}, NEW g, g.status \in Nat,
         a.stage = "EMBED" => g.body # "INTERSTITIAL"
  PROVE  Alike(a, g, Diagnosed(a, g).overall)
<1> DEFINE media == IF a.stage = "PAGE" THEN "HTML" ELSE "JSON"
           contract(s) ==
             IF a.stage = "PAGE"
             THEN CASE g.body = "LIVE" -> Passes("EMBED_PRESENT")
                    [] g.body = "OFFLINE" -> Offline(s, "FIRST_VIDEO_OFFLINE")
                    [] g.body = "INTERSTITIAL" -> Inconclusive("ACCESS_INTERSTITIAL")
                    [] OTHER -> Mismatch("SHAPE_MISMATCH")
             ELSE CASE g.body = "LIVE" -> Passes("STREAM_PRESENT")
                    [] g.body = "OFFLINE" -> Offline(s, "NO_STREAM")
                    [] OTHER -> Failure("SHAPE")
           b == [a EXCEPT !.scenario = "OFFLINE"]
           d == Diagnosed(a, g)
<1>1. b.stage = a.stage /\ b.scenario = "OFFLINE"
  BY DEF Requests
<1>2. /\ VerdictOn(a, g) = Resolved(g, media, contract(a.scenario))
      /\ VerdictOn(b, g) = Resolved(g, media, contract("OFFLINE"))
  BY <1>1 DEF VerdictOn, PageVerdict, EmbedVerdict
<1>3. CASE Unread(g, media)
  <2>1. d.overall = "CONTRACT_MISMATCH"
    BY <1>3 DEF Diagnosed, Readable, Unread, DiagnosedReply, Diagnosis, Success
  <2>2. \A c : Resolved(g, media, c) = Mismatch("SHAPE_MISMATCH")
    BY <1>3 DEF Resolved, Unread
  <2> QED BY <1>2, <2>1, <2>2 DEF Alike, Mismatch, Verdict
<1>4. CASE ~Unread(g, media) /\ g.body \in FailureKinds
  <2>1. d = DiagnosticFailure(a.stage, g.body)
    BY <1>4 DEF Diagnosed, Readable, DiagnosedReply
  <2>2. \A c : Resolved(g, media, c) = Failure(g.body)
    BY <1>4 DEF Resolved
  <2>3. Failure(g.body).overall = d.overall /\ d.overall # "PASS"
    BY <1>4, <2>1 DEF Failure, DiagnosticFailure, Diagnosis, Mismatch, Verdict, FailureKinds
  <2> QED BY <1>2, <2>2, <2>3 DEF Alike
<1>5. CASE ~Unread(g, media) /\ g.body \notin FailureKinds /\ g.status = 200
  <2>1. Readable(g, media)
    BY <1>5 DEF Readable, Unread, Success
  <2>2. d = DiagnosedContract(g, a.stage)
    BY <2>1 DEF Diagnosed
  <2>3. ASSUME NEW c PROVE Resolved(g, media, c) = c
    <3>1. /\ ~(~Unread(g, media) /\ g.body \in FailureKinds)
          /\ (~Unread(g, media) /\ g.body \notin FailureKinds) /\ g.status = 200
          /\ Success(g.status)
      BY <1>5 DEF Success
    <3> HIDE DEF media
    <3> QED BY <3>1, Zenon DEF Resolved
  <2>4. \A o, s : /\ Passes(o).on /\ Offline("OFFLINE", o).outcome = "OFFLINE"
                  /\ Inconclusive(o).overall = "INCONCLUSIVE_INPUT_OR_REMOTE"
                  /\ Mismatch(o).overall = "CONTRACT_MISMATCH"
                  /\ Failure("SHAPE").overall = "CONTRACT_MISMATCH"
    BY DEF Passes, Offline, Inconclusive, Mismatch, Failure, Verdict
  <2>5. CASE g.body = "LIVE"
    BY <1>2, <2>2, <2>3, <2>4, <2>5 DEF Alike, DiagnosedContract, Diagnosis
  <2>6. CASE g.body = "OFFLINE"
    BY <1>2, <2>2, <2>3, <2>4, <2>6 DEF Alike, DiagnosedContract, Diagnosis
  <2>7. CASE g.body \notin {"LIVE", "OFFLINE"}
    BY <1>2, <2>2, <2>3, <2>4, <2>7 DEF Alike, DiagnosedContract, Diagnosis
  <2> QED BY <2>5, <2>6, <2>7
<1>6. CASE ~Unread(g, media) /\ g.body \notin FailureKinds /\ g.status # 200
  <2>1. d.overall = IF Success(g.status) THEN "CONTRACT_MISMATCH"
                    ELSE "INCONCLUSIVE_INPUT_OR_REMOTE"
    BY <1>6 DEF Diagnosed, Readable, DiagnosedReply, Diagnosis
  <2>2. \A c : Resolved(g, media, c) =
                 IF Success(g.status) THEN Mismatch("SHAPE_MISMATCH") ELSE Remote(g)
    BY <1>6 DEF Resolved
  <2>3. /\ Remote(g).overall = "INCONCLUSIVE_INPUT_OR_REMOTE"
        /\ Mismatch("SHAPE_MISMATCH").overall = "CONTRACT_MISMATCH"
    BY DEF Remote, Inconclusive, Mismatch, Verdict
  <2> QED BY <1>2, <2>1, <2>2, <2>3 DEF Alike
<1> QED BY <1>3, <1>4, <1>5, <1>6

\* `diagnose' has two stages, and ends on the reply it reports.
DInv ==
  /\ args.command = "diagnose" => at.stage \in {"PAGE", "EMBED"}
  /\ ResolversAgree

LEMMA StepD == IInv /\ VInv /\ DInv /\ [Next]_vars => DInv'
<1> SUFFICES ASSUME IInv, VInv, DInv, [Next]_vars PROVE DInv'
  OBVIOUS
<1>1. CASE Reject
  BY <1>1 DEF Reject, NoReport, DInv, ResolversAgree
<1>2. CASE Begin
  <2>1. pc' = "request" /\ at' = at /\ args'.command = args.command
    BY <1>2 DEF Begin, Request, IInv, Types
  <2> QED BY <2>1 DEF DInv, ResolversAgree
<1>3. CASE Raises
  <2>1. UNCHANGED <<args, at>> /\ report'.overall = "INTERNAL_ERROR"
    BY <1>3 DEF Raises, Internal, Finished
  <2> QED BY <2>1 DEF DInv, ResolversAgree
<1>4. CASE Quiet \/ UNCHANGED vars
  <2>1. /\ UNCHANGED <<args, at, report>>
        /\ (pc' = pc /\ got' = got) \/ pc' # "done"
    BY <1>4 DEF Quiet, vars, Running
  <2> QED BY <2>1 DEF DInv, ResolversAgree
<1>5. ASSUME NEW g, Judges(g) PROVE DInv'
  <2>1. Running /\ Conclude(g) /\ args' = args
    BY <1>5 DEF Judges
  <2>2. CASE args.command # "diagnose"
    BY <2>1, <2>2 DEF DInv, ResolversAgree
  <2>3. CASE args.command = "diagnose" /\ Legacy(g)
    <3>1. pc' = "request" /\ at' = [at EXCEPT !.profile = "user"]
      BY <2>1, <2>3 DEF Conclude, Request
    <3>2. at'.stage = at.stage
      BY <3>1 DEF IInv, Types, Requests
    <3> QED BY <2>3, <3>1, <3>2 DEF DInv, ResolversAgree
  <2>4. CASE args.command = "diagnose" /\ ~Legacy(g)
    <3>1. DiagnoseConcludes(g)
      BY <2>1, <2>4 DEF Conclude
    <3>2. CASE at.stage = "PAGE" /\ Readable(g, "HTML") /\ g.body = "LIVE"
      <4>1. pc' = "request" /\ at' = [at EXCEPT !.stage = "EMBED"]
        BY <3>1, <3>2 DEF DiagnoseConcludes, Request
      <4>2. at'.stage = "EMBED"
        BY <4>1 DEF IInv, Types, Requests
      <4> QED BY <4>1, <4>2 DEF DInv, ResolversAgree
    <3>3. CASE ~(at.stage = "PAGE" /\ Readable(g, "HTML") /\ g.body = "LIVE")
      <4>1. at' = at /\ got' = g /\ report'.overall = Diagnosed(at, g).overall
        BY <3>1, <3>3 DEF DiagnoseConcludes, Finished
      <4>2. /\ at \in Requests /\ at.stage \in {"PAGE", "EMBED"} /\ g.status \in Nat
            /\ at.stage = "EMBED" => g.body # "INTERSTITIAL"
        BY <1>5, <2>4 DEF IInv, Types, DInv, Judges
      <4>3. Alike(at, g, Diagnosed(at, g).overall)
        BY <4>2, DiagnosedFits
      <4> QED BY <2>1, <4>1, <4>2, <4>3 DEF DInv, ResolversAgree, Alike
    <3> QED BY <3>2, <3>3
  <2> QED BY <2>2, <2>3, <2>4
<1> QED BY <1>1, <1>2, <1>3, <1>4, <1>5, NextKinds

LEMMA InductiveV == Spec => [](IInv /\ VInv /\ DInv)
<1>1. Init => DInv
  BY DEF Init, DInv, ResolversAgree
<1> QED BY InitIInv, StepIInv, InitV, StepV, StepD, <1>1, PTL DEF Spec

-----------------------------------------------------------------------------
(* The theorems. *)

\* However the stages of a run end, the overall result of its report is that of
\* its worst row, though the code adds to the two at some thirty returns each
\* (Combined, _combine_overall).
THEOREM WorstRowCounts == Spec => []OverallIsWorst
<1>1. IInv /\ VInv => OverallIsWorst
  <2> SUFFICES ASSUME IInv, VInv, pc = "done", args.command # "diagnose",
                      report.overall \notin {"none", "INTERNAL_ERROR"}
               PROVE  report.overall = Worst[Min({Severity[rows[i].outcome] : i \in DOMAIN rows})]
    BY DEF OverallIsWorst
  <2>1. Tally /\ rows # <<>> /\ report.overall = Combined(outcomes) /\ Types
    BY DEF VInv, IInv
  <2> QED BY <2>1, WorstRow
<1> QED BY <1>1, InductiveV, PTL

\* Exit code 0 stands on a row that passed for every stage, and for --send on a
\* message that Rumble took; without --send none was posted (exit_code).
THEOREM ZeroIsProof == Spec => []PassIsProven
<1>1. IInv /\ VInv => PassIsProven
  <2> SUFFICES ASSUME IInv, VInv, pc = "done", report.exit = 0 PROVE PassIsProven
    BY DEF PassIsProven
  <2>1. args.command # "diagnose" => Shown
    BY DEF VInv
  <2>2. ASSUME args.command = "authenticated", args.send PROVE post.taken
    <3>1. PassRow("TEST", "SEND")
      BY <2>1, <2>2 DEF Shown
    <3> QED BY <3>1 DEF IInv, Judged, PassRow, RowsOf
  <2>3. ASSUME args.command = "authenticated", ~args.send
        PROVE  RowsOf("SEND") # {} /\ post.made = 0
    <3>1. PICK i \in DOMAIN rows : rows[i] = NotRun
      BY <2>1, <2>3 DEF Shown
    <3>2. NotRun.stage = "SEND" /\ NotRun.observation = "SEND_DISABLED"
      BY DEF NotRun
    <3> QED BY <3>1, <3>2 DEF IInv, Judged, RowsOf
  <2> QED BY <2>1, <2>2, <2>3 DEF PassIsProven, Shown, LiveShown
<1> QED BY <1>1, InductiveV, PTL

\* `diagnose' and the validator, each with its own copy of the rules, come to the
\* same of every reply (diagnose_channel, resolve_stream).
THEOREM OneJudgement == Spec => []ResolversAgree
<1>1. DInv => ResolversAgree
  BY DEF DInv
<1> QED BY <1>1, InductiveV, PTL

\* Whatever arrives after the deadline of its request, no row passes on it
\* (_hard_wall_deadline).
THEOREM LateIsNoProof == Spec => LateProvesNothing
<1> DEFINE A == Len(rows') > Len(rows) /\ Last(rows').outcome = "PASS" => ~req.late
<1>1. IInv /\ [Next]_vars => [A]_vars
  <2> SUFFICES ASSUME IInv, Next, rows' # rows, Last(rows').outcome = "PASS", req.late
               PROVE  FALSE
    <3>1. rows' = rows => ~(Len(rows') > Len(rows))
      BY DEF IInv, Types
    <3> QED BY <3>1 DEF vars
  <2>1. ~Reject /\ ~Begin /\ ~Quiet
    BY DEF Reject, Begin, Quiet
  <2>2. ~Raises
    <3> SUFFICES ASSUME Raises PROVE FALSE
      OBVIOUS
    <3>1. PICK r : rows' = <<r>> /\ r.outcome = "MISMATCH"
      BY DEF Raises, Internal
    <3>2. Last(rows') = r
      BY <3>1 DEF Last
    <3> QED BY <3>1, <3>2
  <2>3. PICK g : Judges(g)
    BY <2>1, <2>2, NextKinds
  <2>4. ValidationConcludes(g) /\ g.body \in FailureKinds
    BY <2>3 DEF Judges, Conclude, DiagnoseConcludes
  <2> DEFINE v == VerdictOn(at, g)
             r == Row(v.outcome, v.observation)
             unsent == at.stage = "SESSION" /\ v.on /\ ~args.send
             t == IF unsent THEN <<r, NotRun>> ELSE <<r>>
  <2>5. rows' = rows \o t
    BY <2>4 DEF ValidationConcludes
  <2>6. r.outcome # "PASS"
    <3>1. at.stage \in Stages
      BY DEF IInv, Types, Requests
    <3> QED BY <2>4, <3>1, FailureNeverPasses DEF Row
  <2>7. NotRun.outcome # "PASS"
    BY DEF NotRun
  <2>8. t = <<r>> \/ t = <<r, NotRun>>
    OBVIOUS
  <2>9. Types
    BY DEF IInv
  <2> HIDE DEF r, t
  <2> QED BY <2>5, <2>6, <2>7, <2>8, <2>9, RowEnds
<1>2. Spec => [][A]_vars
  BY <1>1, Inductive, PTL DEF Spec
<1> QED BY <1>2 DEF LateProvesNothing
=============================================================================
