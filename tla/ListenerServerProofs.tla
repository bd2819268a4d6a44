------------------------- MODULE ListenerServerProofs -------------------------
(***************************************************************************)
(* Proofs about ListenerServer, for any number of connections and of lines   *)
(* of stdin, in every Python: who is served is listed, and who left is        *)
(* forgotten.                                                               *)
(***************************************************************************)
EXTENDS ListenerServer, TLAPS

\* A connection, its handler, its ticker and its entry in CLIENTS agree.
Served(c) ==
  task[c] \in {"greeting", "frame", "pong"} /\ Attached(c) => c \in CLIENTS
Leaving(c) ==
  /\ task[c] \in {"transport", "dropped"} => c \notin CLIENTS /\ tick[c] \in {"none", "ended"}
  /\ task[c] = "dropped" => main \in {"gathering", "done"}
Gone(c) ==
  task[c] = "ended" =>
    /\ c \in CLIENTS => tick[c] = "failed" /\ conn[c] = "lost"
    /\ Attached(c) => main = "gathering" \/ main = "done"
    /\ tick[c] \in {"none", "ended", "failed"}
ConnOK(c) ==
  /\ conn[c] = "none" => task[c] = "none"
  /\ tick[c] = "failed" => conn[c] = "lost"
  /\ Served(c) /\ Leaving(c) /\ Gone(c)

\* A broadcast drops only clients whose connection is lost.
Copies == [text : Nat, left : SUBSET Conns, at : Conns \cup {"start"}, dead : SUBSET Conns]
DropsLost ==
  /\ broadcasts \subseteq Copies /\ texts \in Nat
  /\ \A b \in broadcasts : \A c \in b.dead : conn[c] = "lost"

IInv == TypeOK /\ DropsLost /\ \A c \in Conns : ConnOK(c)
-----------------------------------------------------------------------------
(* Types. *)

Places == {"none", "open", "closing", "lost"}
Ticks == {"none", "sending", "sleeping", "cancelled", "ended", "failed"}
Typed ==
  /\ main \in {"starting", "restarting", "serving", "waiting", "flushing", "gathering", "done"}
  /\ task \in [Conns -> Handlers] /\ conn \in [Conns -> Places]
  /\ tick \in [Conns -> Ticks]
  /\ closing \subseteq Conns /\ CLIENTS \subseteq Conns /\ early \subseteq Conns

\* TypeOK, with the tasks amain tracks apart.
LEMMA TypeParts ==
  /\ TypeOK <=> Typed /\ CLIENT_TASKS = {c \in Conns : Runs(c)}
  /\ (TypeOK <=> Typed /\ CLIENT_TASKS = {c \in Conns : Runs(c)})'
  BY Zenon DEF TypeOK, Typed, Places, Ticks

LEMMA ClosedTyped ==
  ASSUME conn \in [Conns -> Places], NEW cs \in SUBSET Conns
  PROVE  /\ Closed(cs) \in [Conns -> Places]
         /\ \A c \in Conns : Closed(cs)[c] \in {conn[c], "closing"}
         /\ \A c \in Conns : conn[c] # "open" \/ c \notin cs => Closed(cs)[c] = conn[c]
  BY DEF Closed, Places

\* A handler's way out: what Leave, Forget and Ends do to the types.
LEMMA WaysOut ==
  ASSUME Typed, NEW c \in Conns
  PROVE  /\ Forget(c) => /\ task' = [task EXCEPT ![c] = "transport"] /\ conn' = Closed({c})
                         /\ CLIENTS' = CLIENTS \ {c} /\ CLIENT_TASKS' = CLIENT_TASKS
         /\ Ends(c) => /\ task' = [task EXCEPT ![c] = "ended"]
                       /\ conn' = conn /\ CLIENTS' = CLIENTS
                       /\ CLIENT_TASKS' = CLIENT_TASKS \ {c}
         /\ Leave(c) =>
              \/ tick[c] = "none" /\ tick' = tick /\ Forget(c)
              \/ /\ tick[c] # "none" /\ task' = [task EXCEPT ![c] = "ticker"]
                 /\ conn' = conn /\ CLIENTS' = CLIENTS /\ CLIENT_TASKS' = CLIENT_TASKS
                 /\ \/ tick' = tick
                    \/ tick[c] # "failed" /\ tick' = [tick EXCEPT ![c] = "cancelled"]
<1>1. Forget(c) => /\ task' = [task EXCEPT ![c] = "transport"] /\ conn' = Closed({c})
                   /\ CLIENTS' = CLIENTS \ {c} /\ CLIENT_TASKS' = CLIENT_TASKS
  BY Zenon DEF Forget
<1>2. Ends(c) => /\ task' = [task EXCEPT ![c] = "ended"]
                 /\ conn' = conn /\ CLIENTS' = CLIENTS
                 /\ CLIENT_TASKS' = CLIENT_TASKS \ {c}
  BY Zenon DEF Ends
<1>3. ASSUME Leave(c)
      PROVE  \/ tick[c] = "none" /\ tick' = tick /\ Forget(c)
             \/ /\ tick[c] # "none" /\ task' = [task EXCEPT ![c] = "ticker"]
                /\ conn' = conn /\ CLIENTS' = CLIENTS /\ CLIENT_TASKS' = CLIENT_TASKS
                /\ \/ tick' = tick
                   \/ tick[c] # "failed" /\ tick' = [tick EXCEPT ![c] = "cancelled"]
  <2>1. CASE tick[c] = "none"
    BY <1>3, <2>1 DEF Leave
  <2>2. CASE tick[c] # "none"
    <3>1. /\ task' = [task EXCEPT ![c] = "ticker"]
          /\ conn' = conn /\ CLIENTS' = CLIENTS /\ CLIENT_TASKS' = CLIENT_TASKS
          /\ tick' = [tick EXCEPT ![c] = IF tick[c] \in {"ended", "failed"} THEN tick[c]
                                                                          ELSE "cancelled"]
      BY <1>3, <2>2 DEF Leave
    <3>2. CASE tick[c] \in {"ended", "failed"}
      <4>1. tick' = [tick EXCEPT ![c] = tick[c]]
        BY <3>1, <3>2
      <4>2. tick' = tick
        BY <4>1 DEF Typed
      <4> QED BY <2>2, <3>1, <4>2
    <3>3. CASE tick[c] \notin {"ended", "failed"}
      BY <2>2, <3>1, <3>3
    <3> QED BY <3>2, <3>3
  <2> QED BY <2>1, <2>2
<1> QED BY <1>1, <1>2, <1>3

-----------------------------------------------------------------------------
(* A step of one connection: its peer, its transport, its handler, its ticker. *)

\* amain tracks the handlers of its second server that run.
Tracked(c) == c \in CLIENT_TASKS <=> Runs(c)

\* The step concerns c alone.
Only(c) ==
  /\ main' = main /\ UNCHANGED <<closing, broadcasts, texts>>
  /\ \A d \in Conns : d # c =>
       /\ conn'[d] = conn[d] /\ task'[d] = task[d] /\ tick'[d] = tick[d]
       /\ (d \in CLIENTS' <=> d \in CLIENTS)
       /\ (d \in CLIENT_TASKS' <=> d \in CLIENT_TASKS)
       /\ (d \in early' <=> d \in early)

\* What is true of c after it.
Fine(c) ==
  /\ Typed' /\ ConnOK(c)' /\ Tracked(c)' /\ Only(c)
  /\ conn[c] = "lost" => conn'[c] = "lost"
  /\ CLIENT_TASKS \subseteq Conns => CLIENT_TASKS' \subseteq Conns

\* A handler that is served, or on its way, may leave at any of its awaits.
LEMMA LeaveFine ==
  ASSUME Typed, NEW c \in Conns, ConnOK(c), Tracked(c), Leave(c), Rest,
         task[c] \in {"headers", "frame", "cancelled"} \cup Drains
  PROVE  Fine(c)
<1>t. /\ task \in [Conns -> Handlers] /\ conn \in [Conns -> Places]
      /\ tick \in [Conns -> Ticks]
  BY DEF Typed
<1>a. c \in CLIENT_TASKS <=> c \notin early
  BY DEF Tracked, Runs, Drains
<1>r. main' = main /\ UNCHANGED <<early, closing, broadcasts, texts>>
  BY DEF Rest
<1>1. CASE tick[c] = "none" /\ tick' = tick /\ Forget(c)
  <2>1. /\ task' = [task EXCEPT ![c] = "transport"] /\ conn' = Closed({c})
        /\ CLIENTS' = CLIENTS \ {c} /\ CLIENT_TASKS' = CLIENT_TASKS
    BY <1>1, WaysOut
  <2>2. conn' \in [Conns -> Places] /\ conn'[c] \in {conn[c], "closing"}
        /\ (\A d \in Conns : d # c => conn'[d] = conn[d])
        /\ (conn[c] # "open" => conn'[c] = conn[c])
    BY <2>1, <1>t, ClosedTyped
  <2>3. Typed'
    BY <2>1, <2>2, <1>1, <1>r DEF Typed, Handlers
  <2>4. ConnOK(c)'
    BY <2>1, <2>2, <1>1, <1>t DEF ConnOK, Served, Leaving, Gone, Drains
  <2>5. Tracked(c)'
    BY <2>1, <1>t, <1>a, <1>r DEF Tracked, Runs
  <2>6. Only(c)
    BY <2>1, <2>2, <1>1, <1>r, <1>t DEF Only
  <2> QED BY <2>1, <2>2, <2>3, <2>4, <2>5, <2>6 DEF Fine
<1>2. CASE /\ tick[c] # "none" /\ task' = [task EXCEPT ![c] = "ticker"]
           /\ conn' = conn /\ CLIENTS' = CLIENTS /\ CLIENT_TASKS' = CLIENT_TASKS
           /\ \/ tick' = tick
              \/ tick[c] # "failed" /\ tick' = [tick EXCEPT ![c] = "cancelled"]
  <2>1. tick' \in [Conns -> Ticks] /\ tick'[c] \in {tick[c], "cancelled"}
        /\ \A d \in Conns : d # c => tick'[d] = tick[d]
    BY <1>2, <1>t DEF Ticks
  <2>2. Typed'
    BY <1>2, <2>1, <1>r DEF Typed, Handlers
  <2>3. ConnOK(c)'
    BY <1>2, <2>1, <1>t DEF ConnOK, Served, Leaving, Gone, Drains
  <2>4. Tracked(c)'
    BY <1>2, <1>t, <1>a, <1>r DEF Tracked, Runs
  <2>5. Only(c)
    BY <1>2, <2>1, <1>r, <1>t DEF Only
  <2> QED BY <1>2, <2>2, <2>3, <2>4, <2>5 DEF Fine
<1> QED BY <1>1, <1>2, WaysOut

\* It goes on to another await, and nothing else happens.
LEMMA GoesFine ==
  ASSUME Typed, NEW c \in Conns, ConnOK(c), Tracked(c), Rest,
         NEW p \in {"accept", "refuse", "frame", "pong"}, GoesTo(c, p), UNCHANGED tick,
         task[c] \in {"headers", "frame", "pong"},
         p \in {"frame", "pong"} => Served(c) /\ task[c] \in {"frame", "pong"}
  PROVE  Fine(c)
<1>t. /\ task \in [Conns -> Handlers] /\ conn \in [Conns -> Places]
      /\ tick \in [Conns -> Ticks]
  BY DEF Typed
<1>r. main' = main /\ UNCHANGED <<early, closing, broadcasts, texts>>
  BY DEF Rest
<1>1. /\ task' = [task EXCEPT ![c] = p]
      /\ UNCHANGED <<conn, tick, CLIENTS, CLIENT_TASKS>>
  BY DEF GoesTo
<1>2. Typed'
  BY <1>1, <1>r DEF Typed, Handlers, Drains
<1>3. ConnOK(c)'
  BY <1>1, <1>t DEF ConnOK, Served, Leaving, Gone, Attached
<1>4. Tracked(c)'
  BY <1>1, <1>r, <1>t DEF Tracked, Runs
<1>5. Only(c)
  BY <1>1, <1>r, <1>t DEF Only
<1> QED BY <1>1, <1>2, <1>3, <1>4, <1>5 DEF Fine

\* It ends: with its transport lost, dropped while amain gathers, or because
\* its ticker failed.
LEMMA EndsFine ==
  ASSUME Typed, NEW c \in Conns, ConnOK(c), Tracked(c), Rest, Ends(c), UNCHANGED tick,
         \/ task[c] = "transport" /\ conn[c] = "lost"
         \/ task[c] = "dropped"
         \/ task[c] = "ticker" /\ tick[c] = "failed"
  PROVE  Fine(c)
<1>t. /\ task \in [Conns -> Handlers] /\ conn \in [Conns -> Places]
      /\ tick \in [Conns -> Ticks]
  BY DEF Typed
<1>r. main' = main /\ UNCHANGED <<early, closing, broadcasts, texts>>
  BY DEF Rest
<1>1. /\ task' = [task EXCEPT ![c] = "ended"] /\ conn' = conn /\ CLIENTS' = CLIENTS
      /\ CLIENT_TASKS' = CLIENT_TASKS \ {c} /\ tick' = tick
  BY WaysOut
<1>2. Typed'
  BY <1>1, <1>r DEF Typed, Handlers
<1>3. ConnOK(c)'
  BY <1>1, <1>r, <1>t DEF ConnOK, Served, Leaving, Gone, Attached
<1>4. Tracked(c)'
  BY <1>1, <1>t DEF Tracked, Runs
<1>5. Only(c)
  BY <1>1, <1>r, <1>t DEF Only
<1> QED BY <1>1, <1>2, <1>3, <1>4, <1>5 DEF Fine
\* A handler's ticker ended before it: its writer is closed and forgotten.
LEMMA ForgetFine ==
  ASSUME Typed, NEW c \in Conns, ConnOK(c), Tracked(c), Rest, Forget(c), UNCHANGED tick,
         task[c] = "ticker", tick[c] = "ended"
  PROVE  Fine(c)
<1>t. /\ task \in [Conns -> Handlers] /\ conn \in [Conns -> Places]
      /\ tick \in [Conns -> Ticks]
  BY DEF Typed
<1>r. main' = main /\ UNCHANGED <<early, closing, broadcasts, texts>>
  BY DEF Rest
<1>1. /\ task' = [task EXCEPT ![c] = "transport"] /\ conn' = Closed({c}) /\ tick' = tick
      /\ CLIENTS' = CLIENTS \ {c} /\ CLIENT_TASKS' = CLIENT_TASKS
  BY WaysOut
<1>2. conn' \in [Conns -> Places] /\ conn'[c] \in {conn[c], "closing"}
      /\ (\A d \in Conns : d # c => conn'[d] = conn[d])
      /\ (conn[c] # "open" => conn'[c] = conn[c])
  BY <1>1, <1>t, ClosedTyped
<1>3. Typed'
  BY <1>1, <1>2, <1>r DEF Typed, Handlers
<1>4. ConnOK(c)'
  BY <1>1, <1>2, <1>t DEF ConnOK, Served, Leaving, Gone
<1>5. Tracked(c)'
  BY <1>1, <1>r, <1>t DEF Tracked, Runs
<1>6. Only(c)
  BY <1>1, <1>2, <1>r, <1>t DEF Only
<1> QED BY <1>1, <1>2, <1>3, <1>4, <1>5, <1>6 DEF Fine

\* tracked_client and client, at every await.
LEMMA HandlerFine ==
  ASSUME Typed, NEW c \in Conns, ConnOK(c), Tracked(c), Handler(c)
  PROVE  Fine(c)
<1>t. /\ task \in [Conns -> Handlers] /\ conn \in [Conns -> Places]
      /\ tick \in [Conns -> Ticks]
  BY DEF Typed
<1>r. Rest
  BY Zenon DEF Handler, StartClient, Headers, Drain, Frame, Cancelled, TickerEnded, TransportClosed
<1>m. main' = main /\ UNCHANGED <<early, closing, broadcasts, texts>>
  BY <1>r DEF Rest
<1>1. CASE StartClient(c)
  <2>1. /\ task[c] = "created" /\ task' = [task EXCEPT ![c] = "headers"]
        /\ CLIENT_TASKS' = CLIENT_TASKS \cup ({c} \ early) /\ UNCHANGED <<conn, tick, CLIENTS>>
    BY <1>1 DEF StartClient
  <2>2. Typed'
    BY <2>1, <1>m DEF Typed, Handlers
  <2>3. ConnOK(c)'
    BY <2>1, <1>t DEF ConnOK, Served, Leaving, Gone
  <2>4. Tracked(c)'
    BY <2>1, <1>m, <1>t DEF Tracked, Runs
  <2>5. Only(c)
    BY <2>1, <1>m, <1>t DEF Only
  <2> QED BY <2>1, <2>2, <2>3, <2>4, <2>5 DEF Fine
<1>2. CASE Headers(c)
  <2>1. task[c] = "headers"
    BY <1>2 DEF Headers
  <2>2. CASE Leave(c)
    BY <2>1, <2>2, <1>r, LeaveFine
  <2>3. CASE GoesTo(c, "accept") \/ GoesTo(c, "refuse")
    <3>1. UNCHANGED tick
      BY <2>3 DEF GoesTo
    <3>2. GoesTo(c, "accept") => Fine(c)
      BY <2>1, <3>1, <1>r, GoesFine
    <3>3. GoesTo(c, "refuse") => Fine(c)
      BY <2>1, <3>1, <1>r, GoesFine
    <3> QED BY <2>3, <3>2, <3>3
  <2> QED BY <1>2, <2>2, <2>3 DEF Headers
<1>3. CASE Drain(c)
  <2>1. task[c] \in Drains
    BY <1>3 DEF Drain
  <2>2. CASE Leave(c)
    BY <2>1, <2>2, <1>r, LeaveFine
  <2>3. CASE task[c] = "accept" /\ CLIENTS' = CLIENTS \cup {c}
             /\ task' = [task EXCEPT ![c] = "greeting"] /\ UNCHANGED <<conn, tick, CLIENT_TASKS>>
    <3>1. Typed'
      BY <2>3, <1>m DEF Typed, Handlers, Drains
    <3>2. ConnOK(c)'
      BY <2>3, <1>t DEF ConnOK, Served, Leaving, Gone
    <3>3. Tracked(c)'
      BY <2>3, <1>m, <1>t DEF Tracked, Runs
    <3>4. Only(c)
      BY <2>3, <1>m, <1>t DEF Only
    <3> QED BY <2>3, <3>1, <3>2, <3>3, <3>4 DEF Fine
  <2>4. CASE task[c] = "greeting" /\ Drained(c) /\ task' = [task EXCEPT ![c] = "frame"]
             /\ tick' = [tick EXCEPT ![c] = "sleeping"] /\ UNCHANGED <<conn, CLIENTS, CLIENT_TASKS>>
    <3>1. Typed'
      BY <2>4, <1>m DEF Typed, Handlers, Ticks
    <3>2. ConnOK(c)'
      BY <2>4, <1>t DEF ConnOK, Served, Leaving, Gone, Attached
    <3>3. Tracked(c)'
      BY <2>4, <1>m, <1>t DEF Tracked, Runs
    <3>4. Only(c)
      BY <2>4, <1>m, <1>t DEF Only
    <3> QED BY <2>4, <3>1, <3>2, <3>3, <3>4 DEF Fine
  <2>5. CASE task[c] = "pong" /\ GoesTo(c, "frame")
    <3>1. UNCHANGED tick /\ Served(c)
      BY <2>5 DEF GoesTo, ConnOK
    <3> QED BY <2>5, <3>1, <1>r, GoesFine
  <2> QED BY <1>3, <2>2, <2>3, <2>4, <2>5 DEF Drain
<1>4. CASE Frame(c)
  <2>1. task[c] = "frame"
    BY <1>4 DEF Frame
  <2>2. CASE Leave(c)
    BY <2>1, <2>2, <1>r, LeaveFine
  <2>3. CASE GoesTo(c, "pong")
    <3>1. UNCHANGED tick /\ Served(c)
      BY <2>3 DEF GoesTo, ConnOK
    <3> QED BY <2>1, <2>3, <3>1, <1>r, GoesFine
  <2> QED BY <1>4, <2>2, <2>3 DEF Frame
<1>5. CASE Cancelled(c)
  <2>1. CASE task[c] = "cancelled" /\ Leave(c)
    BY <2>1, <1>r, LeaveFine
  <2>2. CASE task[c] = "dropped" /\ Ends(c) /\ UNCHANGED tick
    BY <2>2, <1>r, EndsFine
  <2> QED BY <1>5, <2>1, <2>2 DEF Cancelled
<1>6. CASE TickerEnded(c)
  <2>1. task[c] = "ticker" /\ UNCHANGED tick
    BY <1>6 DEF TickerEnded
  <2>2. CASE tick[c] = "failed"
    <3>1. Ends(c)
      BY <1>6, <2>2 DEF TickerEnded
    <3> QED BY <2>1, <2>2, <3>1, <1>r, EndsFine
  <2>3. CASE tick[c] # "failed"
    <3>1. Forget(c) /\ tick[c] = "ended"
      BY <1>6, <2>3 DEF TickerEnded
    <3> QED BY <2>1, <3>1, <1>r, ForgetFine
  <2> QED BY <2>2, <2>3
<1>7. CASE TransportClosed(c)
  BY <1>7, <1>r, EndsFine DEF TransportClosed
<1> QED BY <1>1, <1>2, <1>3, <1>4, <1>5, <1>6, <1>7 DEF Handler

\* Its ticker, which fails only when the transport is lost.
LEMMA TickFine ==
  ASSUME Typed, NEW c \in Conns, ConnOK(c), Tracked(c), Tick(c)
  PROVE  Fine(c)
<1>t. /\ task \in [Conns -> Handlers] /\ conn \in [Conns -> Places]
      /\ tick \in [Conns -> Ticks]
  BY DEF Typed
<1>m. main' = main /\ UNCHANGED <<early, closing, broadcasts, texts>>
      /\ UNCHANGED <<conn, task, CLIENTS, CLIENT_TASKS>>
  BY DEF Tick, Rest
<1>1. PICK v \in Ticks : /\ tick' = [tick EXCEPT ![c] = v]
                         /\ tick[c] \in {"sleeping", "sending", "cancelled"}
                         /\ v = "failed" => conn[c] = "lost"
  BY DEF Tick, DrainFails, Ticks
<1>2. Typed'
  BY <1>1, <1>m DEF Typed
<1>3. ConnOK(c)'
  BY <1>1, <1>m, <1>t DEF ConnOK, Served, Leaving, Gone, Attached
<1>4. Tracked(c)'
  BY <1>m DEF Tracked, Runs
<1>5. Only(c)
  BY <1>1, <1>m, <1>t DEF Only
<1> QED BY <1>1, <1>m, <1>2, <1>3, <1>4, <1>5 DEF Fine

\* Its peer and its transport.
LEMMA PeerFine ==
  ASSUME Typed, NEW c \in Conns, ConnOK(c), Tracked(c), Peer(c) \/ Flushed(c)
  PROVE  Fine(c)
<1>t. /\ task \in [Conns -> Handlers] /\ conn \in [Conns -> Places]
      /\ tick \in [Conns -> Ticks]
  BY DEF Typed
<1>m. main' = main /\ UNCHANGED <<closing, broadcasts, texts, tick, CLIENTS, CLIENT_TASKS>>
  BY Zenon DEF Peer, Connect, Stall, HangUp, Reset, Flushed, Lost, Others
<1>1. CASE Connect(c)
  <2>1. /\ conn[c] = "none" /\ conn' = [conn EXCEPT ![c] = "open"]
        /\ task' = [task EXCEPT ![c] = "created"]
        /\ early' \in {early, early \cup {c}}
    BY <1>1 DEF Connect
  <2>2. Typed'
    BY <2>1, <1>m DEF Typed, Handlers, Places
  <2>3. ConnOK(c)'
    BY <2>1, <1>m, <1>t DEF ConnOK, Served, Leaving, Gone
  <2>4. Tracked(c)'
    BY <2>1, <1>m, <1>t DEF Tracked, Runs, ConnOK
  <2>5. Only(c)
    BY <2>1, <1>m, <1>t DEF Only
  <2> QED BY <2>1, <1>m, <2>2, <2>3, <2>4, <2>5 DEF Fine
<1>2. CASE Stall(c) \/ HangUp(c)
  <2>1. UNCHANGED <<conn, task, early>>
    BY <1>2, Zenon DEF Stall, HangUp
  <2>2. Typed' /\ ConnOK(c)' /\ Tracked(c)'
    BY <2>1, <1>m DEF Typed, ConnOK, Served, Leaving, Gone, Attached, Tracked, Runs
  <2>3. Only(c)
    BY <2>1, <1>m DEF Only
  <2> QED BY <2>1, <1>m, <2>2, <2>3 DEF Fine
<1>3. CASE Reset(c) \/ Flushed(c)
  <2>1. /\ conn[c] \in {"open", "closing"} /\ conn' = [conn EXCEPT ![c] = "lost"]
        /\ UNCHANGED <<task, early>>
    BY <1>3 DEF Reset, Flushed, Lost, Attached
  <2>2. Typed'
    BY <2>1, <1>m DEF Typed, Places
  <2>3. ConnOK(c)'
    BY <2>1, <1>m, <1>t DEF ConnOK, Served, Leaving, Gone, Attached
  <2>4. Tracked(c)'
    BY <2>1, <1>m DEF Tracked, Runs
  <2>5. Only(c)
    BY <2>1, <1>m, <1>t DEF Only
  <2> QED BY <2>1, <1>m, <1>t, <2>2, <2>3, <2>4, <2>5 DEF Fine
<1> QED BY <1>1, <1>2, <1>3 DEF Peer
\* The others are what they were.
LEMMA FineKeeps ==
  ASSUME IInv, NEW c \in Conns, Fine(c)
  PROVE  IInv'
<1>i. Typed /\ CLIENT_TASKS = {d \in Conns : Runs(d)} /\ DropsLost /\ \A d \in Conns : ConnOK(d)
  BY TypeParts, Zenon DEF IInv
<1>f. Typed' /\ ConnOK(c)' /\ Tracked(c)' /\ Only(c) /\ (conn[c] = "lost" => conn'[c] = "lost")
      /\ CLIENT_TASKS' \subseteq Conns
  BY <1>i DEF Fine
<1>1. ASSUME NEW d \in Conns PROVE ConnOK(d)'
  <2>1. CASE d = c
    BY <2>1, <1>f
  <2>2. CASE d # c
    <3>1. /\ conn'[d] = conn[d] /\ task'[d] = task[d] /\ tick'[d] = tick[d] /\ main' = main
          /\ (d \in CLIENTS' <=> d \in CLIENTS)
      BY <2>2, <1>f DEF Only
    <3>2. ConnOK(d)
      BY <1>i
    <3> QED BY <3>1, <3>2 DEF ConnOK, Served, Leaving, Gone, Attached
  <2> QED BY <2>1, <2>2
<1>2. ASSUME NEW d \in Conns PROVE Tracked(d)'
  <2>1. CASE d = c
    BY <2>1, <1>f
  <2>2. CASE d # c
    <3>1. /\ task'[d] = task[d] /\ (d \in CLIENT_TASKS' <=> d \in CLIENT_TASKS)
          /\ (d \in early' <=> d \in early)
      BY <2>2, <1>f DEF Only
    <3>2. Tracked(d)
      BY <1>i DEF Tracked
    <3> QED BY <3>1, <3>2 DEF Tracked, Runs
  <2> QED BY <2>1, <2>2
<1>3. TypeOK'
  <2>1. (CLIENT_TASKS = {d \in Conns : Runs(d)})'
    BY <1>2, <1>f DEF Tracked
  <2> QED BY <2>1, <1>f, TypeParts
<1>4. DropsLost'
  <2>1. UNCHANGED <<broadcasts, texts>> /\ \A d \in Conns : d # c => conn'[d] = conn[d]
    BY <1>f DEF Only
  <2>2. \A d \in Conns : conn[d] = "lost" => conn'[d] = "lost"
    BY <2>1, <1>f
  <2>3. \A b \in broadcasts : b.dead \subseteq Conns
    BY <1>i DEF DropsLost, Copies
  <2> QED BY <2>1, <2>2, <2>3, <1>i DEF DropsLost
<1> QED BY <1>1, <1>3, <1>4 DEF IInv

-----------------------------------------------------------------------------
(* Lines of stdin. *)

\* A broadcast takes from CLIENTS only what is lost, and who is lost is not served.
LEMMA StdinKeeps ==
  ASSUME IInv, Line \/ \E b \in broadcasts : Broadcast(b)
  PROVE  IInv'
<1>i. TypeOK /\ Typed /\ DropsLost /\ \A d \in Conns : ConnOK(d)
  BY TypeParts, Zenon DEF IInv
<1>m. UNCHANGED <<main, conn, task, tick, CLIENT_TASKS, early, closing>>
  BY Zenon DEF Line, Broadcast, Unmoved, peers
<1>1. ASSUME NEW gone \in SUBSET Conns, CLIENTS' = CLIENTS \ gone,
             \A c \in gone : conn[c] = "lost", DropsLost'
      PROVE  IInv'
  <2>1. TypeOK'
    BY <1>1, <1>m, <1>i DEF TypeOK, Runs
  <2>2. ASSUME NEW c \in Conns PROVE ConnOK(c)'
    <3>1. ConnOK(c)
      BY <1>i
    <3>2. c \in CLIENTS' => c \in CLIENTS
      BY <1>1
    <3>3. Attached(c) => (c \in CLIENTS' <=> c \in CLIENTS)
      BY <1>1 DEF Attached
    <3> QED BY <3>1, <3>2, <3>3, <1>m DEF ConnOK, Served, Leaving, Gone, Attached
  <2> QED BY <1>1, <2>1, <2>2 DEF IInv
<1>u. ASSUME CLIENTS' = CLIENTS, DropsLost'
      PROVE  IInv'
  <2>1. PICK gone \in SUBSET Conns : gone = {}
    OBVIOUS
  <2>2. CLIENTS' = CLIENTS \ gone /\ \A c \in gone : conn[c] = "lost"
    BY <1>u, <2>1
  <2> QED BY <1>u, <2>2, <1>1
<1>2. CASE Line
  <2>1. CLIENTS' = CLIENTS /\ texts' = texts + 1
        /\ broadcasts' = broadcasts \cup {[text |-> texts', left |-> {}, at |-> "start", dead |-> {}]}
    BY <1>2 DEF Line
  <2>2. texts' \in Nat /\ broadcasts' \subseteq Copies
    BY <2>1, <1>i DEF DropsLost, Copies
  <2>3. \A b \in broadcasts' : \A c \in b.dead : conn'[c] = "lost"
    BY <2>1, <1>m, <1>i DEF DropsLost
  <2>4. DropsLost'
    BY <2>2, <2>3 DEF DropsLost
  <2> QED BY <2>1, <2>4, <1>u
<1>3. CASE \E b \in broadcasts : Broadcast(b)
  <2>1. PICK b \in broadcasts : Broadcast(b)
    BY <1>3
  <2>2. b \in Copies /\ \A c \in b.dead : conn[c] = "lost"
    BY <1>i DEF DropsLost
  <2> DEFINE left == IF b.at = "start" THEN CLIENTS ELSE b.left
             dead == IF b.at \in Conns /\ DrainFails(b.at) THEN b.dead \cup {b.at} ELSE b.dead
  <2>3. left \in SUBSET Conns /\ dead \in SUBSET Conns /\ \A c \in dead : conn[c] = "lost"
    BY <2>2, <1>i DEF Copies, Typed, DrainFails
  <2>4. texts' = texts
    BY <2>1 DEF Broadcast
  <2>5. \/ /\ CLIENTS' = CLIENTS
           /\ \E c \in left : broadcasts' = (broadcasts \ {b}) \cup
                {[b EXCEPT !.left = left \ {c}, !.at = c, !.dead = dead]}
        \/ CLIENTS' = CLIENTS \ dead /\ broadcasts' = broadcasts \ {b}
    BY <2>1 DEF Broadcast
  <2> HIDE DEF left, dead
  <2>6. CASE CLIENTS' = CLIENTS /\ \E c \in left : broadcasts' = (broadcasts \ {b}) \cup
               {[b EXCEPT !.left = left \ {c}, !.at = c, !.dead = dead]}
    <3>1. PICK c \in left : broadcasts' = (broadcasts \ {b}) \cup
               {[b EXCEPT !.left = left \ {c}, !.at = c, !.dead = dead]}
      BY <2>6
    <3>2. PICK n : n = [b EXCEPT !.left = left \ {c}, !.at = c, !.dead = dead]
      OBVIOUS
    <3>3. n \in Copies /\ n.dead = dead
      BY <3>2, <2>2, <2>3 DEF Copies
    <3>4. broadcasts' \subseteq broadcasts \cup {n}
      BY <3>1, <3>2
    <3>5. DropsLost'
      BY <3>3, <3>4, <2>3, <2>4, <1>m, <1>i DEF DropsLost
    <3> QED BY <2>6, <3>5, <1>u
  <2>7. CASE CLIENTS' = CLIENTS \ dead /\ broadcasts' = broadcasts \ {b}
    <3>1. DropsLost'
      BY <2>7, <2>4, <1>m, <1>i DEF DropsLost
    <3> QED BY <2>7, <2>3, <3>1, <1>1
  <2> QED BY <2>5, <2>6, <2>7
<1> QED BY <1>2, <1>3

-----------------------------------------------------------------------------
(* amain, and the invariant. *)

\* Handlers are cancelled only once amain gathers them.
LEMMA AmainKeeps ==
  ASSUME IInv, Signal \/ Amain
  PROVE  IInv'
<1>i. TypeOK /\ Typed /\ DropsLost /\ \A d \in Conns : ConnOK(d)
  BY TypeParts, Zenon DEF IInv
<1>t. /\ task \in [Conns -> Handlers] /\ conn \in [Conns -> Places]
      /\ tick \in [Conns -> Ticks] /\ CLIENT_TASKS = {c \in Conns : Runs(c)}
  BY <1>i DEF Typed, TypeOK
<1>m. UNCHANGED <<tick, CLIENTS, CLIENT_TASKS, early, broadcasts, texts>>
  BY Zenon DEF Signal, Amain, CloseFirst, Restart, StopServing, CloseClients, CancelClients, Finish, Aside
<1>1. CASE CloseFirst \/ Restart \/ Signal \/ StopServing \/ Finish
  <2>1. UNCHANGED <<conn, task, closing>>
    BY <1>1, Zenon DEF CloseFirst, Restart, Signal, StopServing, Finish, peers
  <2>2. /\ main' \in {main, "restarting", "serving", "waiting", "done"}
        /\ main \in {"gathering", "done"} => main' \in {"gathering", "done"}
    BY <1>1 DEF CloseFirst, Restart, Signal, StopServing, Finish
  <2>3. TypeOK'
    BY <2>1, <2>2, <1>m, <1>i DEF TypeOK, Runs
  <2>4. ASSUME NEW c \in Conns PROVE ConnOK(c)'
    <3>1. ConnOK(c)
      BY <1>i
    <3> QED BY <3>1, <2>1, <2>2, <1>m DEF ConnOK, Served, Leaving, Gone, Attached
  <2> QED BY <2>1, <2>3, <2>4, <1>m, <1>i DEF IInv, DropsLost
<1>2. CASE CloseClients
  <2>1. conn' = Closed(CLIENTS) /\ task' = task /\ closing' = CLIENTS /\ main' = "flushing"
        /\ main = "waiting"
    BY <1>2 DEF CloseClients
  <2>2. /\ conn' \in [Conns -> Places] /\ CLIENTS \subseteq Conns
        /\ \A c \in Conns : conn'[c] \in {conn[c], "closing"}
        /\ \A c \in Conns : conn[c] # "open" => conn'[c] = conn[c]
    BY <2>1, <1>t, <1>i, ClosedTyped DEF Typed
  <2>3. TypeOK'
    <3>1. Typed'
      BY <2>1, <2>2, <1>m, <1>i DEF Typed
    <3>2. (CLIENT_TASKS = {c \in Conns : Runs(c)})'
      BY <2>1, <1>m, <1>t DEF Runs
    <3> QED BY <3>1, <3>2, TypeParts
  <2>4. ASSUME NEW c \in Conns PROVE ConnOK(c)'
    <3>1. ConnOK(c)
      BY <1>i
    <3>2. conn'[c] \in {conn[c], "closing"} /\ (conn[c] # "open" => conn'[c] = conn[c])
      BY <2>2
    <3> QED BY <3>1, <3>2, <2>1, <1>m DEF ConnOK, Served, Leaving, Gone, Attached
  <2>5. DropsLost'
    <3>1. \A b \in broadcasts : b.dead \subseteq Conns
      BY <1>i DEF DropsLost, Copies
    <3> QED BY <3>1, <2>2, <1>m, <1>i DEF DropsLost
  <2> QED BY <2>3, <2>4, <2>5 DEF IInv
<1>3. CASE CancelClients
  <2>1. conn' = conn /\ closing' = CLIENT_TASKS /\ main' = "gathering" /\ main = "flushing"
    BY <1>3 DEF CancelClients
  <2>2. /\ task' \in [Conns -> Handlers]
        /\ \A c \in Conns :
             \/ task'[c] = task[c] /\ (~Runs(c) \/ task[c] = "ticker")
             \/ task'[c] = "dropped" /\ task[c] = "transport"
             \/ task'[c] = "cancelled" /\ Runs(c)
    BY <1>3, <1>t DEF CancelClients, Handlers
  <2>3. \A c \in Conns : Runs(c)' <=> Runs(c)
    BY <2>2, <1>m DEF Runs
  <2>4. TypeOK'
    <3>1. Typed'
      BY <2>1, <2>2, <1>m, <1>i, <1>t DEF Typed
    <3>2. (CLIENT_TASKS = {c \in Conns : Runs(c)})'
      BY <2>3, <1>m, <1>t
    <3> QED BY <3>1, <3>2, TypeParts
  <2>5. ASSUME NEW c \in Conns PROVE ConnOK(c)'
    <3>1. ConnOK(c)
      BY <1>i
    <3>2. CASE task'[c] = task[c]
      BY <3>1, <3>2, <2>1, <1>m DEF ConnOK, Served, Leaving, Gone, Attached
    <3>3. CASE task'[c] = "dropped" /\ task[c] = "transport"
      BY <3>1, <3>3, <2>1, <1>m DEF ConnOK, Served, Leaving, Gone, Attached
    <3>4. CASE task'[c] = "cancelled" /\ Runs(c)
      BY <3>1, <3>4, <2>1, <1>m DEF ConnOK, Served, Leaving, Gone, Attached, Runs
    <3> QED BY <2>2, <3>2, <3>3, <3>4
  <2>6. DropsLost'
    BY <2>1, <1>m, <1>i DEF DropsLost
  <2> QED BY <2>4, <2>5, <2>6 DEF IInv
<1> QED BY <1>1, <1>2, <1>3 DEF Amain

\* The server as it starts.
LEMMA InitIInv == Init => IInv
<1> SUFFICES ASSUME Init PROVE IInv
  OBVIOUS
<1>1. TypeOK
  BY DEF Init, TypeOK, Handlers, Runs
<1>2. DropsLost
  BY DEF Init, DropsLost
<1>3. \A c \in Conns : ConnOK(c)
  BY DEF Init, ConnOK, Served, Leaving, Gone
<1> QED BY <1>1, <1>2, <1>3 DEF IInv

\* The lemmas above, together.
LEMMA StepIInv == IInv /\ [Next]_vars => IInv'
<1> SUFFICES ASSUME IInv, [Next]_vars PROVE IInv'
  OBVIOUS
<1>i. Typed /\ CLIENT_TASKS = {d \in Conns : Runs(d)} /\ \A d \in Conns : ConnOK(d)
  BY TypeParts, Zenon DEF IInv
<1>1. CASE \E c \in Conns : Peer(c) \/ Flushed(c) \/ Handler(c) \/ Tick(c)
  <2>1. PICK c \in Conns : Peer(c) \/ Flushed(c) \/ Handler(c) \/ Tick(c)
    BY <1>1
  <2>2. ConnOK(c) /\ Tracked(c)
    BY <1>i DEF Tracked
  <2>3. Fine(c)
    BY <2>1, <2>2, <1>i, PeerFine, HandlerFine, TickFine, Zenon
  <2> QED BY <2>3, FineKeeps, Zenon
<1>2. CASE Line \/ \E b \in broadcasts : Broadcast(b)
  BY <1>2, StdinKeeps
<1>3. CASE Signal \/ Amain
  BY <1>3, AmainKeeps
<1>4. CASE UNCHANGED vars
  <2>1. UNCHANGED <<main, conn, task, tick, CLIENTS, CLIENT_TASKS, early, closing, broadcasts, texts>>
    BY <1>4, Zenon DEF vars, peers
  <2> QED BY <2>1 DEF IInv, TypeOK, DropsLost, ConnOK, Served, Leaving, Gone, Attached, Runs
<1> QED BY <1>1, <1>2, <1>3, <1>4, Zenon DEF Next

\* IInv holds throughout.
THEOREM Inductive == Spec => []IInv
  BY InitIInv, StepIInv, PTL DEF Spec

\* Every variable keeps its type, and amain tracks just those handlers of its
\* second server that run, for any number of connections.
THEOREM Tracking == Spec => []TypeOK
<1>1. IInv => TypeOK
  BY Zenon DEF IInv
<1> QED BY <1>1, Inductive, PTL

\* A client that is served and not lost is in CLIENTS, whoever else failed in a
\* broadcast and however slow it is itself.
THEOREM ServedAreListed == Spec => []ServedIsListed
<1>1. IInv => ServedIsListed
  BY Zenon DEF IInv, ConnOK, Served, ServedIsListed
<1> QED BY <1>1, Inductive, PTL

\* A handler that ended leaves no ticker, no open connection before amain gathers
\* the handlers, and an entry in CLIENTS only if its ticker failed, of a
\* connection that is then lost.
THEOREM EndedAreForgotten == Spec => []EndedIsForgotten
<1>1. IInv => EndedIsForgotten
  BY Zenon DEF IInv, ConnOK, Gone, EndedIsForgotten
<1> QED BY <1>1, Inductive, PTL
=============================================================================
