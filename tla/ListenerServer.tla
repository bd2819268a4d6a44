---------------------------- MODULE ListenerServer ----------------------------
(***************************************************************************)
(* The WebSocket server of tabemit-listener.py, and, with no lines of stdin,  *)
(* of chatterino-streamlink-follow.py: an asyncio program of one task per     *)
(* client, a ticker for each, a task for each line that is broadcast, and     *)
(* amain, which opens a server, in one of them a second one, and ends it all. *)
(*                                                                         *)
(* Tasks interleave at their awaits only, so an action is what a task does    *)
(* between two of them.  The peers and the transports below asyncio may do    *)
(* anything in between: connect, send, stop reading, hang up or reset.        *)
(***************************************************************************)
EXTENDS Naturals, FiniteSets

CONSTANTS
  Conns,    \* connections that may be made
  MaxTexts  \* lines of stdin

ASSUME ListenerAssumption == IsFiniteSet(Conns) /\ MaxTexts \in Nat

VARIABLES
  waits,      \* does Server.wait_closed wait for the connections?  (Python 3.12.1)
  main,       \* amain
  stop,       \* the event SIGINT and SIGTERM set
  conn,       \* the transport of each connection
  stalled,    \* its peer does not read, and the buffer is full
  eof,        \* its peer hung up
  task,       \* its handler, tracked_client and client
  tick,       \* its ticker
  CLIENTS, CLIENT_TASKS,
  early,      \* the clients of amain's first server, which it does not track
  closing,    \* close_all_clients: the writers, then the tasks it waits for
  broadcasts, \* broadcast tasks: what is left of each one's copy of CLIENTS
  texts       \* lines of stdin so far

peers == <<conn, stalled, eof>>
vars == <<waits, main, stop, peers, task, tick, CLIENTS, CLIENT_TASKS, early,
          closing, broadcasts, texts>>

\* Where a handler awaits: the request's head, a drain, a frame, its ticker,
\* its transport.
Drains == {"refuse", "accept", "greeting", "pong"}
Handlers == {"none", "created", "headers", "frame", "ticker", "transport", "cancelled", "dropped",
             "ended"} \cup Drains
Runs(c) == task[c] \notin {"none", "created", "ended"} /\ c \notin early
Attached(c) == conn[c] \in {"open", "closing"}

\* amain of tabemit-listener.py "starting", with the first of its two servers
\* just open, or that of chatterino-streamlink-follow.py, which has one, "serving".
Init ==
  /\ waits \in BOOLEAN
  /\ main \in {"starting", "serving"} /\ stop = FALSE
  /\ conn = [c \in Conns |-> "none"]
  /\ stalled = [c \in Conns |-> FALSE] /\ eof = [c \in Conns |-> FALSE]
  /\ task = [c \in Conns |-> "none"] /\ tick = [c \in Conns |-> "none"]
  /\ CLIENTS = {} /\ CLIENT_TASKS = {} /\ early = {} /\ closing = {}
  /\ broadcasts = {} /\ texts = 0

-----------------------------------------------------------------------------
(* Peers and transports. *)

Others ==
  /\ main # "done"
  /\ UNCHANGED <<waits, main, stop, tick, CLIENTS, CLIENT_TASKS, closing, broadcasts, texts>>

Connect(c) ==
  /\ main \in {"starting", "serving"} /\ conn[c] = "none"
  /\ conn' = [conn EXCEPT ![c] = "open"] /\ task' = [task EXCEPT ![c] = "created"]
  /\ early' = IF main = "starting" THEN early \cup {c} ELSE early
  /\ UNCHANGED <<stalled, eof>> /\ Others

Stall(c) ==
  /\ Attached(c) /\ ~eof[c]
  /\ stalled' = [stalled EXCEPT ![c] = ~@]
  /\ UNCHANGED <<conn, eof, task, early>> /\ Others

\* What is still written to a peer that hung up is not held back.
HangUp(c) ==
  /\ Attached(c) /\ ~eof[c]
  /\ eof' = [eof EXCEPT ![c] = TRUE] /\ stalled' = [stalled EXCEPT ![c] = FALSE]
  /\ UNCHANGED <<conn, task, early>> /\ Others

\* connection_lost
Lost(c) ==
  /\ conn' = [conn EXCEPT ![c] = "lost"]
  /\ stalled' = [stalled EXCEPT ![c] = FALSE] /\ eof' = [eof EXCEPT ![c] = TRUE]
  /\ UNCHANGED <<task, early>> /\ Others

Reset(c) == Attached(c) /\ Lost(c)

\* A closed transport is lost once its buffer is written.
Flushed(c) == conn[c] = "closing" /\ ~stalled[c] /\ Lost(c)

\* drain returns, or raises a ConnectionResetError.
Drained(c) == Attached(c) /\ ~stalled[c]
DrainFails(c) == conn[c] = "lost"

Closed(cs) == [c \in Conns |-> IF c \in cs /\ conn[c] = "open" THEN "closing" ELSE conn[c]]

-----------------------------------------------------------------------------
(* tracked_client and client. *)

\* Nothing runs once amain has returned.
Rest ==
  /\ main # "done"
  /\ UNCHANGED <<waits, main, stop, stalled, eof, early, closing, broadcasts, texts>>

GoesTo(c, place) ==
  /\ task' = [task EXCEPT ![c] = place]
  /\ UNCHANGED <<conn, tick, CLIENTS, CLIENT_TASKS>>

StartClient(c) ==
  /\ task[c] = "created"
  /\ task' = [task EXCEPT ![c] = "headers"]
  /\ CLIENT_TASKS' = CLIENT_TASKS \cup ({c} \ early)
  /\ UNCHANGED <<conn, tick, CLIENTS>> /\ Rest

\* Mutant of Forget: the writer is closed and not dropped.
ForgetNot(c) ==
  /\ conn' = Closed({c})
  /\ task' = [task EXCEPT ![c] = "transport"]
  /\ UNCHANGED <<CLIENTS, CLIENT_TASKS>>

\* client, `finally', from its ticker's end.
Forget(c) ==
  /\ CLIENTS' = CLIENTS \ {c} /\ conn' = Closed({c})
  /\ task' = [task EXCEPT ![c] = "transport"]
  /\ UNCHANGED CLIENT_TASKS

\* Mutant of Ends: the task is not discarded.
EndsTracked(c) == task' = [task EXCEPT ![c] = "ended"] /\ UNCHANGED <<conn, CLIENTS, CLIENT_TASKS>>

\* tracked_client, `finally'.
Ends(c) ==
  /\ task' = [task EXCEPT ![c] = "ended"] /\ CLIENT_TASKS' = CLIENT_TASKS \ {c}
  /\ UNCHANGED <<conn, CLIENTS>>

\* Mutant of Leave: the ticker is awaited and not cancelled.
LeaveTicking(c) ==
  IF tick[c] = "none" THEN Forget(c) /\ UNCHANGED tick
  ELSE task' = [task EXCEPT ![c] = "ticker"] /\ UNCHANGED <<conn, tick, CLIENTS, CLIENT_TASKS>>

\* client, `finally': the ticker is cancelled, unless it has ended, and awaited.
Leave(c) ==
  IF tick[c] = "none" THEN Forget(c) /\ UNCHANGED tick
  ELSE /\ task' = [task EXCEPT ![c] = "ticker"]
       /\ tick' = [tick EXCEPT ![c] = IF @ \in {"ended", "failed"} THEN @ ELSE "cancelled"]
       /\ UNCHANGED <<conn, CLIENTS, CLIENT_TASKS>>

\* A CancelledError, after which the transport is awaited but once.
Cancelled(c) ==
  /\ \/ task[c] = "cancelled" /\ Leave(c)
     \/ task[c] = "dropped" /\ Ends(c) /\ UNCHANGED tick
  /\ Rest

\* handshake, up to the request's head: complete, without a key, or no head.
Headers(c) ==
  /\ task[c] = "headers"
  /\ \/ conn[c] = "open" /\ ~eof[c] /\ (GoesTo(c, "accept") \/ GoesTo(c, "refuse") \/ Leave(c))
     \/ eof[c] /\ Leave(c)
  /\ Rest

\* The drains of handshake, of the greeting ("ping", "probe" and "check") and of
\* read_frame, and what follows them.
Drain(c) ==
  /\ task[c] \in Drains
  /\ \/ DrainFails(c) /\ Leave(c)
     \/ Drained(c) /\ task[c] = "refuse" /\ Leave(c)
     \/ /\ Drained(c) /\ task[c] = "accept"
        /\ CLIENTS' = CLIENTS \cup {c} /\ task' = [task EXCEPT ![c] = "greeting"]
        /\ UNCHANGED <<conn, tick, CLIENT_TASKS>>
     \/ /\ Drained(c) /\ task[c] = "greeting"
        /\ task' = [task EXCEPT ![c] = "frame"] /\ tick' = [tick EXCEPT ![c] = "sleeping"]
        /\ UNCHANGED <<conn, CLIENTS, CLIENT_TASKS>>
     \/ Drained(c) /\ task[c] = "pong" /\ GoesTo(c, "frame")
  /\ Rest

\* read_frame: a ping is answered; a close, the peer's end, and a message that
\* handle or handle_event raises on end the loop; any other message is handled
\* without an await.
Frame(c) ==
  /\ task[c] = "frame"
  /\ \/ /\ conn[c] = "open" /\ ~eof[c]
        /\ GoesTo(c, "pong") \/ Leave(c)
     \/ eof[c] /\ Leave(c)
  /\ Rest

\* `await tick_task' raises what a ticker failed with, unless it was cancelled.
TickerEnded(c) ==
  /\ task[c] = "ticker" /\ tick[c] \in {"ended", "failed"}
  /\ IF tick[c] = "failed" THEN Ends(c) ELSE Forget(c)
  /\ UNCHANGED tick /\ Rest

TransportClosed(c) ==
  /\ task[c] = "transport" /\ conn[c] = "lost"
  /\ Ends(c) /\ UNCHANGED tick /\ Rest

\* ticker
Tick(c) ==
  /\ \/ /\ tick[c] = "sleeping"
        /\ tick' = [tick EXCEPT ![c] = IF conn[c] = "open" THEN "sending" ELSE "ended"]
     \/ tick[c] = "sending" /\ Drained(c) /\ tick' = [tick EXCEPT ![c] = "sleeping"]
     \/ tick[c] = "sending" /\ DrainFails(c) /\ tick' = [tick EXCEPT ![c] = "failed"]
     \/ tick[c] = "cancelled" /\ tick' = [tick EXCEPT ![c] = "ended"]
  /\ UNCHANGED <<conn, task, CLIENTS, CLIENT_TASKS>> /\ Rest

-----------------------------------------------------------------------------
(* Lines of stdin. *)

Unmoved ==
  /\ main # "done"
  /\ UNCHANGED <<waits, main, stop, peers, task, tick, CLIENT_TASKS, early, closing>>

\* install_stdin_reader, on_stdin: every line is a task of its own.
Line ==
  /\ main = "serving" /\ texts < MaxTexts
  /\ texts' = texts + 1
  /\ broadcasts' = broadcasts \cup {[text |-> texts', left |-> {}, at |-> "start", dead |-> {}]}
  /\ UNCHANGED CLIENTS /\ Unmoved

\* Mutant of Broadcast: a client that cannot take the text at once is dropped.
BroadcastDropping(b) ==
  /\ b \in broadcasts
  /\ LET left == IF b.at = "start" THEN CLIENTS ELSE b.left
         dead == IF b.at \in Conns /\ ~Drained(b.at) THEN b.dead \cup {b.at} ELSE b.dead
     IN  \/ \E c \in left :
              /\ broadcasts' = (broadcasts \ {b}) \cup
                   {[b EXCEPT !.left = left \ {c}, !.at = c, !.dead = dead]}
              /\ UNCHANGED CLIENTS
         \/ left = {} /\ CLIENTS' = CLIENTS \ dead /\ broadcasts' = broadcasts \ {b}
  /\ UNCHANGED texts /\ Unmoved

\* broadcast: one client after the other, each awaited; those that failed are
\* dropped when the last was.
Broadcast(b) ==
  /\ b \in broadcasts
  /\ b.at \in Conns => Drained(b.at) \/ DrainFails(b.at)
  /\ LET left == IF b.at = "start" THEN CLIENTS ELSE b.left
         dead == IF b.at \in Conns /\ DrainFails(b.at) THEN b.dead \cup {b.at} ELSE b.dead
     IN  \/ \E c \in left :
              /\ broadcasts' = (broadcasts \ {b}) \cup
                   {[b EXCEPT !.left = left \ {c}, !.at = c, !.dead = dead]}
              /\ UNCHANGED CLIENTS
         \/ left = {} /\ CLIENTS' = CLIENTS \ dead /\ broadcasts' = broadcasts \ {b}
  /\ UNCHANGED texts /\ Unmoved

-----------------------------------------------------------------------------
(* amain *)

Aside ==
  UNCHANGED <<waits, stalled, eof, CLIENTS, CLIENT_TASKS, early, broadcasts, texts>>

\* The first server is closed as soon as it accepts; its clients are served.
CloseFirst ==
  /\ main = "starting" /\ main' = "restarting"
  /\ UNCHANGED <<stop, conn, task, tick, closing>> /\ Aside

\* server.wait_closed of the first server, then the second is open.
Restart ==
  /\ main = "restarting"
  /\ waits => \A c \in Conns : ~Attached(c)
  /\ main' = "serving"
  /\ UNCHANGED <<stop, conn, task, tick, closing>> /\ Aside

Signal ==
  /\ main \in {"restarting", "serving"} /\ ~stop /\ stop' = TRUE
  /\ UNCHANGED <<waits, main, peers, task, tick, CLIENTS, CLIENT_TASKS, early, closing,
                 broadcasts, texts>>

\* The `async with' is left: the server accepts no more.
StopServing ==
  /\ main = "serving" /\ stop
  /\ main' = "waiting"
  /\ UNCHANGED <<stop, conn, task, tick, closing>> /\ Aside

\* server.wait_closed, then the writers of close_all_clients.
CloseClients ==
  /\ main = "waiting"
  /\ waits => \A c \in Conns : ~Attached(c)
  /\ main' = "flushing" /\ conn' = Closed(CLIENTS) /\ closing' = CLIENTS
  /\ UNCHANGED <<stop, task, tick>> /\ Aside

\* close_all_clients, the tasks.  A cancelled handler goes on with its `finally';
\* one that waits for its ticker does so still, and one that waits for its
\* transport no longer does.
CancelClients ==
  /\ main = "flushing" /\ \A c \in closing : conn[c] = "lost"
  /\ main' = "gathering" /\ closing' = CLIENT_TASKS
  /\ task' = [c \in Conns |->
       IF c \in CLIENT_TASKS /\ task[c] # "ticker"
       THEN IF task[c] = "transport" THEN "dropped" ELSE "cancelled"
       ELSE task[c]]
  /\ UNCHANGED <<stop, conn, tick>> /\ Aside

\* Every task gathered, amain returns; the follower's shutdown comes before.
Finish ==
  /\ main = "gathering" /\ closing \cap CLIENT_TASKS = {}
  /\ main' = "done"
  /\ UNCHANGED <<stop, conn, task, tick, closing>> /\ Aside

-----------------------------------------------------------------------------

Peer(c) == Connect(c) \/ Stall(c) \/ HangUp(c) \/ Reset(c)
Handler(c) ==
  StartClient(c) \/ Headers(c) \/ Drain(c) \/ Frame(c) \/ Cancelled(c) \/ TickerEnded(c)
    \/ TransportClosed(c)
Amain == CloseFirst \/ Restart \/ StopServing \/ CloseClients \/ CancelClients \/ Finish

Next ==
  \/ \E c \in Conns : Peer(c) \/ Flushed(c) \/ Handler(c) \/ Tick(c)
  \/ Line \/ \E b \in broadcasts : Broadcast(b)
  \/ Signal \/ Amain

\* asyncio runs every task that is ready, and closes every transport it can.
Fairness ==
  /\ \A c \in Conns :
       WF_vars(Flushed(c)) /\ WF_vars(Handler(c))
         /\ WF_vars(Tick(c))
  /\ WF_vars(\E b \in broadcasts : Broadcast(b))
  /\ WF_vars(Amain)

Spec == Init /\ [][Next]_vars /\ Fairness

-----------------------------------------------------------------------------
(* Properties. *)

\* Every variable keeps its type; the tasks that amain will cancel are those of
\* its second server that have begun and not ended.
TypeOK ==
  /\ main \in {"starting", "restarting", "serving", "waiting", "flushing", "gathering", "done"}
  /\ task \in [Conns -> Handlers] /\ conn \in [Conns -> {"none", "open", "closing", "lost"}]
  /\ tick \in [Conns -> {"none", "sending", "sleeping", "cancelled", "ended", "failed"}]
  /\ closing \subseteq Conns /\ CLIENTS \subseteq Conns /\ early \subseteq Conns
  /\ CLIENT_TASKS = {c \in Conns : Runs(c)}

\* A client that is being served and not lost gets what is broadcast, however
\* slow it is, whoever else failed (broadcast, CLIENTS).
ServedIsListed ==
  \A c \in Conns :
    task[c] \in {"greeting", "frame", "pong"} /\ Attached(c) => c \in CLIENTS

\* A handler that ended, at whichever await it failed or was cancelled, leaves
\* no ticker that runs, no open connection before amain gathers, and no entry in
\* CLIENTS.  One entry may stay: that of a handler whose `await tick_task' raised
\* what its ticker had failed with, which skips CLIENTS.discard.  It is of a
\* connection that is lost, so the next broadcast drops it; no client that could
\* still be sent to is left behind (client, `finally').
EndedIsForgotten ==
  \A c \in Conns :
    task[c] = "ended" =>
      /\ c \in CLIENTS => tick[c] = "failed" /\ conn[c] = "lost"
      /\ Attached(c) => main = "gathering" \/ main = "done"
      /\ tick[c] \in {"none", "ended", "failed"}

\* Once stopped, the program ends when its peers have left, in every Python
\* (amain, close_all_clients, client's `finally').
StopEndsOncePeersLeave ==
  <>[](\A c \in Conns : eof[c] \/ conn[c] \in {"none", "lost"}) => (stop ~> main = "done")

\* Once stopped, the program ends though its clients stay connected, if they
\* but read what they are sent: "so we can cancel connected clients before
\* returning", says the comment in amain.
StopEnds == <>[](\A c \in Conns : ~stalled[c]) => (stop ~> main = "done")
=============================================================================
