------------------------------- MODULE TabEmit -------------------------------
(***************************************************************************)
(* From the selected tab to the follower: the plugin tab-emit/init.lua,    *)
(* its WebSockets, and the server in chatterino-streamlink-follow.py that   *)
(* hands the tab events to the follower.                                   *)
(*                                                                         *)
(* The plugin's callbacks run one at a time on the GUI thread, in the      *)
(* order they were posted to it, whichever socket `ws' names by then.      *)
(* A socket nobody names is closed when Lua collects it; its callbacks     *)
(* run until then and not after (WebSocketListenerProxy holds it weakly).   *)
(* The server listens on this host: a connection nobody listens for is      *)
(* refused at once, the others are answered in the order they came in.      *)
(* The server's event loop handles one frame at a time and is blocked while *)
(* the follower loads a stream; the follower itself, StreamFollow, appears *)
(* here only through what it does with an event.                           *)
(***************************************************************************)
EXTENDS Naturals, Sequences, SequencesExt, FiniteSets

CONSTANTS
  Dests,       \* the destinations a tab may show
  None,        \* no destination
  Sockets,     \* the socket objects; one that was collected is used again
  LoadsFail,   \* may the follower fail to load a destination?
  MaxSelects,  \* bound: tab changes by the user
  MaxCommands, \* bound: /tabemit-reconnect and /tabemit-check
  MaxCrashes   \* bound: restarts of the server

ASSUME TabAssumption ==
  /\ None \notin Dests /\ Sockets # {} /\ IsFiniteSet(Sockets)
  /\ LoadsFail \in BOOLEAN
  /\ MaxSelects \in Nat /\ MaxCommands \in Nat /\ MaxCrashes \in Nat

VARIABLES
  sel,    \* the destination of the tab that is selected now
  plug,   \* the plugin's locals
  timers, \* c2.later calls of schedule_reconnect that have not run
  sock,   \* per socket: the connection, and the frames sent on it
  gui,    \* the callbacks posted to the GUI thread, oldest first
  srv,    \* the server: running, its listen backlog, the tab it heard of last
  fol,    \* what the follower makes of it: what it follows, its debounce
  env     \* what has happened so far, for the bounds

vars == <<sel, plug, timers, sock, gui, srv, fol, env>>

\* "free": collected; "up": connected; "dead": failed or closed.
Free == [at |-> "free", frames |-> <<>>]

Post(s, callback) == [socket |-> s, callback |-> callback]

\* What of a queue is at these places, in its order (SelectSeq, by places).
Kept(queue, places) ==
  [n \in 1 .. Cardinality(places) |->
     queue[CHOOSE i \in places : Cardinality({k \in places : k <= i}) = n]]

\* A frame: the event's name and the destination it carries.
Tab(d) == [event |-> "tab_changed", dest |-> d]
Initial(d) == [event |-> "initial_state", dest |-> d]
Manual(d) == [event |-> "manual_check_ctx", dest |-> d]

\* --events, as the service leaves it.
Followed == {"tab_changed", "manual_check_ctx"}

Init ==
  /\ sel \in Dests
  /\ plug = [ws |-> CHOOSE s \in Sockets : TRUE, connected |-> FALSE,
             scheduled |-> FALSE, last |-> None]
  /\ timers = 0
  /\ sock = [s \in Sockets |->
               IF s = plug.ws THEN [Free EXCEPT !.at = "connecting"] ELSE Free]
  /\ gui = <<>>
  /\ srv = [up |-> TRUE, backlog |-> <<plug.ws>>, heard |-> None]
  /\ fol = [dest |-> None, debounce |-> FALSE]
  /\ env = [selects |-> 0, commands |-> 0, crashes |-> 0]

-----------------------------------------------------------------------------
(* The plugin's own functions. *)

\* send_raw: nothing is sent unless connected, and a socket that is dead
\* swallows the frames.
Send(frames) ==
  IF plug'.connected /\ sock[plug.ws].at \in {"connecting", "up"}
  THEN sock' = [sock EXCEPT ![plug.ws].frames = @ \o frames]
  ELSE UNCHANGED sock

\* Mutant of TabFrame: last_identity is read before it is set.
TabFrameLast == Tab(plug.last)

\* check_auto: what is sent of the tab selected now.
TabFrame == IF plug.last = None THEN Initial(sel) ELSE Tab(sel)

Check == plug' = [plug EXCEPT !.last = sel] /\ Send(<<TabFrame>>)

\* schedule_reconnect, in a callback that leaves the plugin not connected.
ScheduleReconnect ==
  /\ plug' = [plug EXCEPT !.connected = FALSE, !.scheduled = TRUE]
  /\ timers' = IF plug.scheduled THEN timers ELSE timers + 1

\* reconnect: a new socket, refused when the server is not there; the old one
\* stays as it is until it is collected.
Reconnect(s) ==
  /\ sock[s].at = "free"
  /\ sock' = [sock EXCEPT ![s].at = IF srv.up THEN "connecting" ELSE "dead"]
  /\ IF srv.up
     THEN srv' = [srv EXCEPT !.backlog = Append(@, s)] /\ UNCHANGED gui
     ELSE gui' = Append(gui, Post(s, "close")) /\ UNCHANGED srv

-----------------------------------------------------------------------------
(* The user. *)

Select(d) ==
  /\ env.selects < MaxSelects /\ d # sel
  /\ sel' = d
  /\ env' = [env EXCEPT !.selects = @ + 1]
  /\ UNCHANGED <<plug, timers, sock, gui, srv, fol>>

\* /tabemit-check, entered in the selected tab: ctx_probe and a forced check.
CheckCommand ==
  /\ env.commands < MaxCommands
  /\ plug' = [plug EXCEPT !.last = sel]
  /\ Send(<<Manual(sel), TabFrame>>)
  /\ env' = [env EXCEPT !.commands = @ + 1]
  /\ UNCHANGED <<sel, timers, gui, srv, fol>>

\* /tabemit-reconnect.
ReconnectCommand(s) ==
  /\ env.commands < MaxCommands
  /\ Reconnect(s)
  /\ plug' = [plug EXCEPT !.ws = s, !.connected = FALSE]
  /\ env' = [env EXCEPT !.commands = @ + 1]
  /\ UNCHANGED <<sel, timers, fol>>

-----------------------------------------------------------------------------
(* Callbacks on the GUI thread. *)

\* The next callback is this one of s.
Due(s, callback) ==
  /\ gui # <<>> /\ Head(gui) = Post(s, callback)
  /\ gui' = Tail(gui)

OnOpen(s) ==
  /\ Due(s, "open")
  /\ plug' = [plug EXCEPT !.connected = TRUE, !.scheduled = FALSE, !.last = sel]
  /\ Send(<<TabFrame>>)
  /\ UNCHANGED <<sel, timers, srv, fol, env>>

\* on_text "check": a forced check.
OnCheck(s) ==
  /\ Due(s, "check")
  /\ Check
  /\ UNCHANGED <<sel, timers, srv, fol, env>>

\* on_text "tick": sent only when the tab is another than at the last check.
OnTick(s) ==
  /\ Due(s, "tick")
  /\ IF plug.last # sel THEN Check ELSE UNCHANGED <<plug, sock>>
  /\ UNCHANGED <<sel, timers, srv, fol, env>>

\* Mutant of OnClose: the plugin waits for somebody to reconnect it.
OnCloseIdle(s) ==
  /\ Due(s, "close")
  /\ plug' = [plug EXCEPT !.connected = FALSE]
  /\ UNCHANGED <<sel, sock, timers, srv, fol, env>>

\* Mutant of OnClose: `connected' is left as it was.
OnCloseUnnoticed(s) ==
  /\ Due(s, "close")
  /\ UNCHANGED <<sel, sock, plug, timers, srv, fol, env>>

\* on_close: of any socket, the current one or not.
OnClose(s) ==
  /\ Due(s, "close")
  /\ ScheduleReconnect
  /\ UNCHANGED <<sel, sock, srv, fol, env>>

\* The c2.later callback, connected meanwhile: nothing to do.
TimerIdle ==
  /\ timers > 0 /\ plug.connected
  /\ timers' = timers - 1
  /\ plug' = [plug EXCEPT !.scheduled = FALSE]
  /\ UNCHANGED <<sel, sock, gui, srv, fol, env>>

\* The c2.later callback: reconnect, and schedule the next try at once, since
\* the new socket cannot be connected yet.
TimerReconnects(s) ==
  /\ timers > 0 /\ ~plug.connected
  /\ Reconnect(s)
  /\ plug' = [plug EXCEPT !.ws = s, !.scheduled = TRUE]
  /\ UNCHANGED <<sel, timers, fol, env>>

\* Lua collects a socket `ws' does not name: ~WebSocketHandle closes it.
Collect(s) ==
  /\ s # plug.ws /\ sock[s].at # "free"
  /\ sock' = [sock EXCEPT ![s] = Free]
  /\ gui' = Kept(gui, {i \in DOMAIN gui : gui[i].socket # s})
  /\ srv' = [srv EXCEPT !.backlog = Kept(@, {i \in DOMAIN @ : @[i] # s})]
  /\ UNCHANGED <<sel, plug, timers, fol, env>>

-----------------------------------------------------------------------------
(* The server. *)

\* handshake.  What an older connection was sent before has been read by then.
Answer(s) ==
  /\ srv.backlog # <<>> /\ s = Head(srv.backlog)
  /\ \A t \in Sockets : sock[t].at = "up" => sock[t].frames = <<>>
  /\ srv' = [srv EXCEPT !.backlog = Tail(@)]
  /\ sock' = [sock EXCEPT ![s].at = "up"]
  /\ UNCHANGED <<sel, plug, timers, fol, env>>

\* Mutant of Accept: the server greets the plugin and asks for nothing.
AcceptUnasked(s) ==
  /\ Answer(s)
  /\ gui' = Append(gui, Post(s, "open"))

\* client(): the handshake is answered, and "check" follows it.
Accept(s) ==
  /\ Answer(s)
  /\ gui' = gui \o <<Post(s, "open"), Post(s, "check")>>

\* ticker.  One tick in flight stands for any number.
Tick(s) ==
  /\ srv.up /\ sock[s].at = "up" /\ ~Contains(gui, Post(s, "tick"))
  /\ gui' = Append(gui, Post(s, "tick"))
  /\ UNCHANGED <<sel, plug, timers, sock, srv, fol, env>>

Frame(s) ==
  /\ srv.up /\ sock[s].at = "up" /\ sock[s].frames # <<>>
  /\ sock' = [sock EXCEPT ![s].frames = Tail(@)]
  /\ UNCHANGED <<sel, plug, timers, gui, env>>

\* should_handle: "initial_state" is not among --events.
FrameIgnored(s) ==
  /\ Frame(s)
  /\ Head(sock[s].frames).event \notin Followed
  /\ UNCHANGED <<srv, fol>>

Heard(s) ==
  /\ Frame(s)
  /\ Head(sock[s].frames).event \in Followed
  /\ srv' = [srv EXCEPT !.heard = Head(sock[s].frames).dest]

\* switch_to: already followed, or dropped within the debounce.
FrameSkipped(s) ==
  /\ Heard(s)
  /\ fol.dest = Head(sock[s].frames).dest \/ fol.debounce
  /\ UNCHANGED fol

\* switch_to: the destination is loaded, or loading it fails.
FrameSwitches(s) ==
  /\ Heard(s)
  /\ fol.dest # Head(sock[s].frames).dest /\ ~fol.debounce
  /\ \/ fol' = [dest |-> Head(sock[s].frames).dest, debounce |-> TRUE]
     \/ LoadsFail /\ fol' = [fol EXCEPT !.debounce = TRUE]

DebounceOver ==
  /\ fol.debounce
  /\ fol' = [fol EXCEPT !.debounce = FALSE]
  /\ UNCHANGED <<sel, plug, timers, sock, gui, srv, env>>

\* The follower ends: every connection it had or was to accept ends.
Crash ==
  /\ srv.up /\ env.crashes < MaxCrashes
  /\ srv' = [up |-> FALSE, backlog |-> <<>>, heard |-> None]
  /\ fol' = [dest |-> None, debounce |-> FALSE]
  /\ LET lost == {s \in Sockets : sock[s].at \in {"connecting", "up"}} IN
       /\ sock' = [s \in Sockets |->
                     IF s \in lost THEN [at |-> "dead", frames |-> <<>>]
                                   ELSE sock[s]]
       /\ \E order \in SetToSeqs(lost) :
            gui' = gui \o [i \in DOMAIN order |-> Post(order[i], "close")]
  /\ env' = [env EXCEPT !.crashes = @ + 1]
  /\ UNCHANGED <<sel, plug, timers>>

Restart ==
  /\ ~srv.up
  /\ srv' = [srv EXCEPT !.up = TRUE]
  /\ UNCHANGED <<sel, plug, timers, sock, gui, fol, env>>

-----------------------------------------------------------------------------
Callback(s) == OnOpen(s) \/ OnCheck(s) \/ OnTick(s) \/ OnClose(s)

Serve(s) ==
  Accept(s) \/ FrameIgnored(s) \/ FrameSkipped(s) \/ FrameSwitches(s)

Next ==
  \/ \E d \in Dests : Select(d)
  \/ CheckCommand
  \/ \E s \in Sockets :
       \/ ReconnectCommand(s) \/ TimerReconnects(s) \/ Collect(s)
       \/ Callback(s) \/ Serve(s) \/ Tick(s)
  \/ TimerIdle \/ DebounceOver
  \/ Crash \/ Restart

Spec == Init /\ [][Next]_vars

\* The GUI thread runs what is posted, Lua collects what is dropped, the event
\* loop serves every client, and systemd restarts the service
\* (Restart=on-failure).  A retry comes a second after the one before: time and
\* again that is enough for the handshake and its callbacks, hence SF.
Fairness ==
  /\ SF_vars(\E s \in Sockets : Callback(s))
  /\ \A s \in Sockets :
       /\ SF_vars(Accept(s)) /\ WF_vars(Serve(s)) /\ WF_vars(Tick(s))
       /\ WF_vars(Collect(s))
  /\ WF_vars(TimerIdle) /\ WF_vars(\E s \in Sockets : TimerReconnects(s))
  /\ WF_vars(Restart)

FairSpec == Spec /\ Fairness

-----------------------------------------------------------------------------
(* Properties. *)

TypeOK ==
  /\ sel \in Dests
  /\ plug \in [ws : Sockets, connected : BOOLEAN, scheduled : BOOLEAN,
               last : Dests \cup {None}]
  /\ timers \in Nat
  /\ sock \in [Sockets ->
                [at : {"free", "connecting", "up", "dead"},
                 frames : Seq([event : Followed \cup {"initial_state"}, dest : Dests])]]
  /\ gui \in Seq([socket : Sockets,
                  callback : {"open", "check", "tick", "close"}])
  /\ srv \in [up : BOOLEAN, backlog : Seq(Sockets), heard : Dests \cup {None}]
  /\ fol \in [dest : Dests \cup {None}, debounce : BOOLEAN]
  /\ env \in [selects : 0 .. MaxSelects, commands : 0 .. MaxCommands,
              crashes : 0 .. MaxCrashes]

\* A plugin that is not connected has something coming that will make it try
\* again: a timer, or a callback of the socket it waits for.  In particular
\* reconnect_scheduled, which refuses a second timer, is only set while one is
\* to come.
NeverGivesUp ==
  /\ plug.scheduled => timers > 0
  /\ ~plug.connected /\ timers = 0 =>
       \/ sock[plug.ws].at = "connecting"
       \/ Contains(gui, Post(plug.ws, "open"))
       \/ Contains(gui, Post(plug.ws, "close"))

\* While the plugin counts itself connected, what it sends is sent, or the
\* news that the socket it sends on is gone is under way: a late callback of a
\* socket that was replaced does not make it trust a dead one.
SendsGoSomewhere ==
  plug.connected =>
    \/ sock[plug.ws].at \in {"connecting", "up"}
    \/ Contains(gui, Post(plug.ws, "close"))

\* The tab the user stays on is the last the server hears of, through lost
\* connections, restarts and reconnects.
TabIsHeard == \E d \in Dests : <>[](sel = d /\ srv.heard = d)

\* "Follow Chatterino tab changes with Streamlink + persistent mpv": the tab
\* the user stays on is followed in the end.
TabIsFollowed == \E d \in Dests : <>[](sel = d /\ fol.dest = d)
=============================================================================
