----------------------------- MODULE StreamFollow -----------------------------
(***************************************************************************)
(* The Streamlink follower: MpvStreamlinkFollower and ApiStreamWorker of    *)
(* chatterino-streamlink-follow.py, with the methods that                   *)
(* chatterino-streamlink-follow-fixed.py, the script that is installed,     *)
(* puts in their place.  Mode "fifo" and backend "api", the defaults.       *)
(*                                                                         *)
(* The main thread (the event loop; handle_event runs on it synchronously)  *)
(* and the catch-up thread both load streams, under stream_lock.  A load    *)
(* starts a reader: a worker thread that copies the stream into a FIFO of   *)
(* its own, which mpv is told to open.  A reader that is replaced is        *)
(* cancelled at once, and a reaper thread waits for it and unlinks its      *)
(* FIFO.  mpv may die at any point.  Readers are numbered by switch_seq.    *)
(***************************************************************************)
EXTENDS Naturals, FiniteSets

CONSTANTS
  Dests,       \* the stream URLs the events name
  Channels,    \* the channel keys ("rumble" stands for every Rumble URL)
  ChannelOf,   \* the channel key of each URL
  None,        \* no channel, no URL
  Handoff,     \* --handoff
  LeaveMpv,    \* --leave-mpv
  MaxEvents,   \* bound: tab events handled
  MaxReloads,  \* bound: catch-up reloads decided on
  MaxCrashes   \* bound: times mpv dies by itself

ASSUME FollowAssumption ==
  /\ ChannelOf \in [Dests -> Channels]
  /\ None \notin Dests /\ None \notin Channels
  /\ Handoff \in {"single", "overlap"}
  /\ LeaveMpv \in BOOLEAN
  /\ MaxEvents \in Nat /\ MaxReloads \in Nat /\ MaxCrashes \in Nat

VARIABLES
  main,     \* the event loop's thread: where it is, and the event in hand
  catchup,  \* the catch-up thread
  lock,     \* stream_lock: who holds it
  load,     \* the load in progress, which its holder runs
  fol,      \* the follower's fields; `plays' is the URL of api_worker's stream
  reader,   \* the readers, one per FIFO made
  made,     \* switch_seq: how many there were
  mpv,      \* the player: alive, the FIFO to open next, the FIFO it has open
  env       \* what has happened so far, for the bounds

vars == <<main, catchup, lock, load, fol, reader, made, mpv, env>>

\* 0 is no reader.
Readers == 1 .. (MaxEvents + MaxReloads)

Stages == {"none", "starting", "opening", "fifo", "pumping", "dead"}

Unborn == [stage |-> "none", stop |-> FALSE, fifo |-> FALSE, reaping |-> FALSE]

NoLoad == [step |-> "none", ch |-> None, dest |-> None, url |-> None, g |-> 0]

Init ==
  /\ main = [pc |-> "idle", dest |-> None, joined |-> FALSE]
  /\ catchup = "idle"
  /\ lock = "free"
  /\ load = NoLoad
  /\ fol = [channel |-> None, url |-> None, worker |-> 0, plays |-> None,
            urls |-> [c \in Channels |-> None],
            debounce |-> FALSE, cooldown |-> FALSE]
  /\ reader = [g \in Readers |-> Unborn]
  /\ made = 0
  /\ mpv = [up |-> FALSE, pending |-> 0, file |-> 0]
  /\ env = [events |-> 0, reloads |-> 0, crashes |-> 0]

\* The thread of g runs.
Alive(g) == reader[g].stage \in {"starting", "opening", "fifo", "pumping"}

\* g runs and nobody has asked it to stop.
Active(g) == Alive(g) /\ ~reader[g].stop

\* Mutant of Dropped: api_worker cleared to a value nobody tests for.
DroppedToNone == [fol EXCEPT !.worker = None, !.plays = None]

\* The follower lets go of the current reader.
Dropped == [fol EXCEPT !.worker = 0, !.plays = None]

\* Mutant of Cancel: the stop event is set and no reaper is started.
CancelUnreaped(rd, g) ==
  IF g = 0 THEN rd ELSE [rd EXCEPT ![g].stop = TRUE]

\* request_reader_cleanup: set the stop event, leave the rest to a reaper.
Cancel(rd, g) ==
  IF g = 0 THEN rd
           ELSE [rd EXCEPT ![g].stop = TRUE, ![g].reaping = TRUE]

Stopping == main.pc \notin {"idle", "lock", "offlock", "offjoin", "load"}

-----------------------------------------------------------------------------
(* Events, on the main thread. *)

\* handle_event, for a selected destination: the URL of its channel is
\* recorded before the lock is asked for.
Event(d) ==
  /\ main.pc = "idle" /\ env.events < MaxEvents
  /\ main' = [main EXCEPT !.pc = "lock", !.dest = d]
  /\ fol' = [fol EXCEPT !.urls[ChannelOf[d]] = d]
  /\ env' = [env EXCEPT !.events = @ + 1]
  /\ UNCHANGED <<catchup, lock, load, reader, made, mpv>>

\* handle_event, for a Rumble destination that is not live.
OfflineEvent ==
  /\ main.pc = "idle" /\ env.events < MaxEvents
  /\ main' = [main EXCEPT !.pc = "offlock"]
  /\ env' = [env EXCEPT !.events = @ + 1]
  /\ UNCHANGED <<catchup, lock, load, fol, reader, made, mpv>>

\* switch_to: "already following selected destination".
AlreadyFollowing(d) ==
  /\ fol.channel = ChannelOf[d]
  /\ fol.url = d
  /\ fol.worker # 0 /\ Alive(fol.worker)

\* switch_to returns at once: already followed, or within the debounce.
SkipSwitch ==
  /\ main.pc = "lock" /\ lock = "free"
  /\ AlreadyFollowing(main.dest) \/ fol.debounce
  /\ main' = [main EXCEPT !.pc = "idle", !.dest = None]
  /\ UNCHANGED <<catchup, lock, load, fol, reader, made, mpv, env>>

BeginSwitch ==
  /\ main.pc = "lock" /\ lock = "free"
  /\ ~AlreadyFollowing(main.dest) /\ ~fol.debounce
  /\ lock' = "main"
  /\ load' = [NoLoad EXCEPT !.step = "resolve", !.dest = main.dest,
                            !.ch = ChannelOf[main.dest]]
  /\ fol' = [fol EXCEPT !.debounce = TRUE]
  /\ main' = [main EXCEPT !.pc = "load", !.dest = None]
  /\ UNCHANGED <<catchup, reader, made, mpv, env>>

\* stop_for_unavailable, when nothing is followed.
OfflineIgnored ==
  /\ main.pc = "offlock" /\ lock = "free"
  /\ fol.channel = None
  /\ main' = [main EXCEPT !.pc = "idle"]
  /\ UNCHANGED <<catchup, lock, load, fol, reader, made, mpv, env>>

\* stop_for_unavailable up to the join in stop_current_stream.
OfflineStop ==
  /\ main.pc = "offlock" /\ lock = "free"
  /\ fol.channel # None
  /\ lock' = "main"
  /\ reader' = Cancel(reader, fol.worker)
  /\ fol' = Dropped
  /\ main' = [main EXCEPT !.pc = "offjoin"]
  /\ UNCHANGED <<catchup, load, made, mpv, env>>

\* The rest of it, once the old reader is reaped or the join timed out.  The
\* "stop" sent to mpv may fail, and the failure is ignored.
OfflineDone ==
  /\ main.pc = "offjoin"
  /\ mpv' \in {mpv, [mpv EXCEPT !.pending = 0, !.file = 0]}
  /\ fol' = [fol EXCEPT !.channel = None, !.url = None, !.cooldown = FALSE]
  /\ lock' = "free"
  /\ main' = [main EXCEPT !.pc = "idle"]
  /\ UNCHANGED <<catchup, load, reader, made, env>>

\* time.monotonic() passes last_switch_at + debounce.
DebounceOver ==
  /\ fol.debounce
  /\ fol' = [fol EXCEPT !.debounce = FALSE]
  /\ UNCHANGED <<main, catchup, lock, load, reader, made, mpv, env>>

CooldownOver ==
  /\ fol.cooldown
  /\ fol' = [fol EXCEPT !.cooldown = FALSE]
  /\ UNCHANGED <<main, catchup, lock, load, reader, made, mpv, env>>

-----------------------------------------------------------------------------
(* The catch-up thread. *)

\* catchup_once finds too much lag.  It holds no lock, and what it measured
\* may be replaced before it has one.
CatchupDecide ==
  /\ catchup = "idle" /\ ~Stopping
  /\ mpv.up /\ env.reloads < MaxReloads
  /\ catchup' = "decided"
  /\ env' = [env EXCEPT !.reloads = @ + 1]
  /\ UNCHANGED <<main, lock, load, fol, reader, made, mpv>>

\* reload_current_stream_for_catchup: nothing followed, or in the cool-down.
CatchupSkip ==
  /\ catchup = "decided" /\ lock = "free"
  /\ fol.channel = None \/ fol.cooldown
  /\ catchup' = "idle"
  /\ UNCHANGED <<main, lock, load, fol, reader, made, mpv, env>>

\* Mutant of CatchupBegin: current_channel is not looked at again under the lock.
CatchupBeginUnchecked ==
  /\ catchup = "decided" /\ lock = "free" /\ ~fol.cooldown
  /\ lock' = "catchup"
  /\ load' = [NoLoad EXCEPT !.step = "resolve", !.ch = fol.channel]
  /\ fol' = [fol EXCEPT !.cooldown = TRUE]
  /\ catchup' = "load"
  /\ UNCHANGED <<main, reader, made, mpv, env>>

CatchupBegin ==
  /\ catchup = "decided" /\ lock = "free"
  /\ fol.channel # None /\ ~fol.cooldown
  /\ lock' = "catchup"
  /\ load' = [NoLoad EXCEPT !.step = "resolve", !.ch = fol.channel]
  /\ fol' = [fol EXCEPT !.cooldown = TRUE]
  /\ catchup' = "load"
  /\ UNCHANGED <<main, reader, made, mpv, env>>

\* catchup_loop sees catchup_stop_event.
CatchupGone ==
  /\ catchup = "idle" /\ Stopping
  /\ catchup' = "gone"
  /\ UNCHANGED <<main, lock, load, fol, reader, made, mpv, env>>

-----------------------------------------------------------------------------
(* load_fifo_mode, by whoever holds the lock. *)

\* The holder goes back to its loop; with Release, it leaves the lock.
Return ==
  /\ load' = NoLoad
  /\ main' = IF lock = "main" THEN [main EXCEPT !.pc = "idle"] ELSE main
  /\ catchup' = IF lock = "catchup" THEN "idle" ELSE catchup

Release == lock' = "free" /\ Return

\* api_stream resolves the URL last recorded for the channel.
LoadResolve ==
  /\ load.step = "resolve"
  /\ load' = [load EXCEPT !.step = "player", !.url = fol.urls[load.ch]]
  /\ UNCHANGED <<main, catchup, lock, fol, reader, made, mpv, env>>

\* Mutant of ResolveFails: an early return leaves stream_lock held.
ResolveFailsHolding ==
  /\ load.step = "resolve"
  /\ Return
  /\ UNCHANGED <<lock, fol, reader, made, mpv, env>>

\* Rejected, offline, or no such quality: nothing has changed yet.
ResolveFails ==
  /\ load.step = "resolve"
  /\ Release
  /\ UNCHANGED <<fol, reader, made, mpv, env>>

Fresh == [up |-> TRUE, pending |-> 0, file |-> 0]

\* ensure_mpv: the player runs and its socket is there, or a new one is started
\* and answers.
LoadPlayer ==
  /\ load.step = "player"
  /\ load' = [load EXCEPT !.step = "reader"]
  /\ \/ mpv' = Fresh
     \/ mpv.up /\ UNCHANGED mpv
  /\ UNCHANGED <<main, catchup, lock, fol, reader, made, env>>

\* wait_for_ipc gives up on the new one: it exited, or has not answered in time.
PlayerFails ==
  /\ load.step = "player"
  /\ \E up \in BOOLEAN : mpv' = [Fresh EXCEPT !.up = up]
  /\ Release
  /\ UNCHANGED <<fol, reader, made, env>>

\* The fields and the readers once handoff "single" has let go of the old one.
OldDropped ==
  IF Handoff = "single" THEN Dropped ELSE fol

\* Mutant of OldCancelled: "single" forgets the old reader instead of cancelling it.
OldForgotten == reader

OldCancelled ==
  IF Handoff = "single" THEN Cancel(reader, fol.worker) ELSE reader

\* make_fifo, and the new worker starts.
LoadReader ==
  /\ load.step = "reader"
  /\ made' = made + 1
  /\ fol' = OldDropped
  /\ reader' = [OldCancelled EXCEPT
                  ![made + 1] = [Unborn EXCEPT !.stage = "starting",
                                               !.fifo = TRUE]]
  /\ load' = [load EXCEPT !.step = "file", !.g = made + 1]
  /\ UNCHANGED <<main, catchup, lock, mpv, env>>

\* make_fifo raises.  The old reader is already cancelled.
FifoFails ==
  /\ load.step = "reader"
  /\ fol' = OldDropped
  /\ reader' = OldCancelled
  /\ Release
  /\ UNCHANGED <<made, mpv, env>>

\* mpv_loadfile_replace: mpv closes what it plays and will open the new FIFO.
LoadFile ==
  /\ load.step = "file" /\ mpv.up
  /\ mpv' = [mpv EXCEPT !.pending = load.g, !.file = 0]
  /\ load' = [load EXCEPT !.step = "commit"]
  /\ UNCHANGED <<main, catchup, lock, fol, reader, made, env>>

\* Mutant of FileFails: the new reader is left running when mpv refuses its FIFO.
FileFailsLeaking ==
  /\ load.step = "file"
  /\ Release
  /\ UNCHANGED <<fol, reader, made, mpv, env>>

\* Mutant of FileFails: the failure is swallowed and the handoff recorded as done.
FileFailsSwallowed ==
  /\ load.step = "file"
  /\ fol' = [fol EXCEPT !.worker = load.g, !.plays = load.url,
                        !.channel = load.ch]
  /\ Release
  /\ UNCHANGED <<reader, made, mpv, env>>

\* The IPC call raises: the new reader is cancelled.
FileFails ==
  /\ load.step = "file"
  /\ reader' = Cancel(reader, load.g)
  /\ Release
  /\ UNCHANGED <<fol, made, mpv, env>>

\* Mutant of LoadCommit: the caller does not record the channel it switched to.
CommitUnrecorded ==
  /\ load.step = "commit"
  /\ reader' = IF Handoff = "overlap" THEN Cancel(reader, fol.worker)
                                      ELSE reader
  /\ fol' = [fol EXCEPT !.worker = load.g, !.plays = load.url]
  /\ Release
  /\ UNCHANGED <<made, mpv, env>>

\* The new reader becomes the current one, "overlap" cancels the old one, and
\* the caller records what it now follows.
LoadCommit ==
  /\ load.step = "commit"
  /\ reader' = IF Handoff = "overlap" THEN Cancel(reader, fol.worker)
                                      ELSE reader
  /\ fol' = IF lock = "main"
            THEN [fol EXCEPT !.worker = load.g, !.plays = load.url,
                             !.channel = load.ch, !.url = load.dest,
                             !.cooldown = FALSE]
            ELSE [fol EXCEPT !.worker = load.g, !.plays = load.url,
                             !.channel = load.ch]
  /\ Release
  /\ UNCHANGED <<made, mpv, env>>

-----------------------------------------------------------------------------
(* ApiStreamWorker.run, the reapers, and mpv. *)

Becomes(g, stage) == reader' = [reader EXCEPT ![g].stage = stage]

OthersUnchanged == UNCHANGED <<main, catchup, lock, load, fol, made, mpv, env>>

\* The stop event is looked at before the stream is opened, not after.
WorkerChecks(g) ==
  /\ reader[g].stage = "starting"
  /\ Becomes(g, IF reader[g].stop THEN "dead" ELSE "opening")
  /\ OthersUnchanged

\* stream.open() returns and open(fifo, "wb") blocks until mpv opens it too.
WorkerOpens(g) ==
  /\ reader[g].stage = "opening"
  /\ Becomes(g, "fifo")
  /\ OthersUnchanged

\* stream.open() raises.
WorkerFails(g) ==
  /\ reader[g].stage = "opening"
  /\ Becomes(g, "dead")
  /\ OthersUnchanged

\* The copying loop ends: stop event, closed source, or broken pipe ...
WorkerMustEnd(g) ==
  /\ reader[g].stage = "pumping"
  /\ reader[g].stop \/ mpv.file # g
  /\ Becomes(g, "dead")
  /\ OthersUnchanged

\* ... or the end of the stream.
WorkerEnds(g) ==
  /\ reader[g].stage = "pumping"
  /\ Becomes(g, "dead")
  /\ OthersUnchanged

\* The reap thread of request_reader_cleanup: joins the worker, however long
\* it takes, and unlinks the FIFO.
Reap(g) ==
  /\ reader[g].reaping /\ reader[g].stage = "dead"
  /\ reader' = [reader EXCEPT ![g].fifo = FALSE, ![g].reaping = FALSE]
  /\ OthersUnchanged

\* mpv and the worker meet at the FIFO.
MpvOpens(g) ==
  /\ mpv.up /\ mpv.pending = g /\ reader[g].stage = "fifo"
  /\ mpv' = [mpv EXCEPT !.pending = 0, !.file = g]
  /\ Becomes(g, "pumping")
  /\ UNCHANGED <<main, catchup, lock, load, fol, made, env>>

\* The FIFO was unlinked before mpv came to it.
MpvMisses(g) ==
  /\ mpv.up /\ mpv.pending = g /\ ~reader[g].fifo
  /\ mpv' = [mpv EXCEPT !.pending = 0]
  /\ UNCHANGED <<main, catchup, lock, load, fol, reader, made, env>>

\* The writer is gone: mpv reads end of file and goes idle.
MpvEnds(g) ==
  /\ mpv.up /\ mpv.file = g /\ reader[g].stage = "dead"
  /\ mpv' = [mpv EXCEPT !.file = 0]
  /\ UNCHANGED <<main, catchup, lock, load, fol, reader, made, env>>

\* The user closes the player, or it crashes.
MpvDies ==
  /\ mpv.up /\ env.crashes < MaxCrashes
  /\ mpv' = [Fresh EXCEPT !.up = FALSE]
  /\ env' = [env EXCEPT !.crashes = @ + 1]
  /\ UNCHANGED <<main, catchup, lock, load, fol, reader, made>>

-----------------------------------------------------------------------------
(* shutdown(). *)

\* amain leaves its loop: catchup_stop_event is set.
SigTerm ==
  /\ main.pc = "idle"
  /\ main' = [main EXCEPT !.pc = "join"]
  /\ UNCHANGED <<catchup, lock, load, fol, reader, made, mpv, env>>

\* stop_catchup_loop joins the thread, for one second.
JoinCatchup ==
  /\ main.pc = "join"
  /\ main' = [main EXCEPT !.pc = "downlock", !.joined = (catchup = "gone")]
  /\ UNCHANGED <<catchup, lock, load, fol, reader, made, mpv, env>>

\* Mutant of ShutdownStop: shutdown leaves the reader to end with the process.
ShutdownUncancelled ==
  /\ main.pc = "downlock" /\ lock = "free"
  /\ lock' = "main"
  /\ main' = [main EXCEPT !.pc = "downjoin"]
  /\ UNCHANGED <<catchup, load, fol, reader, made, mpv, env>>

\* stop_current_stream, under the lock, up to its join.
ShutdownStop ==
  /\ main.pc = "downlock" /\ lock = "free"
  /\ lock' = "main"
  /\ reader' = Cancel(reader, fol.worker)
  /\ fol' = Dropped
  /\ main' = [main EXCEPT !.pc = "downjoin"]
  /\ UNCHANGED <<catchup, load, made, mpv, env>>

\* shutdown_mpv.
ShutdownPlayer ==
  /\ main.pc = "downjoin"
  /\ mpv' = IF LeaveMpv THEN mpv ELSE [Fresh EXCEPT !.up = FALSE]
  /\ lock' = "free"
  /\ main' = [main EXCEPT !.pc = "drain"]
  /\ UNCHANGED <<catchup, load, fol, reader, made, env>>

\* wait_for_cleanup_threads returns or times out, and the process exits: its
\* threads, all daemons, end where they are.  FIFOs and mpv outlive it.
Exit ==
  /\ main.pc = "drain"
  /\ main' = [main EXCEPT !.pc = "exited"]
  /\ catchup' = "gone" /\ lock' = "free" /\ load' = NoLoad
  /\ reader' = [g \in Readers |->
                  IF Alive(g)
                  THEN [reader[g] EXCEPT !.stage = "dead", !.reaping = FALSE]
                  ELSE [reader[g] EXCEPT !.reaping = FALSE]]
  /\ UNCHANGED <<fol, made, mpv, env>>

-----------------------------------------------------------------------------
MainStep ==
  \/ SkipSwitch \/ BeginSwitch
  \/ OfflineIgnored \/ OfflineStop \/ OfflineDone
  \/ JoinCatchup \/ ShutdownStop \/ ShutdownPlayer \/ Exit

LoadStep ==
  \/ LoadResolve \/ ResolveFails
  \/ LoadPlayer \/ PlayerFails
  \/ LoadReader \/ FifoFails
  \/ LoadFile \/ FileFails
  \/ LoadCommit

CatchupStep == CatchupSkip \/ CatchupBegin \/ CatchupGone

WorkerStep(g) ==
  \/ WorkerChecks(g) \/ WorkerOpens(g) \/ WorkerFails(g)
  \/ WorkerMustEnd(g) \/ WorkerEnds(g) \/ Reap(g)

MpvStep(g) == MpvOpens(g) \/ MpvMisses(g) \/ MpvEnds(g)

Next ==
  \/ \E d \in Dests : Event(d)
  \/ OfflineEvent \/ SigTerm
  \/ DebounceOver \/ CooldownOver
  \/ MainStep
  \/ CatchupDecide \/ CatchupStep
  \/ LoadStep
  \/ \E g \in Readers : WorkerStep(g) \/ MpvStep(g)
  \/ MpvDies

Spec == Init /\ [][Next]_vars

\* A thread that can run does; Streamlink's requests have timeouts; mpv takes
\* up what it is told and drains what it plays.  Streams need not end.
Fairness ==
  /\ WF_vars(MainStep) /\ WF_vars(LoadStep) /\ WF_vars(CatchupStep)
  /\ \A g \in Readers :
       /\ WF_vars(WorkerChecks(g)) /\ WF_vars(WorkerOpens(g) \/ WorkerFails(g))
       /\ WF_vars(WorkerMustEnd(g)) /\ WF_vars(Reap(g))
       /\ WF_vars(MpvStep(g))

FairSpec == Spec /\ Fairness

-----------------------------------------------------------------------------
(* Properties. *)

TypeOK ==
  /\ main \in [pc : {"idle", "lock", "offlock", "offjoin", "load", "join",
                     "downlock", "downjoin", "drain", "exited"},
               dest : Dests \cup {None}, joined : BOOLEAN]
  /\ catchup \in {"idle", "decided", "load", "gone"}
  /\ lock \in {"free", "main", "catchup"}
  /\ load \in [step : {"none", "resolve", "player", "reader", "file", "commit"},
               ch : Channels \cup {None}, dest : Dests \cup {None},
               url : Dests \cup {None}, g : Readers \cup {0}]
  /\ fol \in [channel : Channels \cup {None}, url : Dests \cup {None},
              worker : Readers \cup {0}, plays : Dests \cup {None},
              urls : [Channels -> Dests \cup {None}],
              debounce : BOOLEAN, cooldown : BOOLEAN]
  /\ reader \in [Readers -> [stage : Stages, stop : BOOLEAN, fifo : BOOLEAN,
                             reaping : BOOLEAN]]
  /\ made \in 0 .. (MaxEvents + MaxReloads)
  /\ mpv \in [up : BOOLEAN, pending : Readers \cup {0}, file : Readers \cup {0}]
  /\ env \in [events : 0 .. MaxEvents, reloads : 0 .. MaxReloads,
              crashes : 0 .. MaxCrashes]

\* g is the current reader, or the one a load in progress has started.
Held(g) == g = fol.worker \/ (load.step \in {"file", "commit"} /\ g = load.g)

\* Whatever fails and whichever thread loads, a reader that nobody has
\* cancelled is one the follower still holds: load_fifo_mode, stop_current_stream
\* and the failure paths between them never lose one.
NoOrphanReader == \A g \in Readers : Active(g) => Held(g)

\* A FIFO on disk belongs to a reader the follower holds, or has a reaper that
\* will unlink it: no path drops current_fifo without request_reader_cleanup.
FifoTracked ==
  main.pc # "exited" =>
    \A g \in Readers : reader[g].fifo => Held(g) \/ reader[g].reaping

\* Between loads, the player is on the current reader's FIFO, or on its way to
\* it, or idle; it never plays another while api_worker names this one.
PlayerOnCurrent ==
  lock = "free" /\ fol.worker # 0 =>
    \/ mpv.pending = fol.worker
    \/ mpv.pending = 0 /\ mpv.file \in {fol.worker, 0}

\* Between loads, the current reader reads the channel recorded as followed,
\* though a catch-up reload reads current_channel and _channel_urls at two
\* different points of an event's handling.
ReaderOnChannel ==
  lock = "free" /\ fol.worker # 0 =>
    /\ fol.channel # None
    /\ ChannelOf[fol.plays] = fol.channel

\* "does not re-run Streamlink until a later confirmed-live event"
\* (rumble-protocol.md): a catch-up reload decided on before the destination
\* went offline, or before a switch, reloads what is followed now or nothing.
CatchupFollows ==
  lock = "catchup" => fol.channel # None /\ load.ch = fol.channel

\* A shutdown that joined the catch-up thread leaves no reader uncancelled and
\* no player behind.
CleanShutdown ==
  main.pc \in {"drain", "exited"} /\ main.joined =>
    /\ fol.worker = 0 /\ \A g \in Readers : ~Active(g)
    /\ LeaveMpv \/ ~mpv.up

Promise == INSTANCE ReaderHandoff WITH
  Limit <- IF Handoff = "single" THEN 1 ELSE 2,
  started <- made,
  active <- {g \in Readers : Active(g)}

\* "single cancels old after resolve; overlap starts the selected reader
\* first, then immediately cancels old" (--handoff): seen from outside, the
\* follower's readers are those of ReaderHandoff.
HandoffKept == Promise!Spec

\* The event loop always gets out of handle_event and of shutdown.
LoopComesBack ==
  main.pc \notin {"idle", "exited"} ~> main.pc \in {"idle", "exited"}

\* A cancelled reader whose FIFO mpv has opened ends, and its FIFO goes.
OpenedReaped ==
  \A g \in Readers :
    reader[g].stop /\ reader[g].stage = "pumping"
      ~> ~reader[g].fifo \/ main.pc = "exited"

\* test_rapid_hls_switches_cancel_and_reap_every_stale_generation: every
\* cancelled reader ends and its FIFO is unlinked.
StaleReaped ==
  \A g \in Readers :
    reader[g].stop ~> (~Alive(g) /\ ~reader[g].fifo) \/ main.pc = "exited"

\* --leave-mpv, "do not close mpv when this controller exits", is what it takes
\* for the player to outlive the controller.
PlayerClosed == main.pc = "exited" /\ ~LeaveMpv => ~mpv.up

\* "already following selected destination": when switch_to says so, the
\* current reader reads that destination.
AlreadyFollowingTrue ==
  \A d \in Dests :
    main.pc = "lock" /\ main.dest = d /\ lock = "free" /\ AlreadyFollowing(d)
      => fol.plays = d
=============================================================================
