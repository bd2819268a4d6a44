-------------------------- MODULE RumbleConnection --------------------------
(***************************************************************************)
(* One Rumble channel and the connection that feeds it:                    *)
(* providers/rumble/RumbleConnection.cpp (State) and the lifecycle part of *)
(* providers/rumble/RumbleChannel.cpp.                                     *)
(*                                                                         *)
(* Every handler runs on the owner thread, but not atomically: each        *)
(* publication on the channel emits signals, an observer of which may call *)
(* back into the connection before the handler goes on.  A handler is      *)
(* therefore cut at its publications, and `frame' is the suspended rest of *)
(* it.  Other threads move the atomics (callbackGate, stopRequested,       *)
(* requestedEpoch, closing_) at any point and queue tasks for the owner.   *)
(*                                                                         *)
(* A callback captures lifecycleGeneration, requestGeneration (and, for a  *)
(* timer, timerGeneration) when it is created.  The counters only grow, so *)
(* a captured value that stopped being the current one never is again: the *)
(* model keeps the outcome of the comparison, in the fields l, r and t of  *)
(* each holder, and an increment clears that field of every holder.        *)
(***************************************************************************)
EXTENDS Naturals, Sequences, FiniteSets

CONSTANTS
  MaxFailures,    \* options.maximumConsecutiveFailures
  Locators,       \* the public locators an explicit restart may name
  Same,           \* the null locator of retry(): keep the one in use
  InheritedStates,\* what an earlier, retired connection may have left visible
  ReentrantAt,    \* the publications whose observers call the connection back
  OffOwnerCalls,  \* do other threads than the owner call?
  SchedulerFails, \* may RumbleScheduler throw or return no task?
  DispatchFails,  \* may RumbleDispatcher::dispatch refuse a task?
  LateTimers,     \* may a cancelled timer still fire?
  MaxBatch,       \* bound: provider events in one stream batch
  MaxCalls        \* bound: calls of the application during one behaviour

States == {"Unresolved", "Offline", "Connecting", "Connected", "Backoff",
           "Failed", "Closed"}

ASSUME ConnectionAssumption ==
  /\ MaxFailures \in Nat \ {0}
  /\ Same \notin Locators /\ Locators # {}
  /\ InheritedStates \subseteq States \ {"Closed"}
  /\ {OffOwnerCalls, SchedulerFails, DispatchFails, LateTimers} \subseteq BOOLEAN
  /\ MaxBatch \in Nat \ {0} /\ MaxCalls \in Nat

VARIABLES
  chan,   \* the channel: lifecycle snapshot, confirmedLive_, closing_, delegate
  ctl,    \* the connection's atomics, which every thread reads and writes
  conn,   \* the connection's owner-thread fields
  op,     \* apiOperation: the request in flight
  timer,  \* timer: the scheduled task held
  late,   \* cancelled timers that may fire all the same
  queue,  \* the owner's dispatcher queue, oldest first
  frame,  \* the suspended owner handler, or Idle
  env,    \* calls made so far, and the progress of another thread's close()
  hist    \* histories the properties use: attempts failed in a row since the
          \* last init, and the last locator asked for

vars == <<chan, ctl, conn, op, timer, late, queue, frame, env, hist>>

-----------------------------------------------------------------------------
(* Channel: RumbleChannel.cpp                                              *)

Meta(n, cause, due) == [failures |-> n, cause |-> cause, due |-> due]
Clean == Meta(0, "none", FALSE)

transitionAllowed ==
  [Unresolved |-> {"Offline", "Connecting", "Backoff", "Failed", "Closed"},
   Offline    |-> {"Unresolved", "Closed"},
   Connecting |-> {"Connected", "Offline", "Backoff", "Failed", "Closed"},
   Connected  |-> {"Offline", "Backoff", "Closed"},
   Backoff    |-> {"Unresolved", "Connecting", "Failed", "Closed"},
   Failed     |-> {"Unresolved", "Closed"},
   Closed     |-> {}]

commitLifecycleOwner(s, m) ==
  [chan EXCEPT !.state = s, !.meta = m,
               !.live = (s = "Connected") \/ (@ /\ s # "Offline")]

\* Mutant of closeOwner: the reconnect delegate outlives the close.
closeOwnerKeepingDelegate(c) ==
  [c EXCEPT !.state = "Closed", !.meta = Clean, !.live = FALSE, !.closing = TRUE]

closeOwner(c) ==
  [c EXCEPT !.state = "Closed", !.meta = Clean, !.live = FALSE,
            !.closing = TRUE, !.delegate = FALSE]

NoOp    == [kind |-> "none", l |-> FALSE, r |-> FALSE]
NoTimer == [kind |-> "none", l |-> FALSE, r |-> FALSE, t |-> FALSE]
Idle    == [at |-> "idle", l |-> FALSE, r |-> FALSE, signal |-> "none",
            state |-> "Unresolved", meta |-> Clean, then |-> "none",
            rest |-> <<>>]

\* A task of the dispatcher queue; only the fields its kind uses matter.
Task(kind) == [kind |-> kind, epoch |-> 0, locator |-> Same, close |-> FALSE,
               l |-> FALSE, r |-> FALSE]

-----------------------------------------------------------------------------
(* Generations                                                             *)

\* Mutant of current: a stop is seen only once the owner has carried it out.
currentThoughStopping(l, r) ==
  /\ ~conn.stopped /\ l /\ r
  /\ conn.activeEpoch = ctl.requestedEpoch

\* Mutant of current: a retry accepted on another thread is not looked for.
currentThoughOvertaken(l, r) ==
  ctl.gate /\ ~ctl.stopRequested /\ ~conn.stopped /\ l /\ r

current(l, r) ==
  /\ ctl.gate /\ ~ctl.stopRequested /\ ~conn.stopped
  /\ l /\ r
  /\ conn.activeEpoch = ctl.requestedEpoch

currentTimer(tm) == current(tm.l, tm.r) /\ tm.t

RequestBumped(x) == [x EXCEPT !.r = FALSE]
Inert(x)         == [x EXCEPT !.l = FALSE, !.r = FALSE]
InertTimer(x)    == [x EXCEPT !.l = FALSE, !.r = FALSE, !.t = FALSE]
BumpedQueue(q)   == [i \in DOMAIN q |-> RequestBumped(q[i])]
InertQueue(q)    == [i \in DOMAIN q |-> Inert(q[i])]

\* ++requestGeneration, with tm as the timer left by the rest of the step.
BumpRequest(tm, q) ==
  /\ timer' = RequestBumped(tm)
  /\ late' = {RequestBumped(x) : x \in late}
  /\ queue' = BumpedQueue(q)

\* A cancelled timer, if it is kept at all, is one that may still fire.
Cancelled(tm) == IF LateTimers /\ tm # NoTimer THEN {tm} ELSE {}

\* Mutant of invalidateOwner: it cancels, and leaves the generations alone.
cancelOwner(tm, q, posted) ==
  /\ op' = NoOp
  /\ timer' = tm
  /\ late' = late \cup Cancelled(timer)
  /\ queue' = q \o posted
  /\ frame' = frame

\* invalidateOwner, with tm as the timer and posted as the tasks that the rest of
\* the step installs and posts.
invalidateOwner(tm, q, posted) ==
  /\ op' = NoOp
  /\ timer' = tm
  /\ late' = {InertTimer(x) : x \in late \cup Cancelled(timer)}
  /\ queue' = InertQueue(q) \o posted
  /\ frame' = Inert(frame)

Fresh(kind) == [kind |-> kind, l |-> TRUE, r |-> TRUE, t |-> TRUE]

-----------------------------------------------------------------------------
(* Publications.  The token is current exactly while the channel is not    *)
(* closing, since this connection is the channel's only one.               *)

\* publishLifecycle up to the signals; the handler goes on in a later step.
PublishLifecycle(at, s, m, then, rest) ==
  LET accepted == ~chan.closing
                  /\ (s # chan.state => s \in transitionAllowed[chan.state])
      emits    == accepted /\ (s # chan.state \/ m # chan.meta)
  IN /\ chan' = IF accepted THEN commitLifecycleOwner(s, m) ELSE chan
     /\ frame' = [at |-> at, l |-> TRUE, r |-> TRUE, state |-> s, meta |-> m,
                  signal |-> IF emits THEN "state" ELSE "none",
                  then |-> then, rest |-> rest]

\* publishMetadata, publishEmoteCatalog and the message publications.
PublishData(at, rest) ==
  /\ chan' = chan
  /\ frame' = [Idle EXCEPT !.at = at, !.l = TRUE, !.r = TRUE, !.rest = rest,
                           !.signal = IF chan.closing THEN "none" ELSE "data"]

\* The handler reaches its end, or returns early, without publishing again.
Done == chan' = chan /\ frame' = Idle

Suspended(at) == frame.at = at /\ frame.signal # "state"
StillCurrent(at) == Suspended(at) /\ current(frame.l, frame.r)
\* Mutant of Published: the handler trusts that nobody called back meanwhile.
PublishedUnchecked(at) ==
  /\ Suspended(at) /\ chan.state = frame.state /\ chan.meta = frame.meta

\* publishLifecycle returned true: still current, and this very snapshot shows.
Published(at) ==
  /\ StillCurrent(at)
  /\ chan.state = frame.state /\ chan.meta = frame.meta

-----------------------------------------------------------------------------
(* The handlers' common parts                                              *)

publishFailed(m) ==
  CASE chan.state = "Connected" ->
         PublishLifecycle("failStage", "Backoff", m, "none", <<>>)
    [] chan.state = "Offline" ->
         PublishLifecycle("failStage", "Unresolved", m, "none", <<>>)
    [] OTHER -> PublishLifecycle("failed", "Failed", m, "none", <<>>)

failInternal(n) == publishFailed(Meta(n, "failure", FALSE))

\* handleFailure: n failures so far, then this one.  target is the retry's.
handleFailure(n, retryable, target) ==
  \/ /\ retryable /\ n + 1 < MaxFailures
     /\ PublishLifecycle("backoff", "Backoff", Meta(n + 1, "failure", TRUE),
                         target, <<>>)
  \/ /\ ~retryable \/ n + 1 >= MaxFailures \/ SchedulerFails
     /\ failInternal(n + 1)

\* installRetryTimer(kind) on the owner thread, of a current handler.
InstallTimer(kind) ==
  /\ timer' = Fresh(kind)
  /\ late' = {[x EXCEPT !.t = FALSE] : x \in late \cup Cancelled(timer)}

\* Mutant of enterOffline: the recheck is forgotten.
enterOfflineForGood(n) ==
  /\ PublishLifecycle("offline", "Offline", Meta(0, "none", TRUE), "none", <<>>)
  /\ UNCHANGED <<timer, late>>

\* enterOffline, with n failures counted when the timer cannot be installed.
enterOffline(n) ==
  \/ /\ InstallTimer("resolve")
     /\ PublishLifecycle("offline", "Offline", Meta(0, "none", TRUE),
                         "none", <<>>)
  \/ /\ SchedulerFails
     /\ failInternal(n)
     /\ UNCHANGED <<timer, late>>

mayBegin(l) == ~ctl.stopRequested /\ ctl.gate /\ ~conn.stopped /\ l

Keep(tm, q) == timer' = tm /\ late' = late /\ queue' = q

\* beginResolve up to its publication; n is consecutiveFailures, tm the timer
\* left by the step that calls it, l whether that step's lifecycle is current.
beginResolve(l, n, tm, q) ==
  IF ~mayBegin(l)
  THEN Done /\ Keep(tm, q)
  ELSE /\ BumpRequest(tm, q)
       /\ IF chan.state \in {"Connected", "Connecting"}
          THEN PublishLifecycle("interrupt", "Backoff", Meta(n, "cancelled", FALSE),
                                "none", <<>>)
          ELSE PublishLifecycle("unresolved", "Unresolved", Meta(n, "none", FALSE),
                                "none", <<>>)

\* beginEmoteCatalog up to the publication of the empty catalog.
beginEmoteCatalog(l) ==
  IF mayBegin(l) THEN PublishData("cleared", <<>>) ELSE Done

\* What follows normalizeExplicitRetry: the resolution of an explicit retry, or
\* the failure deferRetryScheduleFailure reports.
AfterNormalized(then, tm, q) ==
  IF then = "resolve"
  THEN beginResolve(TRUE, conn.failures, tm, q)
  ELSE failInternal(conn.failures) /\ Keep(tm, q)

normalizeExplicitRetry(l, r, then, tm, q) ==
  IF ~current(l, r) \/ chan.state = "Closed"
  THEN Done /\ Keep(tm, q)
  ELSE CASE chan.state \in {"Connected", "Connecting"} ->
              /\ PublishLifecycle("normBackoff", "Backoff",
                                  Meta(0, "cancelled", FALSE), then, <<>>)
              /\ Keep(tm, q)
         [] chan.state \in {"Offline", "Backoff", "Failed"} ->
              /\ PublishLifecycle("normUnresolved", "Unresolved", Clean, then, <<>>)
              /\ Keep(tm, q)
         [] OTHER -> AfterNormalized(then, tm, q)

-----------------------------------------------------------------------------
(* start()                                                                 *)

OwnerFree == frame = Idle

\* beginOperation and attachOperation: from here on close() reaches requestStop.
StartAttach ==
  /\ OwnerFree
  /\ ~ctl.stopRequested /\ ~conn.started /\ ~conn.stopped /\ ~chan.closing
  /\ conn' = [conn EXCEPT !.started = TRUE]
  /\ frame' = [Idle EXCEPT !.at = "attached"]
  /\ UNCHANGED <<chan, ctl, op, timer, late, queue, env, hist>>

StartGate ==
  /\ frame.at = "attached"
  /\ ctl' = [ctl EXCEPT !.gate = TRUE]
  /\ frame' = [Idle EXCEPT !.at = "gated"]
  /\ UNCHANGED <<chan, conn, op, timer, late, queue, env, hist>>

StartDelegate ==
  /\ frame.at = "gated"
  /\ IF ctl.stopRequested
     THEN /\ ctl' = [ctl EXCEPT !.gate = FALSE]
          /\ frame' = Idle
          /\ UNCHANGED <<chan, conn>>
     ELSE IF chan.closing
     THEN /\ ctl' = [ctl EXCEPT !.gate = FALSE]
          /\ conn' = [conn EXCEPT !.activeEpoch = ctl.requestedEpoch, !.stopped = TRUE]
          /\ frame' = Idle
          /\ UNCHANGED chan
     ELSE /\ conn' = [conn EXCEPT !.activeEpoch = ctl.requestedEpoch]
          /\ chan' = [chan EXCEPT !.delegate = TRUE]
          /\ frame' = [Idle EXCEPT !.at = "delegate", !.l = TRUE, !.signal = "data"]
          /\ UNCHANGED ctl
  /\ UNCHANGED <<op, timer, late, queue, env, hist>>

\* ++lifecycleGeneration: nothing was captured before it.
StartResolve ==
  /\ frame.at = "delegate"
  /\ IF conn.stopped \/ ~frame.l \/ conn.activeEpoch # ctl.requestedEpoch
     THEN Done /\ Keep(timer, queue)
     ELSE beginResolve(TRUE, 0, timer, queue)
  /\ UNCHANGED <<ctl, conn, op, env, hist>>

-----------------------------------------------------------------------------
(* Explicit retry, restart and stop.  In these operators a, c, q and h are *)
(* the atomics, the owner-thread fields, the queue and the histories that  *)
(* the calling step leaves.                                                *)

\* Mutant of stopOwner: the request and the timer are left to themselves.
stopOwnerUncancelled(close, a, c, q) ==
  /\ ctl' = [a EXCEPT !.stopRequested = TRUE, !.gate = FALSE]
  /\ conn' = [c EXCEPT !.stopped = TRUE]
  /\ chan' = IF close THEN closeOwner(chan) ELSE [chan EXCEPT !.delegate = FALSE]
  /\ queue' = q
  /\ UNCHANGED <<op, timer, late, frame>>

stopOwner(close, a, c, q) ==
  /\ ctl' = [a EXCEPT !.stopRequested = TRUE, !.gate = FALSE]
  /\ IF c.stopped
     THEN queue' = q /\ UNCHANGED <<chan, conn, op, timer, late, frame>>
     ELSE /\ conn' = [c EXCEPT !.stopped = TRUE]
          /\ invalidateOwner(NoTimer, q, <<>>)
          /\ chan' = CASE chan.closing -> chan
                       [] ~close -> [chan EXCEPT !.delegate = FALSE]
                       [] close /\ frame.signal = "state" ->
                            [chan EXCEPT !.closing = TRUE]
                       [] OTHER -> closeOwner(chan)

\* Mutant of Retried: the replacement locator is not stored.
RetriedInPlace(epoch, loc) ==
  [conn EXCEPT !.activeEpoch = epoch, !.hasStream = FALSE, !.failures = 0,
               !.ends = 0, !.connectedAt = FALSE]

\* Mutant of Retried: the epoch of the retry does not become the active one.
RetriedOutOfEpoch(epoch, loc) ==
  [conn EXCEPT !.locator = IF loc = Same THEN @ ELSE loc,
               !.hasStream = FALSE, !.failures = 0, !.ends = 0,
               !.connectedAt = FALSE]

\* The fields an explicit retry resets.
Retried(epoch, loc) ==
  [conn EXCEPT !.activeEpoch = epoch, !.locator = IF loc = Same THEN @ ELSE loc,
               !.hasStream = FALSE, !.failures = 0, !.ends = 0,
               !.connectedAt = FALSE]

retryOwner(epoch, loc, a, q, h) ==
  LET retried == Retried(epoch, loc)
      schedFail == [Task("schedFail") EXCEPT !.l = TRUE, !.r = TRUE]
  IN IF \/ a.stopRequested \/ ~a.gate \/ conn.stopped \/ ~conn.started
        \/ a.requestedEpoch # epoch
     THEN /\ ctl' = a /\ queue' = q /\ hist' = h
          /\ UNCHANGED <<chan, conn, op, timer, late, frame>>
     ELSE /\ hist' = [h EXCEPT !.streak = 0]
          /\ \/ /\ invalidateOwner(Fresh("explicit"), q, <<>>)
                /\ ctl' = a /\ conn' = retried /\ UNCHANGED chan
             \/ /\ SchedulerFails
                /\ invalidateOwner(NoTimer, q, <<schedFail>>)
                /\ ctl' = a /\ conn' = retried /\ UNCHANGED chan
             \/ /\ SchedulerFails /\ DispatchFails
                /\ stopOwner(TRUE, a, retried, q)

\* requestRetry on the owner thread.
requestRetryOwner(loc, q, h) ==
  LET e == ctl.requestedEpoch + 1
  IN retryOwner(e, loc, [ctl EXCEPT !.requestedEpoch = e], q, h)

Wanting(loc) ==
  IF loc # Same /\ conn.started THEN [hist EXCEPT !.wanted = loc] ELSE hist

\* The owner's own calls: from its event loop, or from an observer.
OwnerCalls ==
  /\ OwnerFree \/ (frame.signal # "none" /\ frame.at \in ReentrantAt)
  /\ env.calls < MaxCalls
  /\ env' = [env EXCEPT !.calls = @ + 1]

\* retry() and restart(locator), and the reconnect delegate of the channel.
OwnerRetry(loc) ==
  /\ OwnerCalls
  /\ ~ctl.stopRequested
  /\ requestRetryOwner(loc, queue, Wanting(loc))

\* stop() closes the channel, retire() leaves it open.
OwnerStop(close) ==
  /\ OwnerCalls
  /\ ~ctl.stopRequested
  /\ stopOwner(close, ctl, conn, queue)
  /\ UNCHANGED hist

\* RumbleChannel::close by its owner; the attached handle stops the connection.
OwnerClose ==
  /\ OwnerCalls
  /\ ~chan.closing
  /\ IF conn.started /\ ~ctl.stopRequested
     THEN stopOwner(TRUE, ctl, conn, queue)
     ELSE /\ chan' = IF frame.signal = "state" THEN [chan EXCEPT !.closing = TRUE]
                     ELSE closeOwner(chan)
          /\ UNCHANGED <<ctl, conn, op, timer, late, queue, frame>>
  /\ UNCHANGED hist

ThreadCalls ==
  /\ OffOwnerCalls
  /\ env.calls < MaxCalls
  /\ UNCHANGED <<conn, op, timer, late, frame>>

\* requestStop from another thread: the gate closes now, the rest is queued
\* (or, when dispatch refuses, handed to the owner by dispose).
\* Mutant of StopFromThread: the gate closes, but the owner is not told.
StopFromThreadUntold(close, q) ==
  /\ ctl' = [ctl EXCEPT !.stopRequested = TRUE, !.gate = FALSE]
  /\ queue' = q

StopFromThread(close, q) ==
  /\ ctl' = [ctl EXCEPT !.stopRequested = TRUE, !.gate = FALSE]
  /\ queue' = Append(q, [Task("stop") EXCEPT !.close = close])

ThreadRetry(loc) ==
  /\ ThreadCalls
  /\ env' = [env EXCEPT !.calls = @ + 1]
  /\ ~ctl.stopRequested
  /\ LET e == ctl.requestedEpoch + 1 IN
     \/ /\ ctl' = [ctl EXCEPT !.requestedEpoch = e]
        /\ queue' = Append(queue, [Task("retry") EXCEPT !.epoch = e, !.locator = loc])
        /\ hist' = Wanting(loc)
     \/ /\ DispatchFails
        /\ ctl' = [requestedEpoch |-> e, stopRequested |-> TRUE, gate |-> FALSE]
        /\ queue' = Append(queue, [Task("stop") EXCEPT !.close = TRUE])
        /\ UNCHANGED hist
  /\ UNCHANGED chan

ThreadStop(close) ==
  /\ ThreadCalls
  /\ env' = [env EXCEPT !.calls = @ + 1]
  /\ ~ctl.stopRequested
  /\ StopFromThread(close, queue)
  /\ UNCHANGED <<chan, hist>>

\* RumbleChannel::reconnect from another thread.
ThreadReconnect ==
  /\ ThreadCalls
  /\ env' = [env EXCEPT !.calls = @ + 1]
  /\ ~chan.closing
  /\ queue' = Append(queue, Task("reconnect"))
  /\ UNCHANGED <<chan, ctl, hist>>

\* RumbleChannel::close from another thread: closing_ first, ...
ThreadCloseGate ==
  /\ ThreadCalls
  /\ ~chan.closing
  /\ env' = [calls |-> env.calls + 1, closer |-> "gating"]
  /\ chan' = [chan EXCEPT !.closing = TRUE]
  /\ UNCHANGED <<ctl, queue, hist>>

\* ... then the attached handle is cancelled and closeOwner queued or, when the
\* dispatcher refuses it, the channel closed right here.
ThreadCloseCancel ==
  /\ env.closer = "gating"
  /\ env' = [env EXCEPT !.closer = "done"]
  /\ LET attached == conn.started /\ ~ctl.stopRequested
         stopping == IF attached THEN Append(queue, Task("stop")) ELSE queue
     IN /\ ctl' = IF attached THEN [ctl EXCEPT !.stopRequested = TRUE, !.gate = FALSE]
                  ELSE ctl
        /\ \/ queue' = Append(stopping, Task("close")) /\ UNCHANGED chan
           \/ DispatchFails /\ queue' = stopping /\ chan' = closeOwner(chan)
  /\ UNCHANGED <<conn, op, timer, late, frame, hist>>

\* The owner's event loop runs the oldest task.
RunTask ==
  /\ OwnerFree
  /\ queue # <<>>
  /\ LET task == Head(queue)
         q    == Tail(queue)
     IN CASE task.kind = "retry" ->
               retryOwner(task.epoch, task.locator, ctl, q, hist)
          [] task.kind = "stop" ->
               stopOwner(task.close, ctl, conn, q) /\ UNCHANGED hist
          [] task.kind = "close" ->
               /\ chan' = closeOwner(chan) /\ queue' = q
               /\ UNCHANGED <<ctl, conn, op, timer, late, frame, hist>>
          [] task.kind = "schedFail" ->
               /\ normalizeExplicitRetry(task.l, task.r, "fail", timer, q)
               /\ UNCHANGED <<ctl, conn, op, hist>>
          [] task.kind = "reconnect" ->
               IF chan.closing \/ ~chan.delegate \/ ctl.stopRequested
               THEN queue' = q /\ UNCHANGED <<chan, ctl, conn, op, timer, late, frame, hist>>
               ELSE requestRetryOwner(Same, q, hist)
  /\ UNCHANGED env

-----------------------------------------------------------------------------
(* The end of commitLifecycleOwner: a close asked for meanwhile is carried *)
(* out, cancelling the handle first if that is still to be done.           *)

\* Mutant of SignalsDone: a close asked for by an observer is forgotten.
SignalsDoneStillOpen ==
  /\ frame.signal = "state"
  /\ frame' = [frame EXCEPT !.signal = "none"]
  /\ UNCHANGED <<chan, ctl, conn, op, timer, late, queue, env, hist>>

SignalsDone ==
  /\ frame.signal = "state"
  /\ LET quiet == [frame EXCEPT !.signal = "none"] IN
     IF ~chan.closing
     THEN frame' = quiet /\ UNCHANGED <<chan, ctl, conn, op, timer, late, queue>>
     ELSE /\ chan' = closeOwner(chan)
          /\ IF conn.started /\ ~ctl.stopRequested
             THEN /\ ctl' = [ctl EXCEPT !.stopRequested = TRUE, !.gate = FALSE]
                  /\ conn' = [conn EXCEPT !.stopped = TRUE]
                  /\ op' = NoOp /\ timer' = NoTimer
                  /\ late' = {InertTimer(x) : x \in late \cup Cancelled(timer)}
                  /\ queue' = InertQueue(queue)
                  /\ frame' = Inert(quiet)
             ELSE frame' = quiet /\ UNCHANGED <<ctl, conn, op, timer, late, queue>>
  /\ UNCHANGED <<env, hist>>

-----------------------------------------------------------------------------
(* Answers of RumbleApi.  It delivers them on the owner's event loop, one  *)
(* per request but for a stream's batches; a cancelled one is suppressed.  *)

Answered(kind) == OwnerFree /\ op.kind = kind /\ current(op.l, op.r)

\* The callback's own check fails: a stop or retry is on its way.
AnswerDropped ==
  /\ OwnerFree
  /\ op # NoOp /\ ~current(op.l, op.r)
  /\ op' = NoOp
  /\ UNCHANGED <<chan, ctl, conn, timer, late, queue, frame, env, hist>>

ResolvedOffline ==
  /\ Answered("resolve")
  /\ op' = NoOp
  /\ conn' = [conn EXCEPT !.failures = 0, !.ends = 0, !.connectedAt = FALSE,
                          !.hasStream = FALSE]
  /\ hist' = [hist EXCEPT !.streak = 0]
  /\ enterOffline(0)
  /\ UNCHANGED <<ctl, queue, env>>

ResolvedLive ==
  /\ Answered("resolve")
  /\ op' = NoOp
  /\ conn' = [conn EXCEPT !.hasStream = TRUE]
  /\ PublishData("metadata", <<>>)
  /\ UNCHANGED <<ctl, timer, late, queue, env, hist>>

\* The page resolved to metadata no channel key can be made of.
ResolvedInvalid ==
  /\ Answered("resolve")
  /\ op' = NoOp
  /\ failInternal(conn.failures)
  /\ UNCHANGED <<ctl, conn, timer, late, queue, env, hist>>

\* One more failure: n of them counted before this one.
Fail(n, retryable, target) ==
  /\ handleFailure(n, retryable, target)
  /\ hist' = [hist EXCEPT !.streak = @ + 1]

ResolveFailed(retryable) ==
  /\ Answered("resolve")
  /\ op' = NoOp
  /\ conn' = [conn EXCEPT !.failures = @ + 1]
  /\ Fail(conn.failures, retryable, "resolve")
  /\ UNCHANGED <<ctl, timer, late, queue, env>>

CatalogAnswered ==
  /\ Answered("catalog")
  /\ op' = NoOp
  /\ PublishData("catalog", <<>>)
  /\ UNCHANGED <<ctl, conn, timer, late, queue, env, hist>>

\* The loop of events(), from its next event up to its next publication.
processEvents(batch) ==
  IF batch = <<>>
  THEN Done /\ UNCHANGED <<conn, op, hist>>
  ELSE CASE Head(batch) = "init" /\ ~conn.seenInit ->
              /\ conn' = [conn EXCEPT !.seenInit = TRUE, !.failures = 0,
                                      !.connectedAt = TRUE]
              /\ hist' = [hist EXCEPT !.streak = 0]
              /\ PublishLifecycle("connected", "Connected", Clean, "none", batch)
              /\ UNCHANGED op
         [] Head(batch) = "init" /\ conn.seenInit ->
              PublishData("published", Tail(batch)) /\ UNCHANGED <<conn, op, hist>>
         [] Head(batch) # "init" /\ conn.seenInit ->
              /\ conn' = [conn EXCEPT !.ends = 0]
              /\ PublishData("published", Tail(batch))
              /\ UNCHANGED <<op, hist>>
         [] Head(batch) # "init" /\ ~conn.seenInit ->
              /\ op' = NoOp
              /\ conn' = [conn EXCEPT !.failures = @ + 1]
              /\ Fail(conn.failures, FALSE, "stream")

Batches == UNION {[1..n -> {"init", "message"}] : n \in 1..MaxBatch}

StreamEvents(batch) ==
  /\ Answered("stream")
  /\ processEvents(batch)
  /\ UNCHANGED <<ctl, timer, late, queue, env>>

\* HTTP 204.
StreamOffline ==
  /\ Answered("stream")
  /\ op' = NoOp
  /\ conn' = [conn EXCEPT !.failures = 0, !.ends = 0, !.connectedAt = FALSE]
  /\ hist' = [hist EXCEPT !.streak = 0]
  /\ enterOffline(0)
  /\ UNCHANGED <<ctl, queue, env>>

\* Mutants of endsBefore: one too few; every ended stream counts as the first.
endsOneTooFew(stable) == IF stable THEN 0 ELSE conn.ends - 1

endsForgotten(stable) == 0

\* stable: the stream had been connected for STREAM_END_STABLE_RESET_MS.
endsBefore(stable) == IF stable THEN 0 ELSE conn.ends

\* A clean EOF, 404 or 410: neither live nor offline is proved.
StreamEnded(stable) ==
  /\ Answered("stream")
  /\ stable => conn.connectedAt
  /\ op' = NoOp
  /\ conn' = [conn EXCEPT !.ends = endsBefore(stable) + 1,
                          !.failures = endsBefore(stable) + 1,
                          !.connectedAt = FALSE]
  /\ Fail(endsBefore(stable), TRUE, "resolve")
  /\ UNCHANGED <<ctl, timer, late, queue, env>>

StreamFailed(retryable, stable) ==
  /\ Answered("stream")
  /\ stable => conn.connectedAt
  /\ op' = NoOp
  /\ conn' = [conn EXCEPT !.ends = endsBefore(stable), !.failures = @ + 1,
                          !.connectedAt = FALSE]
  /\ Fail(conn.failures, retryable, "stream")
  /\ UNCHANGED <<ctl, timer, late, queue, env>>

-----------------------------------------------------------------------------
(* What follows a publication                                              *)

Request(kind) == [kind |-> kind, l |-> TRUE, r |-> TRUE]

PublishedAt == {"normBackoff", "normUnresolved", "interrupt", "unresolved",
                "connecting", "opening", "connected", "backoff", "failStage",
                "failed", "offline"}
CheckedAt == {"metadata", "catalog", "published"}

\* The re-check after a publication fails: the handler stops there.
Abandon ==
  /\ \/ \E at \in PublishedAt \ {"offline"} : Suspended(at) /\ ~Published(at)
     \/ \E at \in CheckedAt : Suspended(at) /\ ~StillCurrent(at)
  /\ frame' = Idle
  /\ UNCHANGED <<chan, ctl, conn, op, timer, late, queue, env, hist>>

\* The end of a handler whose last publication was a lifecycle one.  Only
\* enterOffline undoes anything: a timer still current, if Offline did not show.
Finish ==
  /\ \/ Published("failed") /\ UNCHANGED <<timer, late>>
     \/ /\ Suspended("offline")
        /\ IF ~Published("offline") /\ current(frame.l, frame.r) /\ timer.t
           THEN timer' = NoTimer /\ late' = late \cup Cancelled(timer)
           ELSE UNCHANGED <<timer, late>>
  /\ frame' = Idle
  /\ UNCHANGED <<chan, ctl, conn, op, queue, env, hist>>

ContinueNormBackoff ==
  /\ Published("normBackoff")
  /\ PublishLifecycle("normUnresolved", "Unresolved", Clean, frame.then, <<>>)
  /\ UNCHANGED <<ctl, conn, op, timer, late, queue, env, hist>>

ContinueNormUnresolved ==
  /\ Published("normUnresolved")
  /\ AfterNormalized(frame.then, timer, queue)
  /\ UNCHANGED <<ctl, conn, op, env, hist>>

ContinueInterrupt ==
  /\ Published("interrupt")
  /\ PublishLifecycle("unresolved", "Unresolved", Meta(conn.failures, "none", FALSE),
                      "none", <<>>)
  /\ UNCHANGED <<ctl, conn, op, timer, late, queue, env, hist>>

\* api.resolve
ContinueUnresolved ==
  /\ Published("unresolved")
  /\ op' = Request("resolve")
  /\ Done
  /\ UNCHANGED <<ctl, conn, timer, late, queue, env, hist>>

ContinueMetadata ==
  /\ StillCurrent("metadata")
  /\ PublishLifecycle("connecting", "Connecting", Meta(conn.failures, "none", FALSE),
                      "none", <<>>)
  /\ UNCHANGED <<ctl, conn, op, timer, late, queue, env, hist>>

ContinueConnecting ==
  /\ Published("connecting")
  /\ beginEmoteCatalog(frame.l)
  /\ UNCHANGED <<ctl, conn, op, timer, late, queue, env, hist>>

\* The rest of beginEmoteCatalog: it looks at nothing before it takes the next
\* request generation and starts api.emoteCatalog, cancelled if not current.
ContinueCleared ==
  /\ Suspended("cleared")
  /\ BumpRequest(timer, queue)
  /\ op' = IF current(frame.l, TRUE) THEN Request("catalog") ELSE op
  /\ Done
  /\ UNCHANGED <<ctl, conn, env, hist>>

\* beginStream up to its publication.
ContinueCatalog ==
  /\ StillCurrent("catalog")
  /\ BumpRequest(timer, queue)
  /\ conn' = [conn EXCEPT !.seenInit = FALSE, !.connectedAt = FALSE]
  /\ PublishLifecycle("opening", "Connecting", Meta(conn.failures, "none", FALSE),
                      "none", <<>>)
  /\ UNCHANGED <<ctl, op, env, hist>>

\* api.stream
ContinueOpening ==
  /\ Published("opening")
  /\ op' = Request("stream")
  /\ Done
  /\ UNCHANGED <<ctl, conn, timer, late, queue, env, hist>>

ContinueConnected ==
  /\ Published("connected")
  /\ PublishData("published", Tail(frame.rest))
  /\ UNCHANGED <<ctl, conn, op, timer, late, queue, env, hist>>

ContinuePublished ==
  /\ StillCurrent("published")
  /\ processEvents(frame.rest)
  /\ UNCHANGED <<ctl, timer, late, queue, env>>

\* scheduleRetry
ContinueBackoff ==
  /\ Published("backoff")
  /\ \/ InstallTimer(frame.then) /\ Done
     \/ SchedulerFails /\ failInternal(conn.failures) /\ UNCHANGED <<timer, late>>
  /\ UNCHANGED <<ctl, conn, op, queue, env, hist>>

ContinueFailStage ==
  /\ Published("failStage")
  /\ PublishLifecycle("failed", "Failed", frame.meta, "none", <<>>)
  /\ UNCHANGED <<ctl, conn, op, timer, late, queue, env, hist>>

-----------------------------------------------------------------------------
(* The scheduled task fires                                                *)

\* tm may be the task held or a cancelled one.
Fire(tm) ==
  /\ OwnerFree
  /\ tm # NoTimer
  /\ CASE ~currentTimer(tm) ->
            /\ timer' = IF tm = timer THEN NoTimer ELSE timer
            /\ late' = late \ {tm}
            /\ Done /\ UNCHANGED queue
       [] currentTimer(tm) /\ tm.kind = "explicit" ->
            normalizeExplicitRetry(tm.l, tm.r, "resolve", NoTimer, queue)
       [] currentTimer(tm) /\ tm.kind = "stream" /\ conn.hasStream ->
            beginEmoteCatalog(tm.l) /\ Keep(NoTimer, queue)
       [] OTHER -> beginResolve(tm.l, conn.failures, NoTimer, queue)
  /\ UNCHANGED <<ctl, conn, op, env, hist>>

-----------------------------------------------------------------------------
(* Specification                                                           *)

Init ==
  /\ \E s \in InheritedStates :
       chan = [state |-> s, meta |-> Clean, live |-> (s = "Connected"),
               closing |-> FALSE, delegate |-> FALSE]
  /\ ctl = [stopRequested |-> FALSE, gate |-> FALSE, requestedEpoch |-> 0]
  /\ \E loc \in Locators :
       /\ conn = [started |-> FALSE, stopped |-> FALSE, activeEpoch |-> 0,
                  failures |-> 0, ends |-> 0, connectedAt |-> FALSE,
                  hasStream |-> FALSE, seenInit |-> FALSE, locator |-> loc]
       /\ hist = [streak |-> 0, wanted |-> loc]
  /\ op = NoOp /\ timer = NoTimer /\ late = {} /\ queue = <<>> /\ frame = Idle
  /\ env = [calls |-> 0, closer |-> "none"]

Start == StartAttach \/ StartGate \/ StartDelegate \/ StartResolve

ApplicationCalls ==
  \/ \E loc \in Locators \cup {Same} : OwnerRetry(loc) \/ ThreadRetry(loc)
  \/ \E close \in BOOLEAN : OwnerStop(close) \/ ThreadStop(close)
  \/ OwnerClose \/ ThreadReconnect \/ ThreadCloseGate

Answer ==
  \/ AnswerDropped
  \/ ResolvedOffline \/ ResolvedLive \/ ResolvedInvalid
  \/ \E retryable \in BOOLEAN : ResolveFailed(retryable)
  \/ CatalogAnswered
  \/ StreamOffline
  \/ \E stable \in BOOLEAN :
       \/ StreamEnded(stable)
       \/ \E retryable \in BOOLEAN : StreamFailed(retryable, stable)

Continue ==
  \/ SignalsDone \/ Abandon \/ Finish
  \/ ContinueNormBackoff \/ ContinueNormUnresolved
  \/ ContinueInterrupt \/ ContinueUnresolved
  \/ ContinueMetadata \/ ContinueConnecting \/ ContinueCleared
  \/ ContinueCatalog \/ ContinueOpening
  \/ ContinueConnected \/ ContinuePublished
  \/ ContinueBackoff \/ ContinueFailStage

Next ==
  \/ Start \/ ApplicationCalls \/ ThreadCloseCancel
  \/ RunTask \/ Answer \/ Continue
  \/ \E batch \in Batches : StreamEvents(batch)
  \/ \E tm \in {timer} \cup late : Fire(tm)

Spec == Init /\ [][Next]_vars

\* The event loop runs: a suspended handler goes on, queued tasks run, a timer
\* held fires, and the two finite requests are answered within the deadline.
\* A stream need not end, and nobody need call.
Fairness ==
  /\ WF_vars(StartGate \/ StartDelegate \/ StartResolve)
  /\ WF_vars(Continue)
  /\ SF_vars(RunTask)
  /\ WF_vars(ThreadCloseCancel)
  /\ WF_vars(Fire(timer))
  /\ WF_vars(op.kind \in {"resolve", "catalog"} /\ Answer)

FairSpec == Spec /\ Fairness

-----------------------------------------------------------------------------
(* Properties                                                              *)

Metas == [failures : Nat, cause : {"none", "failure", "cancelled"}, due : BOOLEAN]
Timers == [kind : {"none", "explicit", "resolve", "stream"},
           l : BOOLEAN, r : BOOLEAN, t : BOOLEAN]
Tasks == [kind : {"retry", "stop", "close", "reconnect", "schedFail"},
          epoch : Nat, locator : Locators \cup {Same},
          close : BOOLEAN, l : BOOLEAN, r : BOOLEAN]
FrameRecords == [at : {"idle", "attached", "gated", "delegate", "cleared"}
                        \cup PublishedAt \cup CheckedAt,
                 l : BOOLEAN, r : BOOLEAN, signal : {"none", "state", "data"},
                 state : States, meta : Metas,
                 then : {"none", "resolve", "stream", "fail"},
                 rest : Seq({"init", "message"})]
Frames == {f \in FrameRecords : /\ f.at = "connected" => f.rest # <<>>
                                /\ f.at = "backoff" => f.then \in {"resolve", "stream"}}
Channels == [state : States, meta : Metas, live : BOOLEAN, closing : BOOLEAN,
             delegate : BOOLEAN]
Atomics == [stopRequested : BOOLEAN, gate : BOOLEAN, requestedEpoch : Nat]
Connections == [started : BOOLEAN, stopped : BOOLEAN, activeEpoch : Nat,
                failures : Nat, ends : Nat, connectedAt : BOOLEAN,
                hasStream : BOOLEAN, seenInit : BOOLEAN, locator : Locators]
Requests == [kind : {"none", "resolve", "catalog", "stream"},
             l : BOOLEAN, r : BOOLEAN]

\* The types of the variables: what a field of the code may hold, counters
\* included, which no path makes negative.
TypeOK ==
  /\ chan \in Channels /\ ctl \in Atomics /\ conn \in Connections
  /\ op \in Requests /\ timer \in Timers /\ late \subseteq Timers
  /\ queue \in Seq(Tasks) /\ frame \in Frames
  /\ env \in [calls : Nat, closer : {"none", "gating", "done"}]
  /\ hist \in [streak : Nat, wanted : Locators]

Running == conn.started /\ ~ctl.stopRequested /\ ~conn.stopped /\ ~chan.closing

LiveOp    == op.l /\ op.r
LiveTimer == timer.l /\ timer.r /\ timer.t

\* An explicit retry was accepted and has not begun its resolution.
RetryPending ==
  \/ LiveTimer /\ timer.kind = "explicit"
  \/ \E i \in DOMAIN queue :
       \/ queue[i].kind = "retry" /\ queue[i].epoch = ctl.requestedEpoch
       \/ queue[i].kind = "schedFail" /\ queue[i].l /\ queue[i].r

\* A connection at work never ends up waiting for nothing: with no handler
\* running, a request, a timer or a retry will move it on, unless it failed.
NeverStranded ==
  OwnerFree /\ Running =>
    chan.state \in {"Failed", "Closed"} \/ LiveOp \/ LiveTimer \/ RetryPending

\* The visible state tells what the connection is doing, between handlers: each
\* state but Failed has the one request or timer that leads out of it, Connected
\* a stream whose init was seen, and Failed has none, so that only an explicit
\* retry leaves it.
StateMatchesActivity ==
  OwnerFree /\ Running /\ ~RetryPending =>
    CASE chan.state = "Unresolved" -> LiveOp /\ op.kind = "resolve"
      [] chan.state = "Connecting" ->
           LiveOp /\ (op.kind = "catalog" \/ (op.kind = "stream" /\ ~conn.seenInit))
      [] chan.state = "Connected"  -> LiveOp /\ op.kind = "stream" /\ conn.seenInit
      [] chan.state = "Offline"    -> LiveTimer /\ timer.kind = "resolve"
      [] chan.state = "Backoff"    -> chan.meta.due /\ (LiveTimer \/
                                        (LiveOp /\ op.kind = "catalog"))
      [] OTHER                     -> ~LiveOp /\ ~LiveTimer

\* Never two ways on at once: a request in flight and a timer both current.
OneActivity == ~(LiveOp /\ LiveTimer)

\* A timer that was cancelled is never taken for the current one, even if it
\* fires all the same (but on a channel already closing, where enterOffline
\* cancels its timer without a new timer generation).
CancelledTimersInert ==
  ~chan.closing => \A tm \in late : ~(tm.l /\ tm.r /\ tm.t)

\* A closed channel offers no reconnect, and its connection starts nothing any
\* more: it was stopped, and holds no request or timer, or its stop is queued.
ClosedIsQuiet ==
  /\ chan.state = "Closed" =>
       /\ ~chan.delegate /\ ~chan.live
       /\ conn.started => ctl.stopRequested
  /\ conn.started /\ ctl.stopRequested =>
       conn.stopped \/ \E i \in DOMAIN queue : queue[i].kind = "stop"
  /\ conn.stopped => op = NoOp /\ timer = NoTimer

\* After a stop was requested, from whichever thread and wherever the owner was,
\* the only thing the channel may still show is Closed, and nothing is installed;
\* a start() the stop raced may open the gate but shuts it before it goes on.
AfterStop ==
  ctl.stopRequested =>
    /\ chan'.state # chan.state => chan'.state = "Closed"
    /\ op' \in {op, NoOp}
    /\ timer' \in {timer, NoTimer, RequestBumped(timer)}
    /\ ctl'.stopRequested
    /\ ctl'.gate => frame'.at = "gated"

StopIsFinal == [][AfterStop]_vars

\* Attempts that fail in a row, without an init or an offline verdict between
\* them, are few, although an ended stream sets the failure counter back: the
\* counter never passes MaxFailures, and the streak never M(M + 1)/2.
AttemptsBounded ==
  /\ conn.failures <= MaxFailures
  /\ 2 * hist.streak <= MaxFailures * (MaxFailures + 1)

\* Once no retry is under way, the locator in use is the last one asked for.
LocatorHonoured ==
  OwnerFree /\ Running /\ ~RetryPending /\ conn.activeEpoch = ctl.requestedEpoch
    => conn.locator = hist.wanted

\* A stop requested on any thread is carried out by the owner.
StopCompletes == ctl.stopRequested ~> conn.stopped

\* A channel that begins to close becomes Closed.
CloseCompletes == chan.closing ~> (chan.state = "Closed")

\* No state in which the connection only waits for a deadline lasts: Offline is
\* rechecked and Backoff retried, unless the connection is stopped.
WaitsEnd ==
  /\ (chan.state = "Offline" /\ conn.started)
       ~> (chan.state # "Offline" \/ ctl.stopRequested)
  /\ (chan.state = "Backoff" /\ conn.started)
       ~> (chan.state # "Backoff" \/ ctl.stopRequested)

\* The newest retry request of a running connection leads to a new resolution of
\* the locator, or to Failed when it cannot be scheduled.
RetryLeadsOn ==
  (Running /\ RetryPending)
    ~> (op.kind = "resolve" \/ chan.state = "Failed" \/ ~Running)

\* What the connection is at, as RumbleLifecycle tells it: the retry that overtook
\* everything else, the request or the timer that is current, the handler that
\* goes on, an accepted retry, or nothing after a failure.
Doing ==
  IF chan.closing \/ ctl.stopRequested THEN "ended"
  ELSE IF ~conn.started THEN "new"
  ELSE IF frame.at \in {"attached", "gated"} THEN "moving"
  ELSE IF conn.activeEpoch # ctl.requestedEpoch THEN "restart"
  ELSE IF LiveOp THEN op.kind
  ELSE IF LiveTimer /\ timer.kind # "explicit"
    THEN IF chan.state = "Offline" THEN "recheck" ELSE "retry"
  ELSE IF frame.at # "idle" /\ frame.l /\ (frame.at = "delegate" \/ frame.r) THEN "moving"
  ELSE IF RetryPending THEN "restart"
  ELSE "failed"

Lifecycle == INSTANCE RumbleLifecycle WITH shown <- chan.state, work <- Doing

\* Each change of the visible state has the cause that rumble-lifecycle.md names:
\* Connected needs the init of a stream, Offline a verdict of the server; nothing
\* but an accepted retry changes the state once it is accepted, also while a
\* handler or an answer is on its way; after a stop or a close only Closed shows.
LifecycleKept == Lifecycle!Spec
=============================================================================
