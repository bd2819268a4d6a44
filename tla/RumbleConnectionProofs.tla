----------------------- MODULE RumbleConnectionProofs -----------------------
(***************************************************************************)
(* Theorems about RumbleConnection, for every value of its constants.      *)
(***************************************************************************)
EXTENDS RumbleConnection, TLAPS

\* Incrementing a generation only makes the tasks of the queue stale.
LEMMA AgedQueue ==
  ASSUME NEW q \in Seq(Tasks)
  PROVE  /\ BumpedQueue(q) \in Seq(Tasks) /\ InertQueue(q) \in Seq(Tasks)
         /\ Len(BumpedQueue(q)) = Len(q) /\ Len(InertQueue(q)) = Len(q)
<1>1. DOMAIN q = 1..Len(q) /\ Len(q) \in Nat /\ \A i \in 1..Len(q) : q[i] \in Tasks
  OBVIOUS
<1>2. \A x \in Tasks : RequestBumped(x) \in Tasks /\ Inert(x) \in Tasks
  BY DEF RequestBumped, Inert, Tasks
<1>3. /\ BumpedQueue(q) \in [1..Len(q) -> Tasks]
      /\ InertQueue(q) \in [1..Len(q) -> Tasks]
  BY <1>1, <1>2 DEF BumpedQueue, InertQueue
<1> QED
  BY <1>1, <1>3

\* The constant records have their types.
LEMMA ConstantTypes ==
  /\ Clean \in Metas /\ NoOp \in Requests /\ NoTimer \in Timers
  /\ Idle \in Frames
  /\ \A k \in {"retry", "stop", "close", "reconnect", "schedFail"} :
       Task(k) \in Tasks /\ Task(k).kind = k
  /\ \A k \in {"explicit", "resolve", "stream"} : Fresh(k) \in Timers
  /\ \A k \in {"resolve", "catalog", "stream"} : Request(k) \in Requests
  /\ \A n \in Nat, c \in {"none", "failure", "cancelled"}, d \in BOOLEAN :
       Meta(n, c, d) \in Metas
  BY
     DEF Clean, Meta, Metas, NoOp, Requests, NoTimer, Timers, Idle, Frames, FrameRecords,
         States, Task, Tasks, Fresh, Request

\* A publication leaves a channel and a frame of their types.
LEMMA PublishTypes ==
  ASSUME TypeOK, NEW s \in States, NEW m \in Metas,
         NEW at \in PublishedAt,
         NEW then \in {"none", "resolve", "stream", "fail"},
         NEW rest \in Seq({"init", "message"}),
         at = "connected" => rest # <<>>,
         at = "backoff" => then \in {"resolve", "stream"},
         PublishLifecycle(at, s, m, then, rest)
  PROVE  chan' \in Channels /\ frame' \in Frames
  BY DEF TypeOK, PublishLifecycle, commitLifecycleOwner, Channels, Frames, FrameRecords

\* What an increment and the end of the signals do to a frame.
LEMMA QuietFrame ==
  ASSUME NEW f \in Frames
  PROVE  [f EXCEPT !.signal = "none"] \in Frames /\ Inert(f) \in Frames
<1> DEFINE e == [f EXCEPT !.signal = "none"]
           i == Inert(f)
<1>1. f \in FrameRecords
  BY DEF Frames
<1>2. e \in FrameRecords /\ e.at = f.at /\ e.rest = f.rest /\ e.then = f.then
  BY <1>1 DEF FrameRecords
<1>3. i \in FrameRecords /\ i.at = f.at /\ i.rest = f.rest /\ i.then = f.then
  BY <1>1 DEF FrameRecords, Inert
<1> QED
  BY <1>2, <1>3 DEF Frames

LEMMA DataTypes ==
  ASSUME TypeOK, NEW at \in CheckedAt \cup {"cleared"},
         NEW rest \in Seq({"init", "message"}), PublishData(at, rest)
  PROVE  chan' \in Channels /\ frame' \in Frames
<1>1. chan' \in Channels
  BY DEF TypeOK, PublishData
<1>2. Idle \in Frames
  BY ConstantTypes
<1> QED
  BY <1>1, <1>2, at # "connected", at # "backoff"
     DEF PublishData, Frames, FrameRecords, CheckedAt

-----------------------------------------------------------------------------
(* Type correctness                                                        *)

\* The parts of the state a publishing handler changes.
PublishedTypes ==
  /\ chan' \in Channels /\ frame' \in Frames
  /\ timer' \in Timers /\ late' \subseteq Timers /\ queue' \in Seq(Tasks)

LEMMA EmptyRest == <<>> \in Seq({"init", "message"})
  OBVIOUS

LEMMA DoneTypes ==
  ASSUME TypeOK, Done
  PROVE  chan' \in Channels /\ frame' \in Frames
  BY ConstantTypes DEF TypeOK, Done

LEMMA FailedTypes ==
  ASSUME TypeOK, NEW m \in Metas, publishFailed(m)
  PROVE  chan' \in Channels /\ frame' \in Frames
<1> USE EmptyRest DEF PublishedAt, States
<1>1. CASE PublishLifecycle("failStage", "Backoff", m, "none", <<>>)
  BY <1>1, PublishTypes
<1>2. CASE PublishLifecycle("failStage", "Unresolved", m, "none", <<>>)
  BY <1>2, PublishTypes
<1>3. CASE PublishLifecycle("failed", "Failed", m, "none", <<>>)
  BY <1>3, PublishTypes
<1> QED
  BY <1>1, <1>2, <1>3 DEF publishFailed

LEMMA FailInternalTypes ==
  ASSUME TypeOK, NEW n \in Nat, failInternal(n)
  PROVE  chan' \in Channels /\ frame' \in Frames
  BY FailedTypes, ConstantTypes DEF failInternal

LEMMA HandleFailureTypes ==
  ASSUME TypeOK, NEW n \in Nat, NEW retryable \in BOOLEAN,
         NEW target \in {"resolve", "stream"}, handleFailure(n, retryable, target)
  PROVE  chan' \in Channels /\ frame' \in Frames
<1>1. Meta(n + 1, "failure", TRUE) \in Metas
  BY DEF Meta, Metas
<1>2. CASE PublishLifecycle("backoff", "Backoff", Meta(n + 1, "failure", TRUE),
                            target, <<>>)
  BY <1>1, <1>2, PublishTypes, EmptyRest DEF PublishedAt, States
<1>3. CASE failInternal(n + 1)
  BY <1>3, FailInternalTypes
<1> QED
  BY <1>2, <1>3 DEF handleFailure

LEMMA TimerTypes ==
  ASSUME TypeOK, NEW kind \in {"explicit", "resolve", "stream"}, InstallTimer(kind)
  PROVE  timer' \in Timers /\ late' \subseteq Timers
<1>1. \A x \in Timers : [x EXCEPT !.t = FALSE] \in Timers
  BY DEF Timers
<1>2. Fresh(kind) \in Timers
  BY ConstantTypes
<1> QED
  BY <1>1, <1>2 DEF TypeOK, InstallTimer, Cancelled

LEMMA OfflineTypes ==
  ASSUME TypeOK, NEW n \in Nat, enterOffline(n)
  PROVE  chan' \in Channels /\ frame' \in Frames /\ timer' \in Timers
         /\ late' \subseteq Timers
<1>1. CASE /\ InstallTimer("resolve")
           /\ PublishLifecycle("offline", "Offline", Meta(0, "none", TRUE),
                               "none", <<>>)
  BY <1>1, TimerTypes, PublishTypes, EmptyRest, ConstantTypes DEF PublishedAt, States
<1>2. CASE failInternal(n) /\ UNCHANGED <<timer, late>>
  BY <1>2, FailInternalTypes DEF TypeOK
<1> QED
  BY <1>1, <1>2 DEF enterOffline

LEMMA BumpTypes ==
  ASSUME TypeOK, NEW tm \in Timers, NEW q \in Seq(Tasks), BumpRequest(tm, q)
  PROVE  timer' \in Timers /\ late' \subseteq Timers /\ queue' \in Seq(Tasks)
<1>1. \A x \in Timers : RequestBumped(x) \in Timers
  BY DEF RequestBumped, Timers
<1> QED
  BY <1>1, AgedQueue DEF BumpRequest, TypeOK

LEMMA InvalidateTypes ==
  ASSUME TypeOK, NEW tm \in Timers, NEW q \in Seq(Tasks),
         NEW posted \in Seq(Tasks), invalidateOwner(tm, q, posted)
  PROVE  op' \in Requests /\ timer' \in Timers /\ late' \subseteq Timers
         /\ queue' \in Seq(Tasks) /\ frame' \in Frames
<1>1. \A x \in Timers : InertTimer(x) \in Timers
  BY DEF InertTimer, Timers
<1>2. late' \subseteq Timers
  BY <1>1 DEF invalidateOwner, TypeOK, Cancelled
<1>3. Inert(frame) \in Frames
  BY DEF TypeOK, Inert, Frames, FrameRecords
<1>4. queue' \in Seq(Tasks)
  BY AgedQueue DEF invalidateOwner
<1> QED
  BY <1>2, <1>3, <1>4, ConstantTypes DEF invalidateOwner

LEMMA ResolveTypes ==
  ASSUME TypeOK, NEW l, NEW n \in Nat, NEW tm \in Timers, NEW q \in Seq(Tasks),
         beginResolve(l, n, tm, q)
  PROVE  PublishedTypes
<1> USE EmptyRest, ConstantTypes DEF PublishedTypes
<1>1. CASE Done /\ Keep(tm, q)
  BY <1>1, DoneTypes DEF Keep, TypeOK
<1>2. CASE /\ BumpRequest(tm, q)
           /\ PublishLifecycle("interrupt", "Backoff", Meta(n, "cancelled", FALSE),
                               "none", <<>>)
  BY <1>2, BumpTypes, PublishTypes DEF PublishedAt, States
<1>3. CASE /\ BumpRequest(tm, q)
           /\ PublishLifecycle("unresolved", "Unresolved", Meta(n, "none", FALSE),
                               "none", <<>>)
  BY <1>3, BumpTypes, PublishTypes DEF PublishedAt, States
<1> QED
  BY <1>1, <1>2, <1>3 DEF beginResolve

LEMMA CatalogTypes ==
  ASSUME TypeOK, NEW l, beginEmoteCatalog(l)
  PROVE  chan' \in Channels /\ frame' \in Frames
  BY DataTypes, DoneTypes, EmptyRest DEF beginEmoteCatalog

LEMMA AfterTypes ==
  ASSUME TypeOK, NEW then, NEW tm \in Timers, NEW q \in Seq(Tasks),
         AfterNormalized(then, tm, q)
  PROVE  PublishedTypes
<1>1. conn.failures \in Nat
  BY DEF TypeOK, Connections
<1>2. CASE beginResolve(TRUE, conn.failures, tm, q)
  BY <1>1, <1>2, ResolveTypes
<1>3. CASE failInternal(conn.failures) /\ Keep(tm, q)
  BY <1>1, <1>3, FailInternalTypes DEF Keep, PublishedTypes, TypeOK
<1> QED
  BY <1>2, <1>3 DEF AfterNormalized

LEMMA NormalizeTypes ==
  ASSUME TypeOK, NEW l, NEW r, NEW then \in {"resolve", "fail"}, NEW tm \in Timers,
         NEW q \in Seq(Tasks), normalizeExplicitRetry(l, r, then, tm, q)
  PROVE  PublishedTypes
<1> USE EmptyRest, ConstantTypes
<1>1. CASE Done /\ Keep(tm, q)
  BY <1>1, DoneTypes DEF Keep, TypeOK, PublishedTypes
<1>2. CASE /\ PublishLifecycle("normBackoff", "Backoff", Meta(0, "cancelled", FALSE),
                               then, <<>>)
           /\ Keep(tm, q)
  <2>1. Meta(0, "cancelled", FALSE) \in Metas
    BY DEF Meta, Metas
  <2>2. chan' \in Channels /\ frame' \in Frames
    BY <1>2, <2>1, PublishTypes DEF PublishedAt, States
  <2> QED
    BY <1>2, <2>2 DEF Keep, TypeOK, PublishedTypes
<1>3. CASE /\ PublishLifecycle("normUnresolved", "Unresolved", Clean, then, <<>>)
           /\ Keep(tm, q)
  <2>1. chan' \in Channels /\ frame' \in Frames
    BY <1>3, PublishTypes DEF PublishedAt, States
  <2> QED
    BY <1>3, <2>1 DEF Keep, TypeOK, PublishedTypes
<1>4. CASE AfterNormalized(then, tm, q)
  BY <1>4, AfterTypes
<1> QED
  BY <1>1, <1>2, <1>3, <1>4 DEF normalizeExplicitRetry

LEMMA CloseTypes == ASSUME TypeOK PROVE closeOwner(chan) \in Channels
  BY ConstantTypes DEF TypeOK, closeOwner, Channels, States

LEMMA StopTypes ==
  ASSUME TypeOK, NEW close \in BOOLEAN, NEW a \in Atomics, NEW c \in Connections,
         NEW q \in Seq(Tasks), stopOwner(close, a, c, q),
         c.stopped => c = conn
  PROVE  /\ chan' \in Channels /\ ctl' \in Atomics /\ conn' \in Connections
         /\ op' \in Requests /\ PublishedTypes
<1>1. ctl' \in Atomics
  BY DEF stopOwner, Atomics
<1>2. CASE c.stopped
  BY <1>1, <1>2 DEF stopOwner, TypeOK, PublishedTypes
<1>3. CASE ~c.stopped
  <2>1. conn' \in Connections
    BY <1>3 DEF stopOwner, Connections
  <2>2. invalidateOwner(NoTimer, q, <<>>)
    BY <1>3 DEF stopOwner
  <2>3. [chan EXCEPT !.delegate = FALSE] \in Channels
        /\ [chan EXCEPT !.closing = TRUE] \in Channels
    BY DEF TypeOK, Channels
  <2>4. chan' \in Channels
    <3>1. chan' \in {chan, [chan EXCEPT !.delegate = FALSE],
                     [chan EXCEPT !.closing = TRUE], closeOwner(chan)}
      BY <1>3 DEF stopOwner
    <3> QED
      BY <2>3, <3>1, CloseTypes DEF TypeOK
  <2> QED
    <3>1. NoTimer \in Timers /\ <<>> \in Seq(Tasks)
      BY ConstantTypes
    <3> QED
      BY <1>1, <2>1, <2>2, <2>4, <3>1, InvalidateTypes DEF PublishedTypes
<1> QED
  BY <1>2, <1>3

LEMMA RetryTypes ==
  ASSUME TypeOK, NEW epoch \in Nat, NEW loc \in Locators \cup {Same},
         NEW a \in Atomics, NEW q \in Seq(Tasks),
         NEW h \in [streak : Nat, wanted : Locators],
         retryOwner(epoch, loc, a, q, h)
  PROVE  /\ chan' \in Channels /\ ctl' \in Atomics /\ conn' \in Connections
         /\ op' \in Requests /\ PublishedTypes
         /\ hist' \in [streak : Nat, wanted : Locators]
<1> DEFINE task == [Task("schedFail") EXCEPT !.l = TRUE, !.r = TRUE]
<1>1. /\ Retried(epoch, loc) \in Connections
      /\ Retried(epoch, loc).stopped = conn.stopped
  BY DEF TypeOK, Retried, Connections
<1>2. <<task>> \in Seq(Tasks) /\ <<>> \in Seq(Tasks)
  <2>1. task \in Tasks
    BY DEF Task, Tasks
  <2> QED
    BY <2>1
<1>3. hist' \in [streak : Nat, wanted : Locators]
  <2>1. hist' = h \/ hist' = [h EXCEPT !.streak = 0]
    BY Zenon DEF retryOwner
  <2> QED
    BY <2>1
<1>4. CASE /\ ctl' = a /\ queue' = q
           /\ UNCHANGED <<chan, conn, op, timer, late, frame>>
  BY <1>3, <1>4 DEF TypeOK, PublishedTypes
<1>5. CASE /\ \/ invalidateOwner(Fresh("explicit"), q, <<>>)
              \/ invalidateOwner(NoTimer, q, <<task>>)
           /\ ctl' = a /\ conn' = Retried(epoch, loc) /\ UNCHANGED chan
  BY <1>1, <1>2, <1>3, <1>5, InvalidateTypes, ConstantTypes DEF PublishedTypes, TypeOK
<1>6. CASE ~conn.stopped /\ stopOwner(TRUE, a, Retried(epoch, loc), q)
  BY <1>1, <1>3, <1>6, StopTypes
<1> QED
  BY <1>4, <1>5, <1>6, Zenon DEF retryOwner

LEMMA FailTypes ==
  ASSUME TypeOK, NEW n \in Nat, NEW retryable \in BOOLEAN,
         NEW target \in {"resolve", "stream"}, Fail(n, retryable, target)
  PROVE  /\ chan' \in Channels /\ frame' \in Frames
         /\ hist' \in [streak : Nat, wanted : Locators]
  BY HandleFailureTypes DEF Fail, TypeOK

LEMMA EventsTypes ==
  ASSUME TypeOK, NEW batch \in Seq({"init", "message"}), processEvents(batch)
  PROVE  /\ chan' \in Channels /\ frame' \in Frames /\ conn' \in Connections
         /\ op' \in Requests /\ hist' \in [streak : Nat, wanted : Locators]
<1> USE DEF CheckedAt
<1>1. CASE batch = <<>>
  BY <1>1, DoneTypes DEF processEvents, TypeOK
<1>2. CASE batch # <<>>
  <2>1. Head(batch) \in {"init", "message"} /\ Tail(batch) \in Seq({"init", "message"})
    BY <1>2
  <2>2. CASE /\ conn' = [conn EXCEPT !.seenInit = TRUE, !.failures = 0,
                                     !.connectedAt = TRUE]
             /\ hist' = [hist EXCEPT !.streak = 0]
             /\ PublishLifecycle("connected", "Connected", Clean, "none", batch)
             /\ UNCHANGED op
    <3>1. chan' \in Channels /\ frame' \in Frames
      BY <1>2, <2>2, PublishTypes, ConstantTypes DEF PublishedAt, States
    <3> QED
      BY <2>2, <3>1 DEF TypeOK, Connections
  <2>3. CASE PublishData("published", Tail(batch)) /\ UNCHANGED <<conn, op, hist>>
    BY <2>1, <2>3, DataTypes DEF TypeOK
  <2>4. CASE /\ conn' = [conn EXCEPT !.ends = 0]
             /\ PublishData("published", Tail(batch))
             /\ UNCHANGED <<op, hist>>
    <3>1. chan' \in Channels /\ frame' \in Frames
      BY <2>1, <2>4, DataTypes
    <3> QED
      BY <2>4, <3>1 DEF TypeOK, Connections
  <2>5. CASE /\ op' = NoOp
             /\ conn' = [conn EXCEPT !.failures = @ + 1]
             /\ Fail(conn.failures, FALSE, "stream")
    <3>1. conn.failures \in Nat /\ conn' \in Connections
      BY <2>5 DEF TypeOK, Connections
    <3> QED
      BY <2>5, <3>1, FailTypes, ConstantTypes
  <2> QED
    BY <1>2, <2>1, <2>2, <2>3, <2>4, <2>5 DEF processEvents
<1> QED
  BY <1>1, <1>2

-----------------------------------------------------------------------------
(* The steps, one lemma per group of actions                               *)

LEMMA StartTypes == ASSUME TypeOK, Start PROVE TypeOK'
<1> USE ConstantTypes
<1>1. CASE StartAttach
  <2>1. [Idle EXCEPT !.at = "attached"] \in Frames
    BY DEF Frames, FrameRecords
  <2>2. conn' \in Connections
    BY <1>1 DEF StartAttach, TypeOK, Connections
  <2> QED
    BY <1>1, <2>1, <2>2 DEF StartAttach, TypeOK
<1>2. CASE StartGate
  <2>1. [Idle EXCEPT !.at = "gated"] \in Frames
    BY DEF Frames, FrameRecords
  <2>2. ctl' \in Atomics
    BY <1>2 DEF StartGate, TypeOK, Atomics
  <2> QED
    BY <1>2, <2>1, <2>2 DEF StartGate, TypeOK
<1>3. CASE StartDelegate
  <2>1. [Idle EXCEPT !.at = "delegate", !.l = TRUE, !.signal = "data"] \in Frames
    BY DEF Frames, FrameRecords
  <2>2. /\ [ctl EXCEPT !.gate = FALSE] \in Atomics
        /\ [chan EXCEPT !.delegate = TRUE] \in Channels
        /\ [conn EXCEPT !.activeEpoch = ctl.requestedEpoch] \in Connections
        /\ [conn EXCEPT !.activeEpoch = ctl.requestedEpoch, !.stopped = TRUE]
             \in Connections
    BY DEF TypeOK, Atomics, Channels, Connections
  <2> QED
    BY <1>3, <2>1, <2>2 DEF StartDelegate, TypeOK
<1>4. CASE StartResolve
  <2>1. PublishedTypes
    <3>1. CASE Done /\ Keep(timer, queue)
      BY <3>1, DoneTypes DEF Keep, TypeOK, PublishedTypes
    <3>2. CASE beginResolve(TRUE, 0, timer, queue)
      BY <3>2, ResolveTypes DEF TypeOK
    <3> QED
      BY <1>4, <3>1, <3>2 DEF StartResolve
  <2> QED
    BY <1>4, <2>1 DEF StartResolve, TypeOK, PublishedTypes
<1> QED
  BY <1>1, <1>2, <1>3, <1>4 DEF Start

LEMMA CallTypes ==
  ASSUME TypeOK, ApplicationCalls \/ ThreadCloseCancel
  PROVE  TypeOK'
<1> USE ConstantTypes
<1>0. /\ ctl \in Atomics /\ conn \in Connections /\ queue \in Seq(Tasks)
      /\ ctl.requestedEpoch + 1 \in Nat /\ env.calls + 1 \in Nat
      /\ [ctl EXCEPT !.requestedEpoch = ctl.requestedEpoch + 1] \in Atomics
      /\ [ctl EXCEPT !.stopRequested = TRUE, !.gate = FALSE] \in Atomics
      /\ [chan EXCEPT !.closing = TRUE] \in Channels
  <2>1. /\ ctl \in Atomics /\ conn \in Connections /\ queue \in Seq(Tasks)
        /\ ctl.requestedEpoch + 1 \in Nat
    BY DEF TypeOK, Atomics
  <2>2. env.calls + 1 \in Nat
    BY DEF TypeOK
  <2>3. /\ [ctl EXCEPT !.requestedEpoch = ctl.requestedEpoch + 1] \in Atomics
        /\ [ctl EXCEPT !.stopRequested = TRUE, !.gate = FALSE] \in Atomics
    BY <2>1 DEF Atomics
  <2>4. [chan EXCEPT !.closing = TRUE] \in Channels
    BY DEF TypeOK, Channels
  <2> QED
    BY <2>1, <2>2, <2>3, <2>4
<1>1. \A loc \in Locators \cup {Same} :
        Wanting(loc) \in [streak : Nat, wanted : Locators]
  BY DEF Wanting, TypeOK
<1>2. ASSUME OwnerCalls PROVE env' \in [calls : Nat, closer : {"none", "gating", "done"}]
  BY <1>0, <1>2 DEF OwnerCalls, TypeOK
<1>3. ASSUME env' = [env EXCEPT !.calls = @ + 1]
      PROVE  env' \in [calls : Nat, closer : {"none", "gating", "done"}]
  BY <1>3 DEF TypeOK
<1>4. \A k \in {"retry", "stop", "close", "reconnect", "schedFail"},
         e \in Nat, loc \in Locators \cup {Same}, close \in BOOLEAN :
        /\ Append(queue, [Task(k) EXCEPT !.epoch = e, !.locator = loc]) \in Seq(Tasks)
        /\ Append(queue, [Task(k) EXCEPT !.close = close]) \in Seq(Tasks)
        /\ Append(queue, Task(k)) \in Seq(Tasks)
  <2>1. ASSUME NEW k \in {"retry", "stop", "close", "reconnect", "schedFail"},
               NEW e \in Nat, NEW loc \in Locators \cup {Same}, NEW close \in BOOLEAN
        PROVE  /\ [Task(k) EXCEPT !.epoch = e, !.locator = loc] \in Tasks
               /\ [Task(k) EXCEPT !.close = close] \in Tasks
               /\ Task(k) \in Tasks
    BY DEF Tasks, Task
  <2>2. \A x \in Tasks : Append(queue, x) \in Seq(Tasks)
    BY <1>0
  <2> QED
    BY <2>1, <2>2
<1>5. ASSUME NEW loc \in Locators \cup {Same}, OwnerRetry(loc) PROVE TypeOK'
  BY <1>0, <1>1, <1>2, <1>5, RetryTypes
     DEF OwnerRetry, requestRetryOwner, TypeOK, PublishedTypes
<1>6. ASSUME NEW loc \in Locators \cup {Same}, ThreadRetry(loc) PROVE TypeOK'
  <2>1. ctl' \in Atomics
    <3>1. [requestedEpoch |-> ctl.requestedEpoch + 1, stopRequested |-> TRUE,
           gate |-> FALSE] \in Atomics
      BY <1>0 DEF Atomics
    <3> QED
      BY <1>0, <1>6, <3>1 DEF ThreadRetry
  <2>2. queue' \in Seq(Tasks)
    BY <1>0, <1>4, <1>6 DEF ThreadRetry
  <2>3. hist' \in [streak : Nat, wanted : Locators]
    BY <1>1, <1>6 DEF ThreadRetry, TypeOK
  <2> QED
    BY <1>3, <1>6, <2>1, <2>2, <2>3 DEF ThreadRetry, ThreadCalls, TypeOK
<1>7. ASSUME NEW close \in BOOLEAN, OwnerStop(close) PROVE TypeOK'
  BY <1>0, <1>2, <1>7, StopTypes DEF OwnerStop, TypeOK, PublishedTypes
<1>8. ASSUME NEW close \in BOOLEAN, ThreadStop(close) PROVE TypeOK'
  BY <1>0, <1>3, <1>4, <1>8 DEF ThreadStop, ThreadCalls, StopFromThread, TypeOK
<1>9. CASE OwnerClose
  <2>1. CASE stopOwner(TRUE, ctl, conn, queue)
    BY <1>0, <1>2, <1>9, <2>1, StopTypes DEF OwnerClose, TypeOK, PublishedTypes
  <2>2. CASE /\ chan' = IF frame.signal = "state" THEN [chan EXCEPT !.closing = TRUE]
                       ELSE closeOwner(chan)
             /\ UNCHANGED <<ctl, conn, op, timer, late, queue, frame>>
    BY <1>0, <1>2, <1>9, <2>2, CloseTypes DEF OwnerClose, TypeOK
  <2> QED
    BY <1>9, <2>1, <2>2 DEF OwnerClose
<1>10. CASE ThreadReconnect
  BY <1>3, <1>4, <1>10 DEF ThreadReconnect, ThreadCalls, TypeOK
<1>11. CASE ThreadCloseGate
  <2>1. env' \in [calls : Nat, closer : {"none", "gating", "done"}]
    BY <1>0, <1>11 DEF ThreadCloseGate
  <2> QED
    BY <1>0, <1>11, <2>1 DEF ThreadCloseGate, ThreadCalls, TypeOK
<1>12. CASE ThreadCloseCancel
  <2>1. env' \in [calls : Nat, closer : {"none", "gating", "done"}]
    BY <1>12 DEF ThreadCloseCancel, TypeOK
  <2>2. ctl' \in Atomics /\ chan' \in Channels
    BY <1>0, <1>12, CloseTypes DEF ThreadCloseCancel, TypeOK
  <2>3. Task("close") \in Tasks /\ Task("stop") \in Tasks
    OBVIOUS
  <2>4. queue' \in Seq(Tasks)
    <3>1. Append(queue, Task("stop")) \in Seq(Tasks)
      BY <1>0, <2>3
    <3>2. /\ Append(Append(queue, Task("stop")), Task("close")) \in Seq(Tasks)
          /\ Append(queue, Task("close")) \in Seq(Tasks)
      BY <1>0, <2>3, <3>1
    <3> QED
      BY <1>0, <1>12, <3>1, <3>2 DEF ThreadCloseCancel
  <2> QED
    BY <1>12, <2>1, <2>2, <2>4 DEF ThreadCloseCancel, TypeOK
<1> QED
  BY <1>5, <1>6, <1>7, <1>8, <1>9, <1>10, <1>11, <1>12 DEF ApplicationCalls

LEMMA RunTaskTypes == ASSUME TypeOK, RunTask PROVE TypeOK'
<1> USE ConstantTypes
<1> DEFINE task == Head(queue)
           q == Tail(queue)
<1>0. /\ task \in Tasks /\ q \in Seq(Tasks) /\ env' = env
      /\ ctl \in Atomics /\ conn \in Connections
      /\ hist \in [streak : Nat, wanted : Locators]
      /\ task.epoch \in Nat /\ task.locator \in Locators \cup {Same}
      /\ task.close \in BOOLEAN
  <2>1. queue \in Seq(Tasks) /\ queue # <<>>
    BY DEF RunTask, TypeOK
  <2>2. task \in Tasks /\ q \in Seq(Tasks)
    BY <2>1
  <2>3. /\ task.epoch \in Nat /\ task.locator \in Locators \cup {Same}
        /\ task.close \in BOOLEAN
    BY <2>2 DEF Tasks
  <2> QED
    BY <2>2, <2>3 DEF RunTask, TypeOK
<1>1. CASE task.kind = "retry"
  <2>1. retryOwner(task.epoch, task.locator, ctl, q, hist)
    BY <1>1 DEF RunTask
  <2> QED
    BY <1>0, <2>1, RetryTypes DEF TypeOK, PublishedTypes
<1>2. CASE task.kind = "stop"
  <2>1. stopOwner(task.close, ctl, conn, q) /\ UNCHANGED hist
    BY <1>2 DEF RunTask
  <2> QED
    BY <1>0, <2>1, StopTypes DEF TypeOK, PublishedTypes
<1>3. CASE task.kind = "close"
  BY <1>0, <1>3, CloseTypes DEF RunTask, TypeOK
<1>4. CASE task.kind = "schedFail"
  <2>1. /\ normalizeExplicitRetry(task.l, task.r, "fail", timer, q)
        /\ UNCHANGED <<ctl, conn, op, hist>>
    BY <1>4 DEF RunTask
  <2> QED
    BY <1>0, <2>1, NormalizeTypes DEF TypeOK, PublishedTypes
<1>5. CASE task.kind = "reconnect"
  <2>1. CASE /\ queue' = q
             /\ UNCHANGED <<chan, ctl, conn, op, timer, late, frame, hist>>
    BY <1>0, <2>1 DEF TypeOK
  <2>2. CASE requestRetryOwner(Same, q, hist)
    <3>1. /\ ctl.requestedEpoch + 1 \in Nat
          /\ [ctl EXCEPT !.requestedEpoch = ctl.requestedEpoch + 1] \in Atomics
      BY <1>0 DEF Atomics
    <3> QED
      BY <1>0, <2>2, <3>1, RetryTypes DEF requestRetryOwner, TypeOK, PublishedTypes
  <2> QED
    BY <1>5, <2>1, <2>2 DEF RunTask
<1> QED
  BY <1>0, <1>1, <1>2, <1>3, <1>4, <1>5 DEF Tasks

LEMMA AnswerTypes == ASSUME TypeOK, Answer PROVE TypeOK'
<1> USE ConstantTypes
<1>0. /\ conn.failures \in Nat /\ conn.ends \in Nat
      /\ \A b \in BOOLEAN : endsBefore(b) \in Nat
      /\ [hist EXCEPT !.streak = 0] \in [streak : Nat, wanted : Locators]
      /\ 0 \in Nat
  BY DEF TypeOK, Connections, endsBefore
<1>1. CASE AnswerDropped
  BY <1>1 DEF AnswerDropped, TypeOK
<1>2. CASE ResolvedOffline \/ StreamOffline
  <2>1. conn' \in Connections
    <3>1. CASE ResolvedOffline
      BY <3>1 DEF ResolvedOffline, TypeOK, Connections
    <3>2. CASE StreamOffline
      BY <3>2 DEF StreamOffline, TypeOK, Connections
    <3> QED
      BY <1>2, <3>1, <3>2
  <2>2. enterOffline(0) /\ op' = NoOp /\ UNCHANGED <<ctl, queue, env>>
        /\ hist' = [hist EXCEPT !.streak = 0]
    BY <1>2 DEF ResolvedOffline, StreamOffline
  <2> QED
    BY <1>0, <2>1, <2>2, OfflineTypes DEF TypeOK
<1>3. CASE ResolvedLive
  <2>1. conn' \in Connections
    BY <1>3 DEF ResolvedLive, TypeOK, Connections
  <2> QED
    BY <1>3, <2>1, DataTypes, EmptyRest DEF ResolvedLive, TypeOK, CheckedAt
<1>4. CASE ResolvedInvalid
  BY <1>0, <1>4, FailInternalTypes DEF ResolvedInvalid, TypeOK
<1>5. ASSUME NEW retryable \in BOOLEAN, ResolveFailed(retryable) PROVE TypeOK'
  <2>1. conn' \in Connections
    BY <1>5 DEF ResolveFailed, TypeOK, Connections
  <2> QED
    BY <1>0, <1>5, <2>1, FailTypes DEF ResolveFailed, TypeOK
<1>6. CASE CatalogAnswered
  BY <1>6, DataTypes, EmptyRest DEF CatalogAnswered, TypeOK, CheckedAt
<1>7. ASSUME NEW stable \in BOOLEAN, StreamEnded(stable) PROVE TypeOK'
  <2>1. conn' \in Connections
    <3>1. endsBefore(stable) + 1 \in Nat /\ conn \in Connections
      BY <1>0 DEF TypeOK
    <3>2. conn' = [conn EXCEPT !.ends = endsBefore(stable) + 1,
                               !.failures = endsBefore(stable) + 1,
                               !.connectedAt = FALSE]
      BY <1>7 DEF StreamEnded
    <3> QED
      BY <3>1, <3>2 DEF Connections
  <2> QED
    BY <1>0, <1>7, <2>1, FailTypes DEF StreamEnded, TypeOK
<1>8. ASSUME NEW retryable \in BOOLEAN, NEW stable \in BOOLEAN,
             StreamFailed(retryable, stable)
      PROVE  TypeOK'
  <2>1. conn' \in Connections
    <3>1. endsBefore(stable) \in Nat /\ conn.failures + 1 \in Nat
          /\ conn \in Connections
      BY <1>0 DEF TypeOK
    <3>2. conn' = [conn EXCEPT !.ends = endsBefore(stable), !.failures = @ + 1,
                               !.connectedAt = FALSE]
      BY <1>8 DEF StreamFailed
    <3> QED
      BY <3>1, <3>2 DEF Connections
  <2> QED
    BY <1>0, <1>8, <2>1, FailTypes DEF StreamFailed, TypeOK
<1> QED
  BY <1>1, <1>2, <1>3, <1>4, <1>5, <1>6, <1>7, <1>8 DEF Answer

LEMMA ContinueTypes == ASSUME TypeOK, Continue PROVE TypeOK'
<1> USE ConstantTypes, EmptyRest DEF PublishedAt, CheckedAt, States
<1>0. /\ conn.failures \in Nat /\ frame \in Frames /\ timer \in Timers
      /\ queue \in Seq(Tasks) /\ conn \in Connections
      /\ Meta(conn.failures, "none", FALSE) \in Metas
  BY DEF TypeOK, Connections
<1>f. /\ frame.meta \in Metas /\ frame.rest \in Seq({"init", "message"})
      /\ frame.then \in {"none", "resolve", "stream", "fail"}
  BY <1>0 DEF Frames, FrameRecords
<1>1. CASE SignalsDone
  <2> DEFINE quiet == [frame EXCEPT !.signal = "none"]
  <2>1. quiet \in Frames
    BY <1>0, QuietFrame
  <2>4. Inert(quiet) \in Frames
    BY <2>1, QuietFrame
  <2>2. CASE frame' = quiet /\ UNCHANGED <<chan, ctl, conn, op, timer, late, queue>>
    BY <1>1, <2>1, <2>2 DEF SignalsDone, TypeOK
  <2>3. CASE chan' = closeOwner(chan)
    <3>1. CASE frame' = quiet /\ UNCHANGED <<ctl, conn, op, timer, late, queue>>
      BY <1>1, <2>1, <2>3, <3>1, CloseTypes DEF SignalsDone, TypeOK
    <3>2. CASE /\ ctl' = [ctl EXCEPT !.stopRequested = TRUE, !.gate = FALSE]
               /\ conn' = [conn EXCEPT !.stopped = TRUE]
               /\ op' = NoOp /\ timer' = NoTimer
               /\ late' = {InertTimer(x) : x \in late \cup Cancelled(timer)}
               /\ queue' = InertQueue(queue)
               /\ frame' = Inert(quiet)
      <4>1. ctl' \in Atomics /\ conn' \in Connections
        BY <3>2 DEF TypeOK, Atomics, Connections
      <4>2. \A x \in Timers : InertTimer(x) \in Timers
        BY DEF InertTimer, Timers
      <4>3. late' \subseteq Timers
        BY <3>2, <4>2 DEF Cancelled, TypeOK
      <4>4. queue' \in Seq(Tasks)
        BY <1>0, <3>2, AgedQueue
      <4> QED
        BY <1>1, <2>4, <2>3, <3>2, <4>1, <4>3, <4>4, CloseTypes
           DEF SignalsDone, TypeOK
    <3> QED
      BY <1>1, <2>3, <3>1, <3>2, Zenon DEF SignalsDone
  <2> QED
    BY <1>1, <2>2, <2>3, Zenon DEF SignalsDone
<1>2. CASE Abandon
  BY <1>2 DEF Abandon, TypeOK
<1>3. CASE Finish
  <2>1. timer' \in Timers /\ late' \subseteq Timers
    <3>1. NoTimer \in Timers /\ Cancelled(timer) \subseteq Timers
      BY DEF TypeOK, Cancelled
    <3> QED
      BY <1>3, <3>1 DEF Finish, TypeOK
  <2> QED
    BY <1>3, <2>1 DEF Finish, TypeOK
<1>4. CASE ContinueNormBackoff
  <2>1. PublishLifecycle("normUnresolved", "Unresolved", Clean, frame.then, <<>>)
    BY <1>4 DEF ContinueNormBackoff
  <2>2. Clean \in Metas
    OBVIOUS
  <2>3. chan' \in Channels /\ frame' \in Frames
    BY <1>f, <2>1, <2>2, PublishTypes
  <2> QED
    BY <1>4, <2>3 DEF ContinueNormBackoff, TypeOK
<1>5. CASE ContinueNormUnresolved
  <2>1. PublishedTypes
    BY <1>0, <1>5, AfterTypes DEF ContinueNormUnresolved
  <2> QED
    BY <1>5, <2>1 DEF ContinueNormUnresolved, TypeOK, PublishedTypes
<1>6. CASE ContinueInterrupt
  BY <1>0, <1>6, PublishTypes DEF ContinueInterrupt, TypeOK
<1>7. CASE ContinueUnresolved
  BY <1>7, DoneTypes DEF ContinueUnresolved, TypeOK
<1>8. CASE ContinueMetadata
  BY <1>0, <1>8, PublishTypes DEF ContinueMetadata, TypeOK
<1>9. CASE ContinueConnecting
  BY <1>9, CatalogTypes DEF ContinueConnecting, TypeOK
<1>10. CASE ContinueCleared
  <2>1. timer' \in Timers /\ late' \subseteq Timers /\ queue' \in Seq(Tasks)
    BY <1>0, <1>10, BumpTypes DEF ContinueCleared
  <2> QED
    BY <1>10, <2>1, DoneTypes DEF ContinueCleared, TypeOK
<1>11. CASE ContinueCatalog
  <2>1. timer' \in Timers /\ late' \subseteq Timers /\ queue' \in Seq(Tasks)
    BY <1>0, <1>11, BumpTypes DEF ContinueCatalog
  <2>2. chan' \in Channels /\ frame' \in Frames
    BY <1>0, <1>11, PublishTypes DEF ContinueCatalog
  <2>3. conn' \in Connections
    BY <1>0, <1>11 DEF ContinueCatalog, Connections
  <2> QED
    BY <1>11, <2>1, <2>2, <2>3 DEF ContinueCatalog, TypeOK
<1>12. CASE ContinueOpening
  BY <1>12, DoneTypes DEF ContinueOpening, TypeOK
<1>13. CASE ContinueConnected
  <2>1. Tail(frame.rest) \in Seq({"init", "message"})
    <3>1. frame.rest # <<>>
      BY <1>0, <1>13 DEF ContinueConnected, Published, StillCurrent, Suspended, Frames
    <3> QED
      BY <1>f, <3>1
  <2> QED
    BY <1>13, <2>1, DataTypes DEF ContinueConnected, TypeOK
<1>14. CASE ContinuePublished
  BY <1>f, <1>14, EventsTypes DEF ContinuePublished, TypeOK
<1>15. CASE ContinueBackoff
  <2>1. CASE InstallTimer(frame.then) /\ Done
    <3>1. frame.then \in {"resolve", "stream"}
      BY <1>0, <1>15 DEF ContinueBackoff, Published, StillCurrent, Suspended, Frames
    <3> QED
      BY <1>15, <2>1, <3>1, TimerTypes, DoneTypes DEF ContinueBackoff, TypeOK
  <2>2. CASE failInternal(conn.failures) /\ UNCHANGED <<timer, late>>
    BY <1>0, <1>15, <2>2, FailInternalTypes DEF ContinueBackoff, TypeOK
  <2> QED
    BY <1>15, <2>1, <2>2 DEF ContinueBackoff
<1>16. CASE ContinueFailStage
  BY <1>f, <1>16, PublishTypes DEF ContinueFailStage, TypeOK
<1> QED
  BY <1>1, <1>2, <1>3, <1>4, <1>5, <1>6, <1>7, <1>8, <1>9, <1>10, <1>11, <1>12,
     <1>13, <1>14, <1>15, <1>16 DEF Continue

LEMMA StreamTypes ==
  ASSUME TypeOK, NEW batch \in Batches, StreamEvents(batch)
  PROVE  TypeOK'
<1>1. batch \in Seq({"init", "message"})
  <2>1. PICK n \in 1..MaxBatch : batch \in [1..n -> {"init", "message"}]
    BY DEF Batches
  <2>2. n \in Nat
    BY ConnectionAssumption
  <2> QED
    BY <2>1, <2>2
<1> QED
  BY <1>1, EventsTypes DEF StreamEvents, TypeOK

LEMMA FireTypes ==
  ASSUME TypeOK, NEW tm \in {timer} \cup late, Fire(tm)
  PROVE  TypeOK'
<1> USE ConstantTypes
<1>1. PublishedTypes
  <2>1. CASE /\ timer' = IF tm = timer THEN NoTimer ELSE timer
             /\ late' = late \ {tm}
             /\ Done /\ UNCHANGED queue
    BY <2>1, DoneTypes DEF TypeOK, PublishedTypes
  <2>2. CASE normalizeExplicitRetry(tm.l, tm.r, "resolve", NoTimer, queue)
    BY <2>2, NormalizeTypes DEF TypeOK
  <2>3. CASE beginEmoteCatalog(tm.l) /\ Keep(NoTimer, queue)
    BY <2>3, CatalogTypes DEF Keep, TypeOK, PublishedTypes
  <2>4. CASE beginResolve(tm.l, conn.failures, NoTimer, queue)
    BY <2>4, ResolveTypes DEF TypeOK, Connections
  <2> QED
    BY <2>1, <2>2, <2>3, <2>4 DEF Fire
<1> QED
  BY <1>1 DEF Fire, TypeOK, PublishedTypes

LEMMA InitTypes == Init => TypeOK
<1> SUFFICES ASSUME Init PROVE TypeOK
  OBVIOUS
<1> USE ConstantTypes
<1>1. chan \in Channels
  BY ConnectionAssumption DEF Init, Channels
<1>2. conn \in Connections /\ hist \in [streak : Nat, wanted : Locators]
  BY DEF Init, Connections
<1>3. ctl \in Atomics
  BY DEF Init, Atomics
<1> QED
  BY <1>1, <1>2, <1>3 DEF Init, TypeOK

\* Every step of the connection, its callers and its providers keeps the types.
LEMMA StepTypes == TypeOK /\ [Next]_vars => TypeOK'
<1> SUFFICES ASSUME TypeOK, [Next]_vars PROVE TypeOK'
  OBVIOUS
<1>1. CASE Next
  BY <1>1, StartTypes, CallTypes, RunTaskTypes, AnswerTypes, ContinueTypes,
     StreamTypes, FireTypes DEF Next
<1>2. CASE UNCHANGED vars
  BY <1>2 DEF vars, TypeOK
<1> QED
  BY <1>1, <1>2

\* The variables keep their types; in particular no path of terminal() or of a
\* stale callback makes a failure counter negative, and a suspended handler that
\* publishes Connected or schedules a retry has what it goes on with.
THEOREM TypeCorrect == Spec => []TypeOK
<1>1. Init => TypeOK
  BY InitTypes
<1>2. TypeOK /\ [Next]_vars => TypeOK'
  BY StepTypes
<1> QED
  BY <1>1, <1>2, PTL DEF Spec

-----------------------------------------------------------------------------
(* A requested stop is final                                               *)

\* The gate of a stopping connection is only open between the store of start()
\* that a stop raced and the check that follows it.
GateShut == ctl.stopRequested /\ ctl.gate => frame.at = "gated"

\* Nothing is current once a stop was requested.
LEMMA StoppingNotCurrent ==
  ASSUME ctl.stopRequested
  PROVE  /\ \A l, r : ~current(l, r)
         /\ \A l : ~mayBegin(l)
         /\ \A tm : ~currentTimer(tm)
         /\ \A kind : ~Answered(kind)
         /\ \A at : ~StillCurrent(at) /\ ~Published(at)
  BY DEF current, mayBegin, currentTimer, Answered, StillCurrent, Published

\* How a publishing step that comes too late leaves the state.
LEMMA TooLate ==
  ASSUME ctl.stopRequested, NEW tm, NEW q
  PROVE  /\ \A l, n : beginResolve(l, n, tm, q) => Done /\ Keep(tm, q)
         /\ \A l, r, then : normalizeExplicitRetry(l, r, then, tm, q)
                              => Done /\ Keep(tm, q)
         /\ \A l : beginEmoteCatalog(l) => Done
  BY StoppingNotCurrent DEF beginResolve, normalizeExplicitRetry, beginEmoteCatalog

LEMMA CloseState == closeOwner(chan).state = "Closed" \/ chan \notin Channels
  BY DEF closeOwner, Channels

\* stopOwner, whatever it finds.
LEMMA StopOwnerStops ==
  ASSUME TypeOK, NEW close \in BOOLEAN, NEW a \in Atomics, NEW c \in Connections,
         NEW q, stopOwner(close, a, c, q)
  PROVE  /\ chan'.state # chan.state => chan'.state = "Closed"
         /\ op' \in {op, NoOp} /\ timer' \in {timer, NoTimer}
         /\ ctl'.stopRequested /\ ~ctl'.gate
<1>1. ctl'.stopRequested /\ ~ctl'.gate
  BY DEF stopOwner, Atomics
<1>2. CASE c.stopped
  BY <1>1, <1>2 DEF stopOwner
<1>3. CASE ~c.stopped
  <2>1. op' = NoOp /\ timer' = NoTimer
    BY <1>3 DEF stopOwner, invalidateOwner
  <2>2. chan' \in {chan, [chan EXCEPT !.delegate = FALSE],
                   [chan EXCEPT !.closing = TRUE], closeOwner(chan)}
    BY <1>3 DEF stopOwner
  <2>3. chan'.state # chan.state => chan'.state = "Closed"
    BY <2>2, CloseState DEF TypeOK, Channels
  <2> QED
    BY <1>1, <2>1, <2>3
<1> QED
  BY <1>2, <1>3

LEMMA StopStep ==
  ASSUME TypeOK, GateShut, ctl.stopRequested, Next
  PROVE  AfterStop
<1> USE StoppingNotCurrent DEF AfterStop
<1>0. /\ ctl \in Atomics /\ conn \in Connections /\ chan \in Channels
      /\ [ctl EXCEPT !.gate = FALSE].stopRequested
      /\ ~[ctl EXCEPT !.gate = FALSE].gate
      /\ [ctl EXCEPT !.stopRequested = TRUE, !.gate = FALSE].stopRequested
      /\ ~[ctl EXCEPT !.stopRequested = TRUE, !.gate = FALSE].gate
      /\ [chan EXCEPT !.delegate = TRUE].state = chan.state
      /\ [chan EXCEPT !.closing = TRUE].state = chan.state
      /\ closeOwner(chan).state = "Closed"
  BY CloseState DEF TypeOK, Atomics, Channels
<1>1. CASE Start
  <2>1. ~StartAttach
    BY DEF StartAttach
  <2>2. CASE StartGate
    <3>1. [Idle EXCEPT !.at = "gated"].at = "gated"
      BY DEF Idle
    <3>2. [ctl EXCEPT !.gate = TRUE].stopRequested
      BY <1>0 DEF Atomics
    <3> QED
      BY <1>0, <2>2, <3>1, <3>2 DEF StartGate
  <2>3. CASE StartDelegate
    BY <1>0, <2>3 DEF StartDelegate
  <2>4. CASE StartResolve
    <3>1. Done /\ Keep(timer, queue)
      BY <2>4, TooLate DEF StartResolve
    <3> QED
      BY <2>4, <3>1 DEF StartResolve, Done, Keep, GateShut
  <2> QED
    BY <1>1, <2>1, <2>2, <2>3, <2>4 DEF Start
<1>2. CASE ApplicationCalls \/ ThreadCloseCancel
  <2>1. \A loc : ~OwnerRetry(loc) /\ ~ThreadRetry(loc)
    BY DEF OwnerRetry, ThreadRetry
  <2>2. \A close : ~OwnerStop(close) /\ ~ThreadStop(close)
    BY DEF OwnerStop, ThreadStop
  <2>3. CASE OwnerClose
    BY <1>0, <2>3 DEF OwnerClose, GateShut
  <2>4. CASE ThreadReconnect \/ ThreadCloseGate
    BY <1>0, <2>4 DEF ThreadReconnect, ThreadCloseGate, ThreadCalls, GateShut
  <2>5. CASE ThreadCloseCancel
    BY <1>0, <2>5 DEF ThreadCloseCancel, GateShut
  <2> QED
    BY <1>2, <2>1, <2>2, <2>3, <2>4, <2>5 DEF ApplicationCalls
<1>3. CASE RunTask
  <2> DEFINE task == Head(queue)
             q == Tail(queue)
  <2>0. task \in Tasks /\ task.close \in BOOLEAN
        /\ task.kind \in {"retry", "stop", "close", "reconnect", "schedFail"}
    <3>1. queue \in Seq(Tasks) /\ queue # <<>>
      BY <1>3 DEF RunTask, TypeOK
    <3>2. task \in Tasks
      BY <3>1
    <3> HIDE DEF task
    <3> QED
      BY <3>2 DEF Tasks
  <2>1. CASE task.kind = "retry"
    <3>1. retryOwner(task.epoch, task.locator, ctl, q, hist)
      BY <1>3, <2>1 DEF RunTask
    <3> QED
      BY <3>1 DEF retryOwner, GateShut
  <2>2. CASE task.kind = "stop"
    <3>1. stopOwner(task.close, ctl, conn, q)
      BY <1>3, <2>2 DEF RunTask
    <3> QED
      BY <1>0, <2>0, <3>1, StopOwnerStops
  <2>3. CASE task.kind = "close"
    BY <1>0, <1>3, <2>3 DEF RunTask, GateShut
  <2>4. CASE task.kind = "schedFail"
    <3>1. /\ normalizeExplicitRetry(task.l, task.r, "fail", timer, q)
          /\ UNCHANGED <<ctl, conn, op, hist>>
      BY <1>3, <2>4 DEF RunTask
    <3>2. Done /\ Keep(timer, q)
      BY <3>1, TooLate
    <3> QED
      BY <1>3, <3>1, <3>2 DEF Done, Keep, GateShut, RunTask, OwnerFree
  <2>5. CASE task.kind = "reconnect"
    BY <1>3, <2>5 DEF RunTask, GateShut
  <2> QED
    BY <2>0, <2>1, <2>2, <2>3, <2>4, <2>5
<1>4. CASE Answer \/ \E batch \in Batches : StreamEvents(batch)
  BY <1>4 DEF Answer, AnswerDropped, ResolvedOffline, ResolvedLive, ResolvedInvalid,
     ResolveFailed, CatalogAnswered, StreamOffline, StreamEnded, StreamFailed,
     StreamEvents, GateShut
<1>5. CASE Continue
  <2>1. CASE SignalsDone
    <3>1. [frame EXCEPT !.signal = "none"].at = frame.at
      BY DEF TypeOK, Frames, FrameRecords
    <3> QED
      BY <1>0, <2>1, <3>1 DEF SignalsDone, GateShut
  <2>2. CASE Abandon \/ Finish
    BY <2>2 DEF Abandon, Finish, GateShut, PublishedAt, CheckedAt, Suspended
  <2>3. CASE ContinueCleared
    BY <2>3 DEF ContinueCleared, Done, BumpRequest, GateShut, Suspended
  <2> QED
    BY <1>5, <2>1, <2>2, <2>3 DEF Continue, ContinueNormBackoff,
       ContinueNormUnresolved, ContinueInterrupt, ContinueUnresolved,
       ContinueMetadata, ContinueConnecting, ContinueCatalog, ContinueOpening,
       ContinueConnected, ContinuePublished, ContinueBackoff, ContinueFailStage
<1>6. ASSUME NEW tm \in {timer} \cup late, Fire(tm) PROVE AfterStop
  <2>1. /\ timer' = IF tm = timer THEN NoTimer ELSE timer
        /\ Done
    BY <1>6 DEF Fire
  <2> QED
    BY <1>6, <2>1 DEF Fire, Done, GateShut, OwnerFree
<1> QED
  BY <1>1, <1>2, <1>3, <1>4, <1>5, <1>6 DEF Next

-----------------------------------------------------------------------------
LEMMA GateShutInit == Init => GateShut
  BY DEF Init, GateShut

\* A stop shuts the gate as it is requested, on every path.
LEMMA GateShutStep == TypeOK /\ GateShut /\ [Next]_vars => GateShut'
<1> SUFFICES ASSUME TypeOK, GateShut, [Next]_vars PROVE GateShut'
  OBVIOUS
<1>1. CASE UNCHANGED vars
  BY <1>1 DEF vars, GateShut
<1>2. CASE Next /\ ctl.stopRequested
  BY <1>2, StopStep DEF AfterStop, GateShut
<1>3. CASE Next /\ ~ctl.stopRequested
  <2> SUFFICES ctl'.stopRequested => ~ctl'.gate
    BY DEF GateShut
  <2> USE <1>3
  <2>0. /\ ctl \in Atomics /\ conn \in Connections
        /\ \A g \in BOOLEAN : ~[ctl EXCEPT !.gate = g].stopRequested
        /\ \A e : ~[ctl EXCEPT !.requestedEpoch = e].stopRequested
        /\ ~[ctl EXCEPT !.stopRequested = TRUE, !.gate = FALSE].gate
    BY DEF TypeOK, Atomics
  <2>1. \A a, c, q, close : stopOwner(close, a, c, q) /\ a \in Atomics => ~ctl'.gate
    BY DEF stopOwner, Atomics
  <2>2. \A e, loc, a, q, h : retryOwner(e, loc, a, q, h) /\ a \in Atomics
                               => ctl' = a \/ ~ctl'.gate
    BY <2>1 DEF retryOwner
  <2>3. \A loc, q, h : requestRetryOwner(loc, q, h)
                         => ~ctl'.stopRequested \/ ~ctl'.gate
    <3> TAKE loc, q, h
    <3> DEFINE a == [ctl EXCEPT !.requestedEpoch = ctl.requestedEpoch + 1]
    <3>1. a \in Atomics /\ ~a.stopRequested
      BY <2>0 DEF Atomics
    <3> QED
      BY <2>2, <3>1 DEF requestRetryOwner
  <2>4. CASE Start
    BY <2>0, <2>4 DEF Start, StartAttach, StartGate, StartDelegate, StartResolve
  <2>5. CASE ApplicationCalls \/ ThreadCloseCancel
    <3>1. ASSUME NEW loc, OwnerRetry(loc) PROVE ~ctl'.stopRequested \/ ~ctl'.gate
      BY <2>3, <3>1 DEF OwnerRetry
    <3>2. ASSUME NEW loc, ThreadRetry(loc) PROVE ~ctl'.stopRequested \/ ~ctl'.gate
      <4>1. \/ ctl' = [ctl EXCEPT !.requestedEpoch = ctl.requestedEpoch + 1]
            \/ ctl' = [requestedEpoch |-> ctl.requestedEpoch + 1,
                       stopRequested |-> TRUE, gate |-> FALSE]
        BY <3>2 DEF ThreadRetry
      <4>2. ~[requestedEpoch |-> ctl.requestedEpoch + 1,
              stopRequested |-> TRUE, gate |-> FALSE].gate
        OBVIOUS
      <4> DEFINE e == ctl.requestedEpoch + 1
      <4>3. ~[ctl EXCEPT !.requestedEpoch = e].stopRequested
        <5> HIDE DEF e
        <5> QED
          BY <2>0
      <4> QED
        BY <4>1, <4>2, <4>3
    <3>3. ASSUME NEW close, OwnerStop(close) PROVE ~ctl'.gate
      BY <2>0, <2>1, <3>3 DEF OwnerStop
    <3>4. ASSUME NEW close, ThreadStop(close) PROVE ~ctl'.gate
      BY <2>0, <3>4 DEF ThreadStop, StopFromThread
    <3>5. CASE OwnerClose
      BY <2>0, <2>1, <3>5 DEF OwnerClose
    <3>6. CASE ThreadReconnect \/ ThreadCloseGate \/ ThreadCloseCancel
      BY <2>0, <3>6 DEF ThreadReconnect, ThreadCloseGate, ThreadCloseCancel
    <3> QED
      BY <2>5, <3>1, <3>2, <3>3, <3>4, <3>5, <3>6 DEF ApplicationCalls
  <2>6. CASE RunTask
    <3> DEFINE task == Head(queue)
               q == Tail(queue)
    <3>1. CASE task.kind = "retry"
      <4>1. retryOwner(task.epoch, task.locator, ctl, q, hist)
        BY <2>6, <3>1 DEF RunTask
      <4> QED
        BY <2>0, <2>2, <4>1
    <3>2. CASE task.kind = "stop"
      <4>1. stopOwner(task.close, ctl, conn, q)
        BY <2>6, <3>2 DEF RunTask
      <4> QED
        BY <2>0, <2>1, <4>1
    <3>3. CASE task.kind = "close" \/ task.kind = "schedFail"
      BY <2>6, <3>3 DEF RunTask
    <3>4. CASE task.kind = "reconnect"
      <4>1. ctl' = ctl \/ requestRetryOwner(Same, q, hist)
        BY <2>6, <3>4 DEF RunTask
      <4> QED
        BY <2>3, <4>1
    <3>5. task.kind \in {"retry", "stop", "close", "reconnect", "schedFail"}
      <4>1. queue \in Seq(Tasks) /\ queue # <<>>
        BY <2>6 DEF RunTask, TypeOK
      <4>2. task \in Tasks
        BY <4>1
      <4> HIDE DEF task
      <4> QED
        BY <4>2 DEF Tasks
    <3> QED
      BY <3>1, <3>2, <3>3, <3>4, <3>5
  <2>7. CASE Answer \/ (\E batch \in Batches : StreamEvents(batch))
             \/ (\E tm \in {timer} \cup late : Fire(tm))
    BY <2>7 DEF Answer, AnswerDropped, ResolvedOffline, ResolvedLive,
       ResolvedInvalid, ResolveFailed, CatalogAnswered, StreamOffline, StreamEnded,
       StreamFailed, StreamEvents, Fire
  <2>8. CASE Continue
    BY <2>0, <2>8 DEF Continue, SignalsDone, Abandon, Finish, ContinueNormBackoff,
       ContinueNormUnresolved, ContinueInterrupt, ContinueUnresolved,
       ContinueMetadata, ContinueConnecting, ContinueCleared, ContinueCatalog,
       ContinueOpening, ContinueConnected, ContinuePublished, ContinueBackoff,
       ContinueFailStage
  <2> QED
    BY <2>4, <2>5, <2>6, <2>7, <2>8 DEF Next
<1> QED
  BY <1>1, <1>2, <1>3

\* Whatever the threads, the observers and the providers do: once a stop was
\* requested the channel shows nothing new but Closed, no request or timer is
\* installed, and the callback gate never stays open.
THEOREM StopFinal == Spec => StopIsFinal
<1>1. Init => TypeOK /\ GateShut
  BY InitTypes, GateShutInit
<1>2. TypeOK /\ GateShut /\ [Next]_vars => (TypeOK /\ GateShut)'
  BY StepTypes, GateShutStep
<1>3. TypeOK /\ GateShut /\ [Next]_vars => [AfterStop]_vars
  BY StopStep DEF AfterStop
<1> QED
  BY <1>1, <1>2, <1>3, PTL DEF Spec, StopIsFinal

-----------------------------------------------------------------------------
(* A closed channel is quiet                                               *)

\* A task of this kind is queued.
Has(q, kind) == \E i \in DOMAIN q : q[i].kind = kind

\* Closed is for good, and so is closing; who asked for it has seen to the stop.
ClosedForGood ==
  /\ chan.state = "Closed" => ~chan.delegate /\ ~chan.live
  /\ chan.state = "Closed" \/ Has(queue, "close") =>
       chan.closing /\ (conn.started => ctl.stopRequested)
  /\ env.closer = "gating" => chan.closing
StopOnItsWay == conn.started /\ ctl.stopRequested => conn.stopped \/ Has(queue, "stop")
Released == conn.stopped => op = NoOp /\ timer = NoTimer

\* Before start() has got past the gate there is nothing to cancel.
Starting == frame.at \in {"attached", "gated"}
Unstarted ==
  /\ ~conn.started => frame.at = "idle" /\ ~ctl.gate
  /\ Starting => frame.signal = "none"
  /\ ~conn.started \/ Starting => op = NoOp /\ timer = NoTimer /\ late = {}

QuietInv == ClosedForGood /\ StopOnItsWay /\ Released /\ Unstarted

\* What increments, new tasks and the running of a task do to the queue.
LEMMA QueueHas ==
  ASSUME NEW q \in Seq(Tasks), NEW x \in Tasks, NEW kind
  PROVE  /\ Has(BumpedQueue(q), kind) <=> Has(q, kind)
         /\ Has(InertQueue(q), kind) <=> Has(q, kind)
         /\ Has(InertQueue(q) \o <<>>, kind) <=> Has(q, kind)
         /\ Has(InertQueue(q) \o <<x>>, kind) <=> Has(q, kind) \/ x.kind = kind
         /\ Has(Append(q, x), kind) <=> Has(q, kind) \/ x.kind = kind
         /\ q # <<>> => (Has(q, kind) <=> Has(Tail(q), kind) \/ Head(q).kind = kind)
<1>1. \A y \in Tasks : RequestBumped(y).kind = y.kind /\ Inert(y).kind = y.kind
  BY DEF RequestBumped, Inert, Tasks
<1>2. /\ DOMAIN BumpedQueue(q) = DOMAIN q /\ DOMAIN InertQueue(q) = DOMAIN q
      /\ \A i \in DOMAIN q :
           BumpedQueue(q)[i].kind = q[i].kind /\ InertQueue(q)[i].kind = q[i].kind
  BY <1>1 DEF BumpedQueue, InertQueue
<1>3. \A p \in Seq(Tasks) : Has(Append(p, x), kind) <=> Has(p, kind) \/ x.kind = kind
  <2> TAKE p \in Seq(Tasks)
  <2>1. /\ DOMAIN Append(p, x) = 1 .. Len(p) + 1
        /\ Len(p) \in Nat /\ DOMAIN p = 1 .. Len(p)
        /\ Append(p, x)[Len(p) + 1] = x
        /\ \A i \in 1 .. Len(p) : Append(p, x)[i] = p[i]
    OBVIOUS
  <2>2. /\ Len(p) + 1 \in DOMAIN Append(p, x)
        /\ \A i \in 1 .. Len(p) : i \in DOMAIN Append(p, x)
    BY <2>1
  <2>3. \A i \in DOMAIN Append(p, x) : i \in DOMAIN p \/ i = Len(p) + 1
    BY <2>1
  <2> HIDE DEF Has
  <2> QED
    BY <2>1, <2>2, <2>3 DEF Has
<1>4. InertQueue(q) \in Seq(Tasks)
  BY AgedQueue
<1>5. /\ InertQueue(q) \o <<x>> = Append(InertQueue(q), x)
      /\ InertQueue(q) \o <<>> = InertQueue(q)
  BY <1>4
<1>6. /\ Has(BumpedQueue(q), kind) <=> Has(q, kind)
      /\ Has(InertQueue(q), kind) <=> Has(q, kind)
  BY <1>2 DEF Has
<1>7. ASSUME q # <<>> PROVE Has(q, kind) <=> Has(Tail(q), kind) \/ Head(q).kind = kind
  <2>1. /\ Len(q) \in Nat \ {0} /\ DOMAIN q = 1 .. Len(q) /\ Head(q) = q[1]
        /\ DOMAIN Tail(q) = 1 .. (Len(q) - 1)
        /\ \A i \in 1 .. (Len(q) - 1) : Tail(q)[i] = q[i + 1]
    BY <1>7
  <2>2. ASSUME NEW i \in DOMAIN q, q[i].kind = kind
        PROVE  Has(Tail(q), kind) \/ Head(q).kind = kind
    <3>1. CASE i = 1
      BY <2>1, <2>2, <3>1
    <3>2. CASE i # 1
      <4>1. i - 1 \in 1 .. (Len(q) - 1) /\ (i - 1) + 1 = i
        BY <2>1, <3>2
      <4>2. Tail(q)[i - 1] = q[i]
        BY <2>1, <4>1
      <4> QED
        BY <2>1, <2>2, <4>1, <4>2 DEF Has
    <3> QED
      BY <3>1, <3>2
  <2>3. ASSUME NEW i \in DOMAIN Tail(q), Tail(q)[i].kind = kind PROVE Has(q, kind)
    <3>1. i + 1 \in DOMAIN q /\ Tail(q)[i] = q[i + 1]
      BY <2>1
    <3> QED
      BY <2>3, <3>1 DEF Has
  <2>4. Head(q).kind = kind => Has(q, kind)
    <3>1. 1 \in DOMAIN q
      BY <2>1
    <3> QED
      BY <2>1, <3>1 DEF Has
  <2> QED
    BY <2>2, <2>3, <2>4 DEF Has
<1> QED
  BY <1>3, <1>4, <1>5, <1>6, <1>7

\* How a handler leaves the channel and the owner when it publishes or ends.
Shows ==
  /\ chan'.closing = chan.closing /\ chan'.delegate = chan.delegate
  /\ chan' = chan \/ (~chan.closing /\ chan'.state # "Closed")
  /\ ~Starting'

\* A lifecycle publication is refused once the channel closes, and never shows
\* Closed.
LEMMA PublishShows ==
  ASSUME TypeOK, NEW at, at \notin {"attached", "gated"}, NEW s, s # "Closed",
         NEW m, NEW then, NEW rest, PublishLifecycle(at, s, m, then, rest)
  PROVE  Shows
  BY DEF TypeOK, Channels, PublishLifecycle, commitLifecycleOwner, Shows, Starting

\* A publication of data leaves the channel as it is.
LEMMA DataShows ==
  ASSUME TypeOK, NEW at, at \notin {"attached", "gated"}, NEW rest, PublishData(at, rest)
  PROVE  Shows
<1>1. Idle.at = "idle" /\ "at" \in DOMAIN Idle
  BY DEF Idle
<1>2. chan' = chan /\ frame'.at = at
  BY <1>1 DEF PublishData, Idle
<1> QED
  BY <1>2 DEF Shows, Starting

\* So does the end of a handler.
LEMMA DoneShows == ASSUME Done PROVE Shows
<1>1. Idle.at = "idle"
  BY DEF Idle
<1> QED
  BY <1>1 DEF Done, Shows, Starting

\* Failures and the offline verdict only publish.
LEMMA FailureShows ==
  ASSUME TypeOK, NEW n, NEW retryable, NEW target
  PROVE  /\ failInternal(n) => Shows
         /\ handleFailure(n, retryable, target) => Shows
         /\ Fail(n, retryable, target) => Shows
         /\ enterOffline(n) => Shows
<1>1. \A m : publishFailed(m) => Shows
  BY PublishShows DEF publishFailed
<1>2. failInternal(n) => Shows
  BY <1>1 DEF failInternal
<1>3. handleFailure(n, retryable, target) => Shows
  BY <1>1, PublishShows DEF handleFailure, failInternal
<1>4. enterOffline(n) => Shows
  BY <1>2, PublishShows DEF enterOffline
<1> QED
  BY <1>2, <1>3, <1>4 DEF Fail

\* The timer and the queue tm and q that a step leaves, or those with the next
\* request generation.
Left(tm, q) ==
  timer' \in {tm, RequestBumped(tm)} /\ queue' \in {q, BumpedQueue(q)}

\* So do the beginning of a resolution and the normalisation of a retry.
LEMMA ResolveShows ==
  ASSUME TypeOK, NEW l, NEW r, NEW n, NEW then, NEW tm, NEW q
  PROVE  /\ beginResolve(l, n, tm, q) => Shows /\ Left(tm, q)
         /\ AfterNormalized(then, tm, q) => Shows /\ Left(tm, q)
         /\ normalizeExplicitRetry(l, r, then, tm, q) => Shows /\ Left(tm, q)
         /\ beginEmoteCatalog(l) => Shows
<1> USE DEF Left, Keep
<1>1. ASSUME NEW k, NEW m, beginResolve(k, m, tm, q) PROVE Shows /\ Left(tm, q)
  <2>1. CASE Done /\ Keep(tm, q)
    BY <2>1, DoneShows
  <2>2. CASE /\ BumpRequest(tm, q)
             /\ PublishLifecycle("interrupt", "Backoff", Meta(m, "cancelled", FALSE),
                                 "none", <<>>)
    BY <2>2, PublishShows DEF BumpRequest
  <2>3. CASE /\ BumpRequest(tm, q)
             /\ PublishLifecycle("unresolved", "Unresolved", Meta(m, "none", FALSE),
                                 "none", <<>>)
    BY <2>3, PublishShows DEF BumpRequest
  <2> QED
    BY <1>1, <2>1, <2>2, <2>3 DEF beginResolve
<1>2. AfterNormalized(then, tm, q) => Shows /\ Left(tm, q)
  BY <1>1, FailureShows DEF AfterNormalized
<1>3. ASSUME normalizeExplicitRetry(l, r, then, tm, q) PROVE Shows /\ Left(tm, q)
  <2>1. CASE Done /\ Keep(tm, q)
    BY <2>1, DoneShows
  <2>2. CASE /\ PublishLifecycle("normBackoff", "Backoff", Meta(0, "cancelled", FALSE),
                                 then, <<>>)
             /\ Keep(tm, q)
    BY <2>2, PublishShows
  <2>3. CASE /\ PublishLifecycle("normUnresolved", "Unresolved", Clean, then, <<>>)
             /\ Keep(tm, q)
    BY <2>3, PublishShows
  <2>4. CASE AfterNormalized(then, tm, q)
    BY <1>2, <2>4
  <2> QED
    BY <1>3, <2>1, <2>2, <2>3, <2>4 DEF normalizeExplicitRetry
<1>4. beginEmoteCatalog(l) => Shows
  BY DataShows, DoneShows DEF beginEmoteCatalog
<1> QED
  BY <1>1, <1>2, <1>3, <1>4

\* A step of a handler of a connection that was started.
Works ==
  /\ conn.started /\ ctl' = ctl /\ env' = env
  /\ conn'.started = conn.started /\ conn'.stopped = conn.stopped
  /\ Shows
  /\ Has(queue, "stop") => Has(queue', "stop")
  /\ Has(queue', "close") => Has(queue, "close")
  /\ conn.stopped =>
       op' \in {op, NoOp} /\ timer' \in {timer, NoTimer, RequestBumped(timer)}

\* The absent timer has no generation to lose.
LEMMA BumpNothing == RequestBumped(NoTimer) = NoTimer
<1>1. NoTimer \in Timers /\ NoTimer.r = FALSE
  BY DEF NoTimer, Timers
<1>2. \A x \in Timers : x.r = FALSE => RequestBumped(x) = x
  BY DEF Timers, RequestBumped
<1> QED
  BY <1>1, <1>2

\* Such a step disturbs nothing that the invariant says.
LEMMA WorksKeeps == ASSUME QuietInv, Works PROVE QuietInv'
<1>1. ClosedForGood'
  BY DEF QuietInv, ClosedForGood, Works, Shows
<1>2. StopOnItsWay'
  BY DEF QuietInv, StopOnItsWay, Works
<1>3. Released'
  BY BumpNothing DEF QuietInv, Released, Works
<1>4. Unstarted'
  BY DEF QuietInv, Unstarted, Works, Shows, Starting
<1> QED
  BY <1>1, <1>2, <1>3, <1>4 DEF QuietInv

\* The events of a stream publish, and leave the connection started.
LEMMA EventsShow ==
  ASSUME TypeOK, NEW batch, processEvents(batch)
  PROVE  Shows /\ conn'.started = conn.started /\ conn'.stopped = conn.stopped
<1>1. Shows
  <2>1. \/ Done
        \/ PublishLifecycle("connected", "Connected", Clean, "none", batch)
        \/ PublishData("published", Tail(batch))
        \/ Fail(conn.failures, FALSE, "stream")
    BY DEF processEvents
  <2> QED
    BY <2>1, DoneShows, PublishShows, DataShows, FailureShows
<1>2. \/ conn' = conn
      \/ conn' = [conn EXCEPT !.seenInit = TRUE, !.failures = 0, !.connectedAt = TRUE]
      \/ conn' = [conn EXCEPT !.ends = 0]
      \/ conn' = [conn EXCEPT !.failures = @ + 1]
  BY DEF processEvents
<1> QED
  BY <1>1, <1>2 DEF TypeOK, Connections

\* A new request generation neither adds a task nor takes one away.
LEMMA KeptQueue ==
  ASSUME TypeOK, NEW q \in {queue, BumpedQueue(queue)}
  PROVE  \A kind : Has(q, kind) <=> Has(queue, kind)
<1>1. queue \in Seq(Tasks) /\ Task("stop") \in Tasks
  BY ConstantTypes DEF TypeOK
<1>2. \A kind : Has(BumpedQueue(queue), kind) <=> Has(queue, kind)
  BY <1>1, QueueHas
<1> QED
  BY <1>2

\* A handler's step, if a stopped connection installs nothing in it, is such a step.
LEMMA HandlerWorks ==
  ASSUME TypeOK, conn.started, UNCHANGED <<ctl, env>>, Shows,
         conn'.started = conn.started, conn'.stopped = conn.stopped,
         queue' \in {queue, BumpedQueue(queue)},
         conn.stopped =>
           op' \in {op, NoOp} /\ timer' \in {timer, NoTimer, RequestBumped(timer)}
  PROVE  Works
  BY KeptQueue DEF Works

\* The answers of the API.
LEMMA AnswerWorks ==
  ASSUME TypeOK, QuietInv, Answer \/ \E batch \in Batches : StreamEvents(batch)
  PROVE  Works
<1>0. op # NoOp => conn.started
  BY DEF QuietInv, Unstarted
<1>1. /\ conn \in Connections
      /\ \A kind \in {"resolve", "catalog", "stream"} :
           Answered(kind) => conn.started /\ ~conn.stopped
  <2>1. NoOp.kind = "none" /\ conn \in Connections
    BY DEF NoOp, TypeOK
  <2>2. ASSUME NEW kind \in {"resolve", "catalog", "stream"}, Answered(kind)
        PROVE  conn.started /\ ~conn.stopped
    <3>1. op.kind = kind /\ current(op.l, op.r)
      BY <2>2 DEF Answered
    <3>2. op # NoOp
      BY <2>1, <3>1
    <3> QED
      BY <1>0, <3>1, <3>2 DEF current
  <2> QED
    BY <2>1, <2>2
<1>2. CASE AnswerDropped
  <2>1. Shows
    BY <1>2 DEF AnswerDropped, Shows, Starting, OwnerFree, Idle
  <2> QED
    BY <1>0, <1>2, <2>1, HandlerWorks DEF AnswerDropped
<1>3. CASE ResolvedOffline \/ StreamOffline
  <2>1. Shows
    BY <1>3, FailureShows DEF ResolvedOffline, StreamOffline
  <2>2. /\ conn'.started = conn.started /\ conn'.stopped = conn.stopped
        /\ UNCHANGED <<ctl, queue, env>> /\ conn.started /\ ~conn.stopped
    BY <1>1, <1>3 DEF ResolvedOffline, StreamOffline, Connections
  <2> QED
    BY <2>1, <2>2, HandlerWorks
<1>4. CASE ResolvedLive \/ ResolvedInvalid \/ CatalogAnswered
  <2>1. Shows
    BY <1>4, FailureShows, DataShows DEF ResolvedLive, ResolvedInvalid, CatalogAnswered
  <2>2. /\ conn'.started = conn.started /\ conn'.stopped = conn.stopped
        /\ UNCHANGED <<ctl, queue, env>> /\ conn.started /\ ~conn.stopped
    BY <1>1, <1>4 DEF ResolvedLive, ResolvedInvalid, CatalogAnswered, Connections
  <2> QED
    BY <2>1, <2>2, HandlerWorks
<1>5. ASSUME NEW retryable, NEW stable,
             \/ ResolveFailed(retryable)
             \/ StreamEnded(stable)
             \/ StreamFailed(retryable, stable)
      PROVE  Works
  <2>1. Shows
    BY <1>5, FailureShows DEF ResolveFailed, StreamEnded, StreamFailed
  <2>2. /\ conn'.started = conn.started /\ conn'.stopped = conn.stopped
        /\ UNCHANGED <<ctl, queue, env>> /\ conn.started /\ ~conn.stopped
    BY <1>1, <1>5 DEF ResolveFailed, StreamEnded, StreamFailed, Connections
  <2> QED
    BY <2>1, <2>2, HandlerWorks
<1>6. ASSUME NEW batch, StreamEvents(batch) PROVE Works
  <2>1. Shows /\ conn'.started = conn.started /\ conn'.stopped = conn.stopped
    BY <1>1, <1>6, EventsShow DEF StreamEvents
  <2> QED
    BY <1>1, <1>6, <2>1, HandlerWorks DEF StreamEvents
<1> QED
  BY <1>2, <1>3, <1>4, <1>5, <1>6 DEF Answer

\* What follows a publication; SignalsDone, which may stop the connection, apart.
LEMMA ContinueWorks ==
  ASSUME TypeOK, QuietInv, Continue, ~SignalsDone PROVE Works
<1>0. /\ \A at \in PublishedAt \cup CheckedAt \cup {"cleared"} :
           frame.at = at => conn.started /\ ~Starting
      /\ \A at : Published(at) \/ StillCurrent(at) => frame.at = at /\ ~conn.stopped
      /\ conn \in Connections
  <2>1. \A at \in PublishedAt \cup CheckedAt \cup {"cleared"} :
           at \notin {"idle", "attached", "gated"}
    BY DEF PublishedAt, CheckedAt
  <2> QED
    BY <2>1
       DEF QuietInv, Unstarted, Starting, Published, StillCurrent, Suspended, current, TypeOK
<1> USE DEF PublishedAt, CheckedAt
<1>1. CASE Abandon
  <2>1. conn.started /\ ~Starting
    BY <1>0, <1>1 DEF Abandon, Suspended
  <2>2. Shows
    BY <1>1 DEF Abandon, Shows, Starting, Idle
  <2> QED
    BY <1>1, <2>1, <2>2, HandlerWorks DEF Abandon
<1>2. CASE Finish
  <2>1. conn.started /\ ~Starting
    BY <1>0, <1>2 DEF Finish, Suspended
  <2>2. Shows
    BY <1>2 DEF Finish, Shows, Starting, Idle
  <2>3. timer' \in {timer, NoTimer}
    BY <1>2 DEF Finish
  <2> QED
    BY <1>2, <2>1, <2>2, <2>3, HandlerWorks DEF Finish
<1>3. CASE \/ ContinueNormBackoff \/ ContinueInterrupt
           \/ ContinueMetadata \/ ContinueFailStage
  <2>1. conn.started
    BY <1>0, <1>3
       DEF ContinueNormBackoff, ContinueInterrupt, ContinueMetadata, ContinueFailStage
  <2>2. Shows
    BY <1>3, PublishShows
       DEF ContinueNormBackoff, ContinueInterrupt, ContinueMetadata, ContinueFailStage
  <2> QED
    BY <1>3, <2>1, <2>2, HandlerWorks
       DEF ContinueNormBackoff, ContinueInterrupt, ContinueMetadata, ContinueFailStage
<1>4. CASE ContinueNormUnresolved
  <2>1. conn.started /\ ~conn.stopped
    BY <1>0, <1>4 DEF ContinueNormUnresolved
  <2>2. Shows /\ Left(timer, queue)
    BY <1>4, ResolveShows DEF ContinueNormUnresolved
  <2> QED
    BY <1>4, <2>1, <2>2, HandlerWorks DEF ContinueNormUnresolved, Left
<1>5. CASE ContinueUnresolved \/ ContinueOpening
  <2>1. conn.started /\ ~conn.stopped
    BY <1>0, <1>5 DEF ContinueUnresolved, ContinueOpening
  <2>2. Shows
    BY <1>5, DoneShows DEF ContinueUnresolved, ContinueOpening
  <2> QED
    BY <1>5, <2>1, <2>2, HandlerWorks DEF ContinueUnresolved, ContinueOpening
<1>6. CASE ContinueConnecting
  <2>1. conn.started
    BY <1>0, <1>6 DEF ContinueConnecting
  <2>2. Shows
    BY <1>6, ResolveShows DEF ContinueConnecting
  <2> QED
    BY <1>6, <2>1, <2>2, HandlerWorks DEF ContinueConnecting
<1>7. CASE ContinueCleared
  <2>1. conn.started
    BY <1>0, <1>7 DEF ContinueCleared, Suspended
  <2>2. Shows
    BY <1>7, DoneShows DEF ContinueCleared
  <2>3. conn.stopped => op' = op
    BY <1>7 DEF ContinueCleared, current
  <2> QED
    BY <1>7, <2>1, <2>2, <2>3, HandlerWorks DEF ContinueCleared, BumpRequest
<1>8. CASE ContinueCatalog
  <2>1. conn.started
    BY <1>0, <1>8 DEF ContinueCatalog
  <2>2. Shows
    BY <1>8, PublishShows DEF ContinueCatalog
  <2>3. conn'.started = conn.started /\ conn'.stopped = conn.stopped
    BY <1>0, <1>8 DEF ContinueCatalog, Connections
  <2> QED
    BY <1>8, <2>1, <2>2, <2>3, HandlerWorks DEF ContinueCatalog, BumpRequest
<1>9. CASE ContinueConnected
  <2>1. conn.started
    BY <1>0, <1>9 DEF ContinueConnected
  <2>2. Shows
    BY <1>9, DataShows DEF ContinueConnected
  <2> QED
    BY <1>9, <2>1, <2>2, HandlerWorks DEF ContinueConnected
<1>10. CASE ContinuePublished
  <2>1. conn.started /\ ~conn.stopped
    BY <1>0, <1>10 DEF ContinuePublished
  <2>2. Shows /\ conn'.started = conn.started /\ conn'.stopped = conn.stopped
    BY <1>10, EventsShow DEF ContinuePublished
  <2> QED
    BY <1>10, <2>1, <2>2, HandlerWorks DEF ContinuePublished
<1>11. CASE ContinueBackoff
  <2>1. conn.started /\ ~conn.stopped
    BY <1>0, <1>11 DEF ContinueBackoff
  <2>2. Shows
    BY <1>11, DoneShows, FailureShows DEF ContinueBackoff
  <2> QED
    BY <1>11, <2>1, <2>2, HandlerWorks DEF ContinueBackoff
<1> QED
  BY <1>1, <1>2, <1>3, <1>4, <1>5, <1>6, <1>7, <1>8, <1>9, <1>10, <1>11 DEF Continue

\* A timer that fires, current or not.
LEMMA FireWorks ==
  ASSUME TypeOK, QuietInv, NEW tm \in {timer} \cup late, Fire(tm) PROVE Works
<1>1. tm # NoTimer /\ UNCHANGED <<ctl, conn, op, env, hist>>
  BY DEF Fire
<1>2. conn.started
  BY <1>1 DEF QuietInv, Unstarted
<1>3. CASE ~currentTimer(tm)
  <2>1. timer' \in {timer, NoTimer} /\ Done /\ queue' = queue
    BY <1>3 DEF Fire
  <2>2. Shows
    BY <2>1, DoneShows
  <2> QED
    BY <1>1, <1>2, <2>1, <2>2, HandlerWorks
<1>4. CASE currentTimer(tm)
  <2>1. \/ normalizeExplicitRetry(tm.l, tm.r, "resolve", NoTimer, queue)
        \/ beginEmoteCatalog(tm.l) /\ Keep(NoTimer, queue)
        \/ beginResolve(tm.l, conn.failures, NoTimer, queue)
    BY <1>4 DEF Fire
  <2>2. Shows /\ Left(NoTimer, queue)
    BY <2>1, ResolveShows DEF Left, Keep
  <2>3. ~conn.stopped
    BY <1>4 DEF currentTimer, current
  <2> QED
    BY <1>1, <1>2, <2>2, <2>3, HandlerWorks DEF Left
<1> QED
  BY <1>3, <1>4

-----------------------------------------------------------------------------
(* Stops, retries and calls                                                *)

\* A queue that the owner may be left with: no close that was not asked for.
Passes(q) ==
  /\ q \in Seq(Tasks)
  /\ Has(q, "close") => Has(queue, "close")

\* What closeOwner leaves.
LEMMA CloseFields ==
  ASSUME TypeOK
  PROVE  LET c == closeOwner(chan)
         IN  c.state = "Closed" /\ c.closing /\ ~c.delegate /\ ~c.live
  BY DEF TypeOK, Channels, closeOwner

\* What a step does to a suspended handler keeps its place.
LEMMA InertFields ==
  ASSUME TypeOK
  PROVE  /\ Inert(frame).at = frame.at /\ Inert(frame).signal = frame.signal
         /\ [frame EXCEPT !.signal = "none"].at = frame.at
         /\ [frame EXCEPT !.signal = "none"].signal = "none"
         /\ Inert([frame EXCEPT !.signal = "none"]).at = frame.at
         /\ Inert([frame EXCEPT !.signal = "none"]).signal = "none"
<1>1. frame \in FrameRecords
  BY DEF TypeOK, Frames
<1> QED
  BY <1>1 DEF FrameRecords, Inert

\* stopOwner keeps the invariant, whoever calls it.
LEMMA StopQuiet ==
  ASSUME TypeOK, QuietInv, NEW close, NEW a \in Atomics, NEW c \in Connections, NEW q,
         Passes(q), stopOwner(close, a, c, q), env'.closer = env.closer,
         c.started = conn.started, c.stopped = conn.stopped, c.stopped => c = conn
  PROVE  QuietInv'
<1>1. ctl'.stopRequested /\ ~ctl'.gate
  BY DEF stopOwner, Atomics
<1>2. CASE c.stopped
  <2>1. queue' = q /\ UNCHANGED <<chan, conn, op, timer, late, frame>> /\ conn.stopped
    BY <1>2 DEF stopOwner
  <2>2. ClosedForGood'
    BY <1>1, <2>1 DEF QuietInv, ClosedForGood, Passes
  <2> QED
    BY <1>1, <2>1, <2>2 DEF QuietInv, StopOnItsWay, Released, Unstarted, Starting
<1>3. CASE ~c.stopped
  <2>1. /\ conn'.started = conn.started /\ conn'.stopped
        /\ op' = NoOp /\ timer' = NoTimer /\ frame' = Inert(frame)
        /\ late' = {InertTimer(x) : x \in late \cup Cancelled(timer)}
        /\ queue' = InertQueue(q) \o <<>>
    BY <1>3 DEF stopOwner, invalidateOwner, Connections
  <2>2. chan' \in {chan, [chan EXCEPT !.delegate = FALSE],
                   [chan EXCEPT !.closing = TRUE], closeOwner(chan)}
    BY <1>3 DEF stopOwner
  <2>3. /\ chan.closing => chan'.closing
        /\ (chan'.delegate => chan.delegate) /\ (chan'.live => chan.live)
        /\ chan'.state # chan.state =>
             chan'.state = "Closed" /\ chan'.closing /\ ~chan'.delegate /\ ~chan'.live
    <3>1. \A d \in {[chan EXCEPT !.delegate = FALSE], [chan EXCEPT !.closing = TRUE]} :
            /\ (chan.closing => d.closing) /\ d.state = chan.state
            /\ (d.delegate => chan.delegate) /\ (d.live => chan.live)
      BY DEF TypeOK, Channels
    <3>2. CASE chan' = closeOwner(chan)
      BY <3>2, CloseFields
    <3>3. CASE chan' # closeOwner(chan)
      <4>1. chan' = chan \/ chan' \in {[chan EXCEPT !.delegate = FALSE],
                                      [chan EXCEPT !.closing = TRUE]}
        BY <2>2, <3>3
      <4> QED
        BY <3>1, <4>1
    <3> QED
      BY <3>2, <3>3
  <2>4. Has(queue', "close") => Has(queue, "close")
    <3>1. Task("stop") \in Tasks
      BY ConstantTypes
    <3> QED
      BY <2>1, <3>1, QueueHas DEF Passes
  <2>5. ClosedForGood'
    BY <1>1, <2>1, <2>3, <2>4 DEF QuietInv, ClosedForGood
  <2>6. late = {} /\ timer = NoTimer => late' = {}
    BY <2>1 DEF Cancelled
  <2>7. Unstarted'
    BY <1>1, <2>1, <2>6, InertFields DEF QuietInv, Unstarted, Starting
  <2> QED
    BY <2>1, <2>5, <2>7 DEF QuietInv, StopOnItsWay, Released
<1> QED
  BY <1>2, <1>3

\* So does retryOwner, which schedules, posts a failure, or stops.
LEMMA RetryQuiet ==
  ASSUME TypeOK, QuietInv, NEW epoch, NEW loc \in Locators \cup {Same}, epoch \in Nat,
         NEW a \in Atomics, NEW q, NEW h, Passes(q), retryOwner(epoch, loc, a, q, h),
         Has(queue, "stop") => Has(q, "stop"), env'.closer = env.closer, ~Starting,
         a.stopRequested = ctl.stopRequested, a.gate = ctl.gate
  PROVE  QuietInv'
<1> DEFINE x == [Task("schedFail") EXCEPT !.l = TRUE, !.r = TRUE]
<1>0. x \in Tasks /\ x.kind = "schedFail"
  BY DEF Task, Tasks
<1>1. /\ Retried(epoch, loc) \in Connections
      /\ Retried(epoch, loc).stopped = conn.stopped
      /\ Retried(epoch, loc).started = conn.started
  BY DEF TypeOK, Retried, Connections
<1> HIDE DEF x
<1>2. CASE ctl' = a /\ queue' = q /\ UNCHANGED <<chan, conn, op, timer, late, frame>>
  <2>1. ClosedForGood'
    BY <1>2 DEF QuietInv, ClosedForGood, Passes
  <2> QED
    BY <1>2, <2>1 DEF QuietInv, StopOnItsWay, Released, Unstarted, Starting
<1>3. CASE /\ ~a.stopRequested /\ ~conn.stopped /\ conn.started
           /\ \/ invalidateOwner(Fresh("explicit"), q, <<>>)
              \/ invalidateOwner(NoTimer, q, <<x>>)
           /\ ctl' = a /\ conn' = Retried(epoch, loc) /\ UNCHANGED chan
  <2>1. /\ frame' = Inert(frame)
        /\ queue' = InertQueue(q) \o <<>> \/ queue' = InertQueue(q) \o <<x>>
    BY <1>3 DEF invalidateOwner
  <2>2. Has(queue', "close") => Has(queue, "close")
    <3>1. /\ Has(InertQueue(q) \o <<>>, "close") => Has(q, "close")
          /\ Has(InertQueue(q) \o <<x>>, "close") => Has(q, "close")
      BY <1>0, QueueHas DEF Passes
    <3> QED
      BY <2>1, <3>1 DEF Passes
  <2>3. ClosedForGood'
    BY <1>1, <1>3, <2>2 DEF QuietInv, ClosedForGood
  <2>4. Unstarted'
    BY <1>1, <1>3, <2>1, InertFields DEF Unstarted, Starting
  <2> QED
    BY <1>1, <1>3, <2>3, <2>4 DEF QuietInv, StopOnItsWay, Released
<1>4. CASE ~conn.stopped /\ stopOwner(TRUE, a, Retried(epoch, loc), q)
  BY <1>1, <1>4, StopQuiet
<1> QED
  BY <1>2, <1>3, <1>4, Zenon DEF retryOwner, x

\* requestRetry on the owner thread is retryOwner with the next epoch.
LEMMA RequestRetryQuiet ==
  ASSUME TypeOK, QuietInv, NEW loc \in Locators \cup {Same}, NEW q, NEW h, Passes(q),
         requestRetryOwner(loc, q, h), Has(queue, "stop") => Has(q, "stop"),
         env'.closer = env.closer, ~Starting
  PROVE  QuietInv'
<1> DEFINE e == ctl.requestedEpoch + 1
           a == [ctl EXCEPT !.requestedEpoch = e]
<1>1. e \in Nat
  BY DEF TypeOK, Atomics
<1>2. retryOwner(e, loc, a, q, h)
  BY DEF requestRetryOwner
<1> HIDE DEF e
<1>3. a \in Atomics /\ a.stopRequested = ctl.stopRequested /\ a.gate = ctl.gate
  BY <1>1 DEF TypeOK, Atomics
<1> HIDE DEF a
<1> QED
  BY <1>1, <1>2, <1>3, RetryQuiet

\* start(): it gives up on a stop or a close that overtook it.
LEMMA StartQuiet == ASSUME TypeOK, QuietInv, Start PROVE QuietInv'
<1>0. conn \in Connections /\ ctl \in Atomics /\ chan \in Channels /\ Idle.at = "idle"
      /\ Idle.signal = "none"
  BY DEF TypeOK, Idle
<1>1. CASE StartAttach
  <2>1. /\ ~ctl.stopRequested /\ ~conn.started /\ ~conn.stopped /\ ~chan.closing
        /\ conn'.started /\ ~conn'.stopped
        /\ UNCHANGED <<chan, ctl, op, timer, late, queue, env>>
        /\ frame'.at = "attached" /\ frame'.signal = "none"
    BY <1>0, <1>1 DEF StartAttach, Connections, Idle
  <2>2. ClosedForGood'
    BY <2>1 DEF QuietInv, ClosedForGood
  <2> QED
    BY <2>1, <2>2 DEF QuietInv, StopOnItsWay, Released, Unstarted
<1>2. CASE StartGate
  <2>1. /\ frame.at = "attached" /\ ctl'.stopRequested = ctl.stopRequested
        /\ UNCHANGED <<chan, conn, op, timer, late, queue, env>>
        /\ frame'.at = "gated" /\ frame'.signal = "none"
    BY <1>0, <1>2 DEF StartGate, Atomics, Idle
  <2>2. ClosedForGood'
    BY <2>1 DEF QuietInv, ClosedForGood
  <2>3. conn.started
    BY <2>1 DEF QuietInv, Unstarted
  <2> QED
    BY <2>1, <2>2, <2>3 DEF QuietInv, StopOnItsWay, Released, Unstarted, Starting
<1>3. CASE StartDelegate
  <2>1. frame.at = "gated" /\ UNCHANGED <<op, timer, late, queue, env>>
    BY <1>3 DEF StartDelegate
  <2>2. conn.started /\ op = NoOp /\ timer = NoTimer /\ late = {}
    BY <2>1 DEF QuietInv, Unstarted, Starting
  <2>3. /\ conn'.started = conn.started /\ (conn.stopped => conn'.stopped)
        /\ ctl'.stopRequested = ctl.stopRequested
        /\ chan' = chan \/ (~chan.closing /\ chan' = [chan EXCEPT !.delegate = TRUE])
        /\ frame'.at \in {"idle", "delegate"}
    BY <1>0, <1>3 DEF StartDelegate, Connections, Atomics, Idle
  <2>4. ClosedForGood'
    BY <1>0, <2>1, <2>3 DEF QuietInv, ClosedForGood, Channels
  <2> QED
    BY <2>1, <2>2, <2>3, <2>4 DEF QuietInv, StopOnItsWay, Released, Unstarted, Starting
<1>4. CASE StartResolve
  <2>1. conn.started /\ UNCHANGED <<ctl, conn, op, env, hist>>
    BY <1>4 DEF StartResolve, QuietInv, Unstarted
  <2>2. Shows /\ Left(timer, queue)
    BY <1>4, DoneShows, ResolveShows DEF StartResolve, Left, Keep
  <2>3. Works
    BY <2>1, <2>2, HandlerWorks DEF Left
  <2> QED
    BY <2>3, WorksKeeps
<1> QED
  BY <1>1, <1>2, <1>3, <1>4 DEF Start

\* The end of commitLifecycleOwner carries out a close asked for meanwhile.
LEMMA SignalsDoneQuiet == ASSUME TypeOK, QuietInv, SignalsDone PROVE QuietInv'
<1>1. /\ frame.signal = "state" /\ UNCHANGED env /\ ~Starting
      /\ ctl \in Atomics /\ conn \in Connections
  BY DEF SignalsDone, QuietInv, Unstarted, TypeOK
<1>2. CASE ~chan.closing
  <2>1. /\ frame' = [frame EXCEPT !.signal = "none"]
        /\ UNCHANGED <<chan, ctl, conn, op, timer, late, queue>>
    BY <1>2 DEF SignalsDone
  <2>2. ClosedForGood'
    BY <1>1, <2>1 DEF QuietInv, ClosedForGood
  <2> QED
    BY <1>1, <2>1, <2>2, InertFields
       DEF QuietInv, StopOnItsWay, Released, Unstarted, Starting
<1>3. CASE chan.closing /\ ~(conn.started /\ ~ctl.stopRequested)
  <2>1. /\ frame' = [frame EXCEPT !.signal = "none"] /\ chan' = closeOwner(chan)
        /\ UNCHANGED <<ctl, conn, op, timer, late, queue>>
    BY <1>3 DEF SignalsDone
  <2>2. ClosedForGood'
    BY <1>1, <1>3, <2>1, CloseFields DEF QuietInv, ClosedForGood
  <2> QED
    BY <1>1, <2>1, <2>2, InertFields
       DEF QuietInv, StopOnItsWay, Released, Unstarted, Starting
<1>4. CASE chan.closing /\ conn.started /\ ~ctl.stopRequested
  <2>1. /\ frame' = Inert([frame EXCEPT !.signal = "none"]) /\ chan' = closeOwner(chan)
        /\ ctl'.stopRequested /\ conn'.stopped /\ conn'.started /\ op' = NoOp
        /\ timer' = NoTimer
    BY <1>1, <1>4 DEF SignalsDone, Atomics, Connections
  <2>2. ClosedForGood'
    BY <1>1, <2>1, CloseFields DEF ClosedForGood
  <2> QED
    BY <1>1, <2>1, <2>2, InertFields
       DEF QuietInv, StopOnItsWay, Released, Unstarted, Starting
<1> QED
  BY <1>2, <1>3, <1>4

\* The owner's calls, which an observer may make in the middle of a handler.
LEMMA OwnerCallsQuiet ==
  ASSUME TypeOK, QuietInv,
         \/ OwnerClose
         \/ \E loc \in Locators \cup {Same} : OwnerRetry(loc)
         \/ \E close \in BOOLEAN : OwnerStop(close)
  PROVE  QuietInv'
<1>1. OwnerCalls
  BY DEF OwnerClose, OwnerRetry, OwnerStop
<1>2. env'.closer = env.closer /\ ~Starting
  BY <1>1 DEF OwnerCalls, OwnerFree, Starting, Idle, QuietInv, Unstarted, TypeOK
<1>3. Passes(queue) /\ ctl \in Atomics /\ conn \in Connections /\ chan \in Channels
  BY DEF Passes, TypeOK
<1>4. ASSUME NEW loc \in Locators \cup {Same}, OwnerRetry(loc) PROVE QuietInv'
  BY <1>2, <1>3, <1>4, RequestRetryQuiet DEF OwnerRetry
<1>5. ASSUME NEW close, stopOwner(close, ctl, conn, queue) PROVE QuietInv'
  BY <1>2, <1>3, <1>5, StopQuiet
<1>6. CASE /\ OwnerClose
           /\ ~(conn.started /\ ~ctl.stopRequested)
  <2>1. /\ UNCHANGED <<ctl, conn, op, timer, late, queue, frame>>
        /\ ~chan.closing
        /\ chan' = [chan EXCEPT !.closing = TRUE] \/ chan' = closeOwner(chan)
    BY <1>6 DEF OwnerClose
  <2>2. /\ chan'.closing /\ (chan'.state = "Closed" => ~chan'.delegate /\ ~chan'.live)
    BY <1>3, <2>1, CloseFields DEF QuietInv, ClosedForGood, Channels
  <2>3. ClosedForGood'
    BY <1>2, <1>6, <2>1, <2>2 DEF ClosedForGood
  <2> QED
    BY <2>1, <2>3 DEF QuietInv, StopOnItsWay, Released, Unstarted, Starting
<1> QED
  BY <1>4, <1>5, <1>6 DEF OwnerClose, OwnerStop

\* The calls of other threads, which only queue and set atomics.
LEMMA ThreadCallsQuiet ==
  ASSUME TypeOK, QuietInv,
         \/ ThreadReconnect \/ ThreadCloseGate \/ ThreadCloseCancel
         \/ \E loc \in Locators \cup {Same} : ThreadRetry(loc)
         \/ \E close \in BOOLEAN : ThreadStop(close)
  PROVE  QuietInv'
<1>a. UNCHANGED <<conn, op, timer, late, frame>>
  BY DEF ThreadReconnect, ThreadCloseGate, ThreadCloseCancel, ThreadRetry, ThreadStop,
         ThreadCalls
<1>b. \A e \in [calls : Nat, closer : {"none", "gating", "done"}] :
        /\ [e EXCEPT !.calls = @ + 1].closer = e.closer
        /\ [e EXCEPT !.closer = "done"].closer = "done"
  OBVIOUS
<1>0. /\ UNCHANGED <<conn, op, timer, late, frame>>
      /\ queue \in Seq(Tasks) /\ chan \in Channels /\ ctl \in Atomics
      /\ [env EXCEPT !.calls = @ + 1].closer = env.closer
      /\ [env EXCEPT !.closer = "done"].closer = "done"
  BY <1>a, <1>b DEF TypeOK
<1>1. /\ Task("reconnect") \in Tasks /\ Task("reconnect").kind = "reconnect"
      /\ Task("close") \in Tasks /\ Task("close").kind = "close"
      /\ Task("stop") \in Tasks /\ Task("stop").kind = "stop"
      /\ \A close \in BOOLEAN : /\ [Task("stop") EXCEPT !.close = close] \in Tasks
                                 /\ [Task("stop") EXCEPT !.close = close].kind = "stop"
      /\ \A e \in Nat, loc \in Locators \cup {Same} :
           /\ [Task("retry") EXCEPT !.epoch = e, !.locator = loc] \in Tasks
           /\ [Task("retry") EXCEPT !.epoch = e, !.locator = loc].kind = "retry"
  BY DEF Task, Tasks
<1> HIDE DEF Tasks
<1>2. ASSUME NEW x \in Tasks, x.kind # "close", UNCHANGED chan, env'.closer = env.closer,
             queue' = Append(queue, x), ctl.stopRequested => ctl'.stopRequested,
             ctl'.stopRequested => ctl.stopRequested \/ x.kind = "stop",
             ctl'.gate => ctl.gate
      PROVE  QuietInv'
  <2>1. \A kind : Has(queue', kind) <=> Has(queue, kind) \/ x.kind = kind
    BY <1>0, <1>2, QueueHas
  <2>2. ClosedForGood'
    BY <1>0, <1>2, <2>1 DEF QuietInv, ClosedForGood
  <2> QED
    BY <1>0, <1>2, <2>1, <2>2 DEF QuietInv, StopOnItsWay, Released, Unstarted, Starting
<1>3. ASSUME NEW loc \in Locators \cup {Same}, ThreadRetry(loc) PROVE QuietInv'
  <2> DEFINE e == ctl.requestedEpoch + 1
  <2>1. /\ env'.closer = env.closer /\ UNCHANGED chan
        /\ \/ /\ ctl' = [ctl EXCEPT !.requestedEpoch = e]
              /\ queue' = Append(queue, [Task("retry") EXCEPT !.epoch = e, !.locator = loc])
           \/ /\ ctl' = [requestedEpoch |-> e, stopRequested |-> TRUE, gate |-> FALSE]
              /\ queue' = Append(queue, [Task("stop") EXCEPT !.close = TRUE])
    BY <1>0, <1>3 DEF ThreadRetry
  <2>2. e \in Nat
    BY <1>0 DEF Atomics
  <2> HIDE DEF e
  <2>3. CASE /\ ctl' = [ctl EXCEPT !.requestedEpoch = e]
             /\ queue' = Append(queue, [Task("retry") EXCEPT !.epoch = e, !.locator = loc])
    <3>1. ctl'.stopRequested = ctl.stopRequested /\ ctl'.gate = ctl.gate
      BY <1>0, <2>3 DEF Atomics
    <3> DEFINE x == [Task("retry") EXCEPT !.epoch = e, !.locator = loc]
    <3>2. x \in Tasks /\ x.kind = "retry" /\ queue' = Append(queue, x)
      BY <1>1, <2>2, <2>3
    <3> HIDE DEF x
    <3> QED
      BY <1>2, <2>1, <3>1, <3>2
  <2>4. CASE /\ ctl' = [requestedEpoch |-> e, stopRequested |-> TRUE, gate |-> FALSE]
             /\ queue' = Append(queue, [Task("stop") EXCEPT !.close = TRUE])
    <3>1. ctl'.stopRequested /\ ~ctl'.gate
      BY <2>4
    <3> DEFINE x == [Task("stop") EXCEPT !.close = TRUE]
    <3>2. x \in Tasks /\ x.kind = "stop" /\ queue' = Append(queue, x)
      BY <1>1, <2>4
    <3> HIDE DEF x
    <3> QED
      BY <1>2, <2>1, <3>1, <3>2
  <2> QED
    BY <2>1, <2>3, <2>4
<1>4. ASSUME NEW close \in BOOLEAN, ThreadStop(close) PROVE QuietInv'
  <2>1. /\ env'.closer = env.closer /\ UNCHANGED chan
        /\ ctl' = [ctl EXCEPT !.stopRequested = TRUE, !.gate = FALSE]
        /\ queue' = Append(queue, [Task("stop") EXCEPT !.close = close])
    BY <1>0, <1>4 DEF ThreadStop, StopFromThread
  <2>2. ctl'.stopRequested /\ ~ctl'.gate
    BY <1>0, <2>1 DEF Atomics
  <2> DEFINE x == [Task("stop") EXCEPT !.close = close]
  <2>3. x \in Tasks /\ x.kind = "stop" /\ queue' = Append(queue, x)
    BY <1>1, <2>1
  <2> HIDE DEF x
  <2> QED
    BY <1>2, <2>1, <2>2, <2>3
<1>5. CASE ThreadReconnect
  <2>1. /\ env'.closer = env.closer /\ UNCHANGED <<chan, ctl>>
        /\ queue' = Append(queue, Task("reconnect"))
    BY <1>0, <1>5 DEF ThreadReconnect
  <2> QED
    BY <1>1, <1>2, <2>1
<1>6. CASE ThreadCloseGate
  <2>1. /\ UNCHANGED <<ctl, queue>> /\ chan' = [chan EXCEPT !.closing = TRUE]
        /\ ~chan.closing
    BY <1>6 DEF ThreadCloseGate
  <2>2. chan'.closing /\ chan'.state # "Closed"
    BY <1>0, <2>1 DEF Channels, QuietInv, ClosedForGood
  <2>3. ~Has(queue, "close")
    BY <2>1 DEF QuietInv, ClosedForGood
  <2>4. ClosedForGood'
    BY <2>1, <2>2, <2>3 DEF ClosedForGood
  <2> QED
    BY <1>0, <2>1, <2>4 DEF QuietInv, StopOnItsWay, Released, Unstarted, Starting
<1>7. CASE ThreadCloseCancel
  <2> DEFINE attached == conn.started /\ ~ctl.stopRequested
             stopping == IF attached THEN Append(queue, Task("stop")) ELSE queue
  <2>1. /\ env'.closer = "done" /\ chan.closing
        /\ ctl' = IF attached THEN [ctl EXCEPT !.stopRequested = TRUE, !.gate = FALSE]
                  ELSE ctl
        /\ \/ queue' = Append(stopping, Task("close")) /\ UNCHANGED chan
           \/ queue' = stopping /\ chan' = closeOwner(chan)
    BY <1>0, <1>7 DEF ThreadCloseCancel, QuietInv, ClosedForGood
  <2>2. /\ stopping \in Seq(Tasks)
        /\ Has(stopping, "stop") <=> Has(queue, "stop") \/ attached
    <3>0. \A x \in Tasks : Append(queue, x) \in Seq(Tasks)
      BY <1>0
    <3>1. Append(queue, Task("stop")) \in Seq(Tasks)
      BY <1>1, <3>0
    <3>2. Has(Append(queue, Task("stop")), "stop")
      BY <1>0, <1>1, QueueHas
    <3> QED
      BY <1>0, <3>1, <3>2
  <2> HIDE DEF stopping
  <2>3. Has(queue', "stop") <=> Has(queue, "stop") \/ attached
    <3>1. Has(Append(stopping, Task("close")), "stop") <=> Has(stopping, "stop")
      BY <1>1, <2>2, QueueHas
    <3>2. queue' \in {stopping, Append(stopping, Task("close"))}
      BY <2>1
    <3> HIDE DEF attached
    <3> QED
      BY <2>2, <3>1, <3>2
  <2>4. /\ conn.started => ctl'.stopRequested
        /\ ctl'.stopRequested => ctl.stopRequested \/ attached
        /\ ctl'.gate => ctl.gate
    BY <1>0, <2>1 DEF Atomics
  <2>5. chan'.closing /\ (chan'.state = "Closed" => ~chan'.delegate /\ ~chan'.live)
    BY <2>1, CloseFields DEF QuietInv, ClosedForGood
  <2>6. ClosedForGood'
    BY <1>0, <2>1, <2>4, <2>5 DEF ClosedForGood
  <2>7. StopOnItsWay'
    BY <1>0, <2>3, <2>4 DEF QuietInv, StopOnItsWay
  <2> QED
    BY <1>0, <2>4, <2>6, <2>7 DEF QuietInv, Released, Unstarted, Starting
<1> QED
  BY <1>3, <1>4, <1>5, <1>6, <1>7

\* Every kind of queued task.
LEMMA RunTaskQuiet == ASSUME TypeOK, QuietInv, RunTask PROVE QuietInv'
<1> DEFINE task == Head(queue)
           q == Tail(queue)
<1>1. /\ queue \in Seq(Tasks) /\ queue # <<>> /\ ~Starting
      /\ chan \in Channels /\ ctl \in Atomics /\ conn \in Connections
  BY DEF RunTask, TypeOK, OwnerFree, Idle, Starting
<1>2. task \in Tasks /\ q \in Seq(Tasks)
  BY <1>1
<1>3. \A kind : Has(queue, kind) <=> Has(q, kind) \/ task.kind = kind
  BY <1>1, <1>2, QueueHas
<1>4. Passes(q)
  BY <1>2, <1>3 DEF Passes
<1>5. CASE task.kind = "retry"
  <2>1. retryOwner(task.epoch, task.locator, ctl, q, hist) /\ env' = env
    BY <1>5 DEF RunTask
  <2> HIDE DEF task, q
  <2>2. task.epoch \in Nat /\ task.locator \in Locators \cup {Same}
    BY <1>2 DEF Tasks
  <2>3. Has(queue, "stop") => Has(q, "stop")
    BY <1>3, <1>5
  <2> QED
    BY <1>1, <1>4, <2>1, <2>2, <2>3, RetryQuiet
<1>6. CASE task.kind = "stop"
  <2>1. stopOwner(task.close, ctl, conn, q) /\ env' = env
    BY <1>6 DEF RunTask
  <2> HIDE DEF task, q
  <2> QED
    BY <1>1, <1>4, <2>1, StopQuiet
<1>7. CASE task.kind = "close"
  <2>1. /\ chan' = closeOwner(chan) /\ queue' = q
        /\ UNCHANGED <<ctl, conn, op, timer, late, frame, env>>
    BY <1>7 DEF RunTask
  <2> HIDE DEF task, q
  <2>2. /\ conn.started => ctl.stopRequested
        /\ Has(queue, "stop") => Has(q, "stop")
    BY <1>3, <1>7 DEF QuietInv, ClosedForGood
  <2>3. ClosedForGood'
    BY <2>1, <2>2, CloseFields DEF ClosedForGood
  <2> QED
    BY <2>1, <2>2, <2>3 DEF QuietInv, StopOnItsWay, Released, Unstarted, Starting
<1>8. CASE task.kind = "schedFail"
  <2>1. /\ normalizeExplicitRetry(task.l, task.r, "fail", timer, q)
        /\ UNCHANGED <<ctl, conn, op, env>>
    BY <1>8 DEF RunTask
  <2> HIDE DEF task, q
  <2>2. Shows /\ Left(timer, q)
    BY <2>1, ResolveShows
  <2>3. \A kind : Has(BumpedQueue(q), kind) <=> Has(q, kind)
    BY <1>2, QueueHas
  <2>4. /\ Has(queue, "stop") => Has(queue', "stop")
        /\ Has(queue', "close") => Has(queue, "close")
    BY <1>3, <1>8, <2>2, <2>3 DEF Left
  <2>5. CASE conn.started
    <3>1. Works
      BY <2>1, <2>2, <2>4, <2>5 DEF Works, Left
    <3> QED
      BY <3>1, WorksKeeps
  <2>6. CASE ~conn.started
    <3>1. ~ctl.gate
      BY <2>6 DEF QuietInv, Unstarted
    <3>2. Done /\ Keep(timer, q)
      BY <2>1, <3>1 DEF normalizeExplicitRetry, current
    <3>3. UNCHANGED <<chan, late, timer>> /\ frame'.at = "idle" /\ queue' = q
      BY <3>2 DEF Done, Keep, Idle
    <3>4. ClosedForGood'
      BY <2>1, <2>4, <3>3 DEF QuietInv, ClosedForGood
    <3> QED
      BY <2>1, <2>4, <2>6, <3>3, <3>4
         DEF QuietInv, StopOnItsWay, Released, Unstarted, Starting
  <2> QED
    BY <2>5, <2>6
<1>9. CASE task.kind = "reconnect"
  <2>1. /\ UNCHANGED env
        /\ \/ queue' = q /\ UNCHANGED <<chan, ctl, conn, op, timer, late, frame>>
           \/ requestRetryOwner(Same, q, hist)
    BY <1>9 DEF RunTask
  <2> HIDE DEF task, q
  <2>2. Has(queue, "stop") => Has(q, "stop")
    BY <1>3, <1>9
  <2>3. CASE queue' = q /\ UNCHANGED <<chan, ctl, conn, op, timer, late, frame>>
    <3>1. ClosedForGood'
      BY <1>4, <2>1, <2>3 DEF QuietInv, ClosedForGood, Passes
    <3> QED
      BY <2>2, <2>3, <3>1 DEF QuietInv, StopOnItsWay, Released, Unstarted, Starting
  <2>4. CASE requestRetryOwner(Same, q, hist)
    BY <1>1, <1>4, <2>1, <2>2, <2>4, RequestRetryQuiet
  <2> QED
    BY <2>1, <2>3, <2>4
<1> QED
  <2> HIDE DEF task, q
  <2>1. task.kind \in {"retry", "stop", "close", "reconnect", "schedFail"}
    BY <1>2 DEF Tasks
  <2> QED
    BY <2>1, <1>5, <1>6, <1>7, <1>8, <1>9

\* A new connection has done nothing yet, whatever its predecessor left visible.
LEMMA QuietInit == Init => QuietInv
<1> SUFFICES ASSUME Init PROVE QuietInv
  OBVIOUS
<1>1. /\ chan.state # "Closed" /\ ~ctl.stopRequested /\ ~ctl.gate /\ env.closer = "none"
      /\ ~conn.started /\ ~conn.stopped /\ op = NoOp /\ timer = NoTimer /\ late = {}
      /\ queue = <<>> /\ frame.at = "idle" /\ frame.signal = "none"
  BY ConnectionAssumption DEF Init, Idle
<1>2. \A kind : ~Has(queue, kind)
  BY <1>1 DEF Has
<1> HIDE DEF Has
<1> QED
  BY <1>1, <1>2 DEF QuietInv, ClosedForGood, StopOnItsWay, Released, Unstarted, Starting

\* The invariant is inductive.
LEMMA QuietStep == TypeOK /\ QuietInv /\ [Next]_vars => QuietInv'
<1> SUFFICES ASSUME TypeOK, QuietInv, [Next]_vars PROVE QuietInv'
  OBVIOUS
<1>1. CASE UNCHANGED vars
  BY <1>1
     DEF vars, QuietInv, ClosedForGood, StopOnItsWay, Released, Unstarted, Starting, Has
<1>2. CASE Start
  BY <1>2, StartQuiet
<1>3. CASE ApplicationCalls \/ ThreadCloseCancel
  BY <1>3, OwnerCallsQuiet, ThreadCallsQuiet DEF ApplicationCalls
<1>4. CASE RunTask
  BY <1>4, RunTaskQuiet
<1>5. CASE Answer \/ \E batch \in Batches : StreamEvents(batch)
  BY <1>5, AnswerWorks, WorksKeeps
<1>6. CASE Continue
  BY <1>6, SignalsDoneQuiet, ContinueWorks, WorksKeeps
<1>7. CASE \E tm \in {timer} \cup late : Fire(tm)
  BY <1>7, FireWorks, WorksKeeps
<1> QED
  BY <1>1, <1>2, <1>3, <1>4, <1>5, <1>6, <1>7 DEF Next

\* Once a channel is Closed it offers no reconnect and shows nobody live, and its
\* connection, if it was ever started, has been told to stop; a connection told to
\* stop has stopped or has its stop queued, and one that stopped holds neither a
\* request nor a timer (closeOwner, stopOwner, and the re-checks of start()).
THEOREM QuietOnceClosed == Spec => []ClosedIsQuiet
<1>1. Init => TypeOK /\ QuietInv
  BY InitTypes, QuietInit
<1>2. TypeOK /\ QuietInv /\ [Next]_vars => (TypeOK /\ QuietInv)'
  BY StepTypes, QuietStep
<1>3. QuietInv => ClosedIsQuiet
  BY DEF QuietInv, ClosedForGood, StopOnItsWay, Released, ClosedIsQuiet, Has
<1> QED
  BY <1>1, <1>2, <1>3, PTL DEF Spec

(***************************************************************************)
(* A running connection is never stranded, and the state it shows tells    *)
(* what it is doing, for every value of the constants but one: an observer *)
(* of the empty emote catalog must not call the connection back, since     *)
(* beginEmoteCatalog does not look again (NeverStranded is violated then). *)
(***************************************************************************)

\* The failure of a deferred retry, still to be reported by its task.
Live(x) == x.kind = "schedFail" /\ x.l /\ x.r
NoLive(q) == \A i \in DOMAIN q : ~Live(q[i])
OneLive(q) == \A i, j \in DOMAIN q : Live(q[i]) /\ Live(q[j]) => i = j
RetryIn(q, e) == \E i \in DOMAIN q : q[i].kind = "retry" /\ q[i].epoch = e

\* No request, timer or deferred failure is current.
Nothing == ~LiveOp /\ ~LiveTimer /\ NoLive(queue)

\* A suspended handler that goes on, unless something happens meanwhile.
Working == frame.at \notin {"idle", "attached", "gated"}
FrameLive == frame.l /\ (frame.at = "delegate" \/ frame.r)

\* Each request and each timer belongs to one state that is shown.
Waiting == chan.state = "Backoff" /\ chan.meta.due
OpFits ==
  LiveOp =>
    /\ op.kind \in {"resolve", "catalog", "stream"}
    /\ op.kind = "resolve" => chan.state = "Unresolved"
    /\ op.kind = "catalog" => chan.state = "Connecting" \/ Waiting
    /\ op.kind = "stream" => IF conn.seenInit THEN chan.state = "Connected"
                                              ELSE chan.state = "Connecting"
TimerFits ==
  LiveTimer =>
    /\ timer.kind \in {"resolve", "stream", "explicit"}
    /\ timer.kind = "resolve" => chan.state = "Offline" \/ Waiting
    /\ timer.kind = "stream" => Waiting

\* Never two ways on at once.
OneWay ==
  /\ ~(LiveOp /\ LiveTimer)
  /\ LiveOp \/ LiveTimer => NoLive(queue)
  /\ OneLive(queue)

\* Between handlers.
Resting ==
  /\ OpFits /\ TimerFits /\ OneWay
  /\ RetryPending \/ chan.state = "Failed" \/ LiveOp \/ LiveTimer

\* In a handler that a retry has overtaken.
Superseded ==
  /\ ~LiveOp /\ (LiveTimer => timer.kind = "explicit") /\ OneWay
  /\ RetryPending

\* In a handler that goes on: what it has installed, and what it has shown.
Streaming == LiveOp /\ ~LiveTimer /\ NoLive(queue) /\ op.kind = "stream" /\ conn.seenInit
Rechecking == ~LiveOp /\ LiveTimer /\ NoLive(queue) /\ timer.kind = "resolve"
Installed ==
  /\ frame.at \in {"connected", "published"} => Streaming
  /\ frame.at = "offline" => Rechecking
  /\ frame.at \notin {"connected", "published", "offline"} => Nothing
  /\ frame.at = "opening" => ~conn.seenInit
Visible ==
  /\ frame.at \in PublishedAt => chan.state = frame.state /\ chan.meta = frame.meta
  /\ frame.at \in {"normBackoff", "interrupt"} => chan.state = "Backoff"
  /\ frame.at \in {"normUnresolved", "unresolved", "metadata"} => chan.state = "Unresolved"
  /\ frame.at \in {"connecting", "opening"} => chan.state = "Connecting"
  /\ frame.at \in {"cleared", "catalog"} => chan.state = "Connecting" \/ Waiting
  /\ frame.at \in {"connected", "published"} => chan.state = "Connected"
  /\ frame.at = "backoff" => Waiting
  /\ frame.at = "failStage" => chan.state \in {"Backoff", "Unresolved"}
  /\ frame.at = "failed" => chan.state = "Failed"
  /\ frame.at = "offline" => chan.state = "Offline"
Going == Installed /\ Visible

\* What the handlers rely on while the connection runs.
Gated == ctl.gate \/ frame.at = "attached"
Epochs ==
  conn.activeEpoch = ctl.requestedEpoch \/ Starting \/ RetryIn(queue, ctl.requestedEpoch)
LateInert == \A tm \in late : ~(tm.l /\ tm.r /\ tm.t)
Activity ==
  /\ Starting => Nothing
  /\ frame.at = "idle" => Resting
  /\ Working /\ FrameLive => Going
  /\ Working /\ ~FrameLive => Superseded /\ frame.at # "cleared"

ActivityInv ==
  /\ ~conn.started => NoLive(queue)
  /\ Running => Gated /\ Epochs /\ LateInert /\ Activity

-----------------------------------------------------------------------------
(* The queue                                                               *)

\* RetryPending, part by part.
LEMMA Pending ==
  RetryPending <=> \/ LiveTimer /\ timer.kind = "explicit"
                   \/ ~NoLive(queue)
                   \/ RetryIn(queue, ctl.requestedEpoch)
  BY DEF RetryPending, NoLive, Live, RetryIn

\* What increments do to the tasks that count.
LEMMA AgedLive ==
  ASSUME NEW q \in Seq(Tasks)
  PROVE  /\ NoLive(BumpedQueue(q)) /\ NoLive(InertQueue(q))
         /\ OneLive(BumpedQueue(q)) /\ OneLive(InertQueue(q))
         /\ \A e : RetryIn(BumpedQueue(q), e) <=> RetryIn(q, e)
<1>1. \A y \in Tasks : /\ RequestBumped(y).kind = y.kind /\ RequestBumped(y).epoch = y.epoch
                       /\ ~RequestBumped(y).r /\ ~Inert(y).r
  BY DEF RequestBumped, Inert, Tasks
<1>2. /\ DOMAIN BumpedQueue(q) = DOMAIN q /\ DOMAIN InertQueue(q) = DOMAIN q
      /\ \A i \in DOMAIN q : /\ BumpedQueue(q)[i].kind = q[i].kind
                             /\ BumpedQueue(q)[i].epoch = q[i].epoch
                             /\ ~BumpedQueue(q)[i].r /\ ~InertQueue(q)[i].r
  BY <1>1 DEF BumpedQueue, InertQueue
<1>3. NoLive(BumpedQueue(q)) /\ NoLive(InertQueue(q))
  BY <1>2 DEF NoLive, Live
<1> QED
  BY <1>2, <1>3 DEF NoLive, OneLive, RetryIn

\* None is at most one.
LEMMA NoneIsOne == ASSUME NEW q, NoLive(q) PROVE OneLive(q)
  BY DEF NoLive, OneLive

\* What a new task adds.
LEMMA AppendLive ==
  ASSUME NEW q \in Seq(Tasks), NEW x \in Tasks
  PROVE  /\ NoLive(Append(q, x)) <=> NoLive(q) /\ ~Live(x)
         /\ NoLive(q) \/ (OneLive(q) /\ ~Live(x)) => OneLive(Append(q, x))
         /\ \A e : RetryIn(Append(q, x), e) <=>
                     RetryIn(q, e) \/ (x.kind = "retry" /\ x.epoch = e)
<1> DEFINE p == Append(q, x)
<1>1. /\ DOMAIN p = 1 .. Len(q) + 1 /\ Len(q) \in Nat /\ DOMAIN q = 1 .. Len(q)
      /\ p[Len(q) + 1] = x
      /\ \A i \in 1 .. Len(q) : p[i] = q[i]
  OBVIOUS
<1>2. /\ Len(q) + 1 \in DOMAIN p /\ \A i \in DOMAIN q : i \in DOMAIN p /\ p[i] = q[i]
      /\ \A i \in DOMAIN p : i \in DOMAIN q \/ i = Len(q) + 1
  BY <1>1
<1> HIDE DEF p
<1>3. NoLive(p) <=> NoLive(q) /\ ~Live(x)
  BY <1>1, <1>2 DEF NoLive
<1>4. NoLive(q) \/ (OneLive(q) /\ ~Live(x)) => OneLive(p)
  BY <1>1, <1>2 DEF NoLive, OneLive
<1>5. \A e : RetryIn(p, e) <=> RetryIn(q, e) \/ (x.kind = "retry" /\ x.epoch = e)
  BY <1>1, <1>2 DEF RetryIn
<1> QED
  BY <1>3, <1>4, <1>5 DEF p

\* What the running of a task leaves.
LEMMA TailLive ==
  ASSUME NEW q \in Seq(Tasks), q # <<>>
  PROVE  /\ NoLive(q) <=> NoLive(Tail(q)) /\ ~Live(Head(q))
         /\ OneLive(q) => OneLive(Tail(q)) /\ (Live(Head(q)) => NoLive(Tail(q)))
         /\ \A e : RetryIn(q, e) <=>
                     \/ RetryIn(Tail(q), e)
                     \/ Head(q).kind = "retry" /\ Head(q).epoch = e
<1> DEFINE p == Tail(q)
           h == Head(q)
<1>1. /\ Len(q) \in Nat \ {0} /\ DOMAIN q = 1 .. Len(q) /\ h = q[1]
      /\ DOMAIN p = 1 .. (Len(q) - 1)
      /\ \A i \in 1 .. (Len(q) - 1) : p[i] = q[i + 1]
  OBVIOUS
<1> HIDE DEF p, h
<1>2. \A i \in DOMAIN p : i + 1 \in DOMAIN q /\ p[i] = q[i + 1] /\ i + 1 # 1
  BY <1>1
<1>3. \A i \in DOMAIN q : i = 1 \/ (i - 1 \in DOMAIN p /\ p[i - 1] = q[i])
  BY <1>1
<1>4. 1 \in DOMAIN q /\ q[1] = h
  BY <1>1
<1>5. NoLive(q) <=> NoLive(p) /\ ~Live(h)
  BY <1>2, <1>3, <1>4 DEF NoLive
<1>6. \A e : RetryIn(q, e) <=> RetryIn(p, e) \/ (h.kind = "retry" /\ h.epoch = e)
  BY <1>2, <1>3, <1>4 DEF RetryIn
<1>7. OneLive(q) => OneLive(p) /\ (Live(h) => NoLive(p))
  <2> SUFFICES ASSUME OneLive(q) PROVE OneLive(p) /\ (Live(h) => NoLive(p))
    OBVIOUS
  <2>1. ASSUME NEW i \in DOMAIN p, NEW j \in DOMAIN p, Live(p[i]), Live(p[j]) PROVE i = j
    <3>1. i + 1 = j + 1
      BY <1>2, <2>1 DEF OneLive
    <3> QED
      BY <1>1, <3>1
  <2>2. ASSUME NEW i \in DOMAIN p, Live(p[i]), Live(h) PROVE FALSE
    BY <1>2, <1>4, <2>2 DEF OneLive
  <2> QED
    BY <2>1, <2>2 DEF OneLive, NoLive
<1> QED
  BY <1>5, <1>6, <1>7 DEF p, h

-----------------------------------------------------------------------------
(* What the parts of a handler leave, while the channel is open            *)

\* A handler that has just published may go on.
LEMMA GoesOn ==
  ASSUME Working', frame'.l, frame'.r, Installed', Visible'
  PROVE  Activity'
  BY DEF Activity, Working, FrameLive, Going, Starting

\* A lifecycle publication that is allowed shows, and its handler waits for it.
LEMMA PublishGoes ==
  ASSUME TypeOK, ~chan.closing, NEW at, NEW s, NEW m, NEW then, NEW rest,
         s # chan.state => s \in transitionAllowed[chan.state],
         PublishLifecycle(at, s, m, then, rest)
  PROVE  /\ chan'.state = s /\ chan'.meta = m
         /\ frame'.at = at /\ frame'.l /\ frame'.r /\ frame'.state = s /\ frame'.meta = m
         /\ frame'.then = then
  BY DEF PublishLifecycle, commitLifecycleOwner, TypeOK, Channels

\* A publication of data leaves what shows, and its handler waits for it.
LEMMA DataGoes ==
  ASSUME NEW at, NEW rest, PublishData(at, rest)
  PROVE  chan' = chan /\ frame'.at = at /\ frame'.l /\ frame'.r
  BY DEF PublishData, Idle

\* A handler that ends shows nothing new.
LEMMA DoneIdle == ASSUME Done PROVE chan' = chan /\ frame'.at = "idle"
  BY DEF Done, Idle

\* The table of the transitions, row by row.
LEMMA Allowed ==
  /\ transitionAllowed["Unresolved"] = {"Offline", "Connecting", "Backoff", "Failed", "Closed"}
  /\ transitionAllowed["Offline"] = {"Unresolved", "Closed"}
  /\ transitionAllowed["Connecting"] = {"Connected", "Offline", "Backoff", "Failed", "Closed"}
  /\ transitionAllowed["Connected"] = {"Offline", "Backoff", "Closed"}
  /\ transitionAllowed["Backoff"] = {"Unresolved", "Connecting", "Failed", "Closed"}
  /\ transitionAllowed["Failed"] = {"Unresolved", "Closed"}
  BY DEF transitionAllowed

\* The states a channel that is not Closed may show.
LEMMA OpenStates ==
  ASSUME TypeOK, chan.state # "Closed"
  PROVE  chan.state \in {"Unresolved", "Offline", "Connecting", "Connected", "Backoff", "Failed"}
  BY DEF TypeOK, Channels, States

\* A failure is shown, in one stage or two.
LEMMA FailedGoes ==
  ASSUME TypeOK, ~chan.closing, chan.state # "Closed", NEW m, publishFailed(m), Nothing'
  PROVE  Activity'
<1>0. chan.state \in {"Unresolved", "Offline", "Connecting", "Connected", "Backoff", "Failed"}
  BY OpenStates
<1>1. CASE chan.state = "Connected"
  <2>1. PublishLifecycle("failStage", "Backoff", m, "none", <<>>)
    BY <1>1 DEF publishFailed
  <2>2. /\ chan'.state = "Backoff" /\ chan'.meta = m /\ frame'.at = "failStage"
        /\ frame'.l /\ frame'.r /\ frame'.state = "Backoff" /\ frame'.meta = m
    BY <1>1, <2>1, PublishGoes, Allowed
  <2> QED
    BY <2>2, GoesOn DEF Working, Installed, Visible
<1>2. CASE chan.state = "Offline"
  <2>1. PublishLifecycle("failStage", "Unresolved", m, "none", <<>>)
    BY <1>2 DEF publishFailed
  <2>2. /\ chan'.state = "Unresolved" /\ chan'.meta = m /\ frame'.at = "failStage"
        /\ frame'.l /\ frame'.r /\ frame'.state = "Unresolved" /\ frame'.meta = m
    BY <1>2, <2>1, PublishGoes, Allowed
  <2> QED
    BY <2>2, GoesOn DEF Working, Installed, Visible
<1>3. CASE chan.state \in {"Unresolved", "Connecting", "Backoff", "Failed"}
  <2>1. PublishLifecycle("failed", "Failed", m, "none", <<>>)
    BY <1>3 DEF publishFailed
  <2>2. "Failed" # chan.state => "Failed" \in transitionAllowed[chan.state]
    BY <1>3, Allowed
  <2>3. /\ chan'.state = "Failed" /\ chan'.meta = m /\ frame'.at = "failed"
        /\ frame'.l /\ frame'.r /\ frame'.state = "Failed" /\ frame'.meta = m
    BY <2>1, <2>2, PublishGoes
  <2> QED
    BY <2>3, GoesOn DEF Working, Installed, Visible
<1> QED
  BY <1>0, <1>1, <1>2, <1>3

\* The states a request is answered in.
Answering == {"Unresolved", "Connecting", "Connected"}

\* A failure of a request leads to Backoff with a retry due, or to Failed.
LEMMA FailureGoes ==
  ASSUME TypeOK, ~chan.closing, chan.state \in Answering, Nothing',
         NEW n, NEW retryable, NEW target, handleFailure(n, retryable, target)
  PROVE  Activity'
<1>1. CASE failInternal(n + 1)
  BY <1>1, FailedGoes DEF failInternal, Answering
<1>2. CASE PublishLifecycle("backoff", "Backoff", Meta(n + 1, "failure", TRUE), target, <<>>)
  <2> DEFINE m == Meta(n + 1, "failure", TRUE)
  <2>0. m.due
    BY DEF Meta
  <2>a. PublishLifecycle("backoff", "Backoff", m, target, <<>>)
    BY <1>2
  <2> HIDE DEF m
  <2>1. "Backoff" # chan.state => "Backoff" \in transitionAllowed[chan.state]
    BY Allowed DEF Answering
  <2>2. /\ chan'.state = "Backoff" /\ chan'.meta = m /\ frame'.at = "backoff"
        /\ frame'.l /\ frame'.r /\ frame'.state = "Backoff" /\ frame'.meta = m
    BY <2>a, <2>1, PublishGoes
  <2> QED
    BY <2>0, <2>2, GoesOn DEF Working, Installed, Visible, Waiting
<1> QED
  BY <1>1, <1>2 DEF handleFailure

\* A timer just installed is current, and makes the one before it late.
LEMMA Installs ==
  ASSUME NEW kind, LateInert, InstallTimer(kind), late \subseteq Timers, timer \in Timers
  PROVE  LiveTimer' /\ timer'.kind = kind /\ LateInert'
<1>1. \A x \in Timers : ~[x EXCEPT !.t = FALSE].t
  BY DEF Timers
<1>2. Cancelled(timer) \subseteq Timers
  BY DEF Cancelled
<1>3. LateInert'
  BY <1>1, <1>2 DEF InstallTimer, LateInert
<1> QED
  BY <1>3 DEF InstallTimer, Fresh, LiveTimer

\* An offline verdict installs its recheck, or fails.
LEMMA OfflineGoes ==
  ASSUME TypeOK, ~chan.closing, chan.state \in Answering, LateInert,
         ~LiveOp', ~LiveTimer, NoLive(queue'), NEW n, enterOffline(n)
  PROVE  Activity' /\ LateInert'
<1>1. CASE failInternal(n) /\ UNCHANGED <<timer, late>>
  <2>1. Nothing' /\ LateInert'
    BY <1>1 DEF Nothing, LiveTimer, LateInert
  <2> QED
    BY <1>1, <2>1, FailedGoes DEF failInternal, Answering
<1>2. CASE /\ InstallTimer("resolve")
           /\ PublishLifecycle("offline", "Offline", Meta(0, "none", TRUE), "none", <<>>)
  <2> DEFINE m == Meta(0, "none", TRUE)
  <2>0. PublishLifecycle("offline", "Offline", m, "none", <<>>)
    BY <1>2
  <2> HIDE DEF m
  <2>1. LiveTimer' /\ timer'.kind = "resolve" /\ LateInert'
    BY <1>2, Installs DEF TypeOK
  <2>2. "Offline" # chan.state => "Offline" \in transitionAllowed[chan.state]
    BY Allowed DEF Answering
  <2>3. /\ chan'.state = "Offline" /\ chan'.meta = m /\ frame'.at = "offline"
        /\ frame'.l /\ frame'.r /\ frame'.state = "Offline" /\ frame'.meta = m
    BY <2>0, <2>2, PublishGoes
  <2> QED
    BY <2>1, <2>3, GoesOn DEF Working, Installed, Visible, Rechecking
<1> QED
  BY <1>1, <1>2 DEF enterOffline

\* Whatever waits for an older request is stale.
LEMMA BumpedStale ==
  ASSUME LateInert, late \subseteq Timers, NEW tm \in Timers, NEW q \in Seq(Tasks),
         BumpRequest(tm, q)
  PROVE  ~LiveTimer' /\ NoLive(queue') /\ LateInert'
<1>1. \A x \in Timers : ~RequestBumped(x).r
  BY DEF RequestBumped, Timers
<1>2. ~LiveTimer'
  BY <1>1 DEF BumpRequest, LiveTimer
<1>3. NoLive(queue')
  BY AgedLive DEF BumpRequest
<1>4. LateInert'
  BY <1>1 DEF BumpRequest, LateInert
<1> QED
  BY <1>2, <1>3, <1>4

\* beginResolve, from whichever state.
LEMMA ResolveGoes ==
  ASSUME TypeOK, ~chan.closing, chan.state # "Closed", LateInert, ~LiveOp',
         NEW l, mayBegin(l), NEW n, NEW tm \in Timers, NEW q \in Seq(Tasks),
         beginResolve(l, n, tm, q)
  PROVE  Activity' /\ LateInert'
<1>0. chan.state \in {"Unresolved", "Offline", "Connecting", "Connected", "Backoff", "Failed"}
  BY OpenStates
<1>1. BumpRequest(tm, q)
  BY DEF beginResolve
<1>2. Nothing' /\ LateInert'
  BY <1>1, BumpedStale DEF Nothing, TypeOK
<1>3. CASE chan.state \in {"Connected", "Connecting"}
  <2> DEFINE m == Meta(n, "cancelled", FALSE)
  <2>1. PublishLifecycle("interrupt", "Backoff", m, "none", <<>>)
    BY <1>3 DEF beginResolve
  <2> HIDE DEF m
  <2>2. "Backoff" # chan.state => "Backoff" \in transitionAllowed[chan.state]
    BY <1>3, Allowed
  <2>3. /\ chan'.state = "Backoff" /\ chan'.meta = m /\ frame'.at = "interrupt"
        /\ frame'.l /\ frame'.r /\ frame'.state = "Backoff" /\ frame'.meta = m
    BY <2>1, <2>2, PublishGoes
  <2> QED
    BY <1>2, <2>3, GoesOn DEF Working, Installed, Visible
<1>4. CASE chan.state \in {"Unresolved", "Offline", "Backoff", "Failed"}
  <2> DEFINE m == Meta(n, "none", FALSE)
  <2>1. PublishLifecycle("unresolved", "Unresolved", m, "none", <<>>)
    BY <1>4 DEF beginResolve
  <2> HIDE DEF m
  <2>2. "Unresolved" # chan.state => "Unresolved" \in transitionAllowed[chan.state]
    BY <1>4, Allowed
  <2>3. /\ chan'.state = "Unresolved" /\ chan'.meta = m /\ frame'.at = "unresolved"
        /\ frame'.l /\ frame'.r /\ frame'.state = "Unresolved" /\ frame'.meta = m
    BY <2>1, <2>2, PublishGoes
  <2> QED
    BY <1>2, <2>3, GoesOn DEF Working, Installed, Visible
<1> QED
  BY <1>0, <1>3, <1>4

\* An explicit retry, with nothing else under way, goes on to a resolution or to
\* the failure it could not be scheduled for.
LEMMA AfterGoes ==
  ASSUME TypeOK, ~chan.closing, chan.state # "Closed", LateInert, ~LiveOp', mayBegin(TRUE),
         NEW then, NEW tm \in Timers, ~(tm.l /\ tm.r /\ tm.t),
         NEW q \in Seq(Tasks), NoLive(q), AfterNormalized(then, tm, q)
  PROVE  Activity' /\ LateInert'
<1>1. CASE then = "resolve"
  BY <1>1, ResolveGoes DEF AfterNormalized
<1>2. CASE then # "resolve"
  <2>1. failInternal(conn.failures) /\ Keep(tm, q)
    BY <1>2 DEF AfterNormalized
  <2>2. Nothing' /\ LateInert'
    BY <2>1 DEF Keep, Nothing, LiveTimer, LateInert
  <2> QED
    BY <2>1, <2>2, FailedGoes DEF failInternal
<1> QED
  BY <1>1, <1>2

\* normalizeExplicitRetry, from whichever state.
LEMMA NormalizeGoes ==
  ASSUME TypeOK, ~chan.closing, chan.state # "Closed", LateInert, ~LiveOp',
         NEW l, NEW r, current(l, r),
         NEW then, NEW tm \in Timers, ~(tm.l /\ tm.r /\ tm.t),
         NEW q \in Seq(Tasks), NoLive(q), normalizeExplicitRetry(l, r, then, tm, q)
  PROVE  Activity' /\ LateInert'
<1>0. chan.state \in {"Unresolved", "Offline", "Connecting", "Connected", "Backoff", "Failed"}
  BY OpenStates
<1>1. Keep(tm, q) => LateInert' /\ Nothing'
  BY DEF Keep, Nothing, LiveTimer, LateInert
<1>2. CASE chan.state \in {"Connected", "Connecting"}
  <2> DEFINE m == Meta(0, "cancelled", FALSE)
  <2>1. PublishLifecycle("normBackoff", "Backoff", m, then, <<>>) /\ Keep(tm, q)
    BY <1>2 DEF normalizeExplicitRetry
  <2> HIDE DEF m
  <2>2. "Backoff" # chan.state => "Backoff" \in transitionAllowed[chan.state]
    BY <1>2, Allowed
  <2>3. /\ chan'.state = "Backoff" /\ chan'.meta = m /\ frame'.at = "normBackoff"
        /\ frame'.l /\ frame'.r /\ frame'.state = "Backoff" /\ frame'.meta = m
    BY <2>1, <2>2, PublishGoes
  <2> QED
    BY <1>1, <2>1, <2>3, GoesOn DEF Working, Installed, Visible
<1>3. CASE chan.state \in {"Offline", "Backoff", "Failed"}
  <2>1. PublishLifecycle("normUnresolved", "Unresolved", Clean, then, <<>>) /\ Keep(tm, q)
    BY <1>3 DEF normalizeExplicitRetry
  <2>2. "Unresolved" # chan.state => "Unresolved" \in transitionAllowed[chan.state]
    BY <1>3, Allowed
  <2>3. /\ chan'.state = "Unresolved" /\ chan'.meta = Clean /\ frame'.at = "normUnresolved"
        /\ frame'.l /\ frame'.r /\ frame'.state = "Unresolved" /\ frame'.meta = Clean
    BY <2>1, <2>2, PublishGoes
  <2> QED
    BY <1>1, <2>1, <2>3, GoesOn DEF Working, Installed, Visible
<1>4. CASE chan.state = "Unresolved"
  <2>1. AfterNormalized(then, tm, q)
    BY <1>4 DEF normalizeExplicitRetry
  <2>2. mayBegin(TRUE)
    BY DEF current, mayBegin
  <2> QED
    BY <2>1, <2>2, AfterGoes
<1> QED
  BY <1>0, <1>2, <1>3, <1>4

-----------------------------------------------------------------------------
(* Answers                                                                 *)

\* A handler's step has to keep the invariant of a connection that runs only.
LEMMA HandlerKeeps ==
  ASSUME TypeOK, QuietInv, ActivityInv, Works, ~Starting,
         conn'.activeEpoch = conn.activeEpoch, queue' \in {queue, BumpedQueue(queue)},
         Running /\ ~chan.closing /\ chan.state # "Closed" /\ ctl.gate /\ Epochs
           /\ LateInert /\ Activity => LateInert' /\ Activity'
  PROVE  ActivityInv'
<1>1. SUFFICES ASSUME Running' PROVE Gated' /\ Epochs' /\ LateInert' /\ Activity'
  BY DEF ActivityInv, Works
<1>2. Running /\ ~chan.closing /\ ~Starting'
  BY <1>1 DEF Running, Works, Shows
<1>3. chan.state # "Closed"
  BY <1>2 DEF QuietInv, ClosedForGood
<1>4. ctl.gate /\ Epochs /\ LateInert /\ Activity
  BY <1>2 DEF ActivityInv, Gated, Starting
<1>5. Gated'
  BY <1>4 DEF Works, Gated
<1>6. \A e : RetryIn(queue', e) <=> RetryIn(queue, e)
  BY AgedLive DEF TypeOK
<1>7. Epochs'
  BY <1>4, <1>6 DEF Epochs, Works
<1> QED
  BY <1>2, <1>3, <1>4, <1>5, <1>7

\* No request is never a live one.
LEMMA NoOpIdle == NoOp.kind = "none" /\ ~NoOp.l /\ ~NoOp.r
  BY DEF NoOp

\* With no handler suspended, the connection rests.
LEMMA RestingFacts ==
  ASSUME OwnerFree, Activity
  PROVE  Resting /\ ~Starting /\ frame.at = "idle"
  BY DEF OwnerFree, Idle, Activity, Starting

\* The request that is answered is the only way on.
LEMMA AnsweredFacts ==
  ASSUME Activity, NEW kind, kind \in {"resolve", "catalog", "stream"}, Answered(kind)
  PROVE  /\ LiveOp /\ op.kind = kind /\ ~LiveTimer /\ NoLive(queue)
         /\ OpFits
<1>1. OwnerFree /\ op.kind = kind /\ LiveOp
  BY DEF Answered, current, LiveOp
<1>2. Resting
  BY <1>1, RestingFacts
<1> QED
  BY <1>1, <1>2 DEF Resting, OneWay

\* The events of a stream, up to the next publication.
LEMMA EventsGo ==
  ASSUME TypeOK, ~chan.closing, NEW batch, processEvents(batch),
         LiveOp, ~LiveTimer, NoLive(queue), op.kind = "stream",
         IF conn.seenInit THEN chan.state = "Connected" ELSE chan.state = "Connecting",
         UNCHANGED <<timer, late, queue>>
  PROVE  Activity'
<1>0. ~LiveTimer' /\ NoLive(queue') /\ conn \in Connections
  BY DEF LiveTimer, TypeOK
<1>1. CASE batch = <<>>
  <2>1. Done /\ UNCHANGED <<conn, op>>
    BY <1>1 DEF processEvents
  <2>2. chan' = chan /\ frame'.at = "idle" /\ LiveOp'
    BY <2>1, DoneIdle DEF LiveOp
  <2>3. Resting'
    BY <1>0, <2>1, <2>2, NoneIsOne DEF Resting, OpFits, TimerFits, OneWay
  <2> QED
    BY <2>2, <2>3 DEF Activity, Starting, Working
<1>2. CASE batch # <<>> /\ Head(batch) = "init" /\ ~conn.seenInit
  <2>1. /\ conn' = [conn EXCEPT !.seenInit = TRUE, !.failures = 0, !.connectedAt = TRUE]
        /\ PublishLifecycle("connected", "Connected", Clean, "none", batch)
        /\ UNCHANGED op
    BY <1>2 DEF processEvents
  <2>2. "Connected" \in transitionAllowed[chan.state]
    BY <1>2, Allowed
  <2>3. /\ chan'.state = "Connected" /\ chan'.meta = Clean /\ frame'.at = "connected"
        /\ frame'.l /\ frame'.r /\ frame'.state = "Connected" /\ frame'.meta = Clean
    BY <2>1, <2>2, PublishGoes
  <2>4. conn'.seenInit /\ LiveOp' /\ op'.kind = "stream"
    BY <1>0, <2>1 DEF Connections, LiveOp
  <2> QED
    BY <1>0, <2>3, <2>4, GoesOn DEF Working, Installed, Visible, Streaming
<1>3. CASE batch # <<>> /\ conn.seenInit
  <2>1. /\ conn' = conn \/ conn' = [conn EXCEPT !.ends = 0]
        /\ PublishData("published", Tail(batch)) /\ UNCHANGED op
    BY <1>3 DEF processEvents
  <2>2. chan' = chan /\ frame'.at = "published" /\ frame'.l /\ frame'.r
    BY <2>1, DataGoes
  <2>3. conn'.seenInit /\ LiveOp' /\ op'.kind = "stream"
    BY <1>0, <1>3, <2>1 DEF Connections, LiveOp
  <2> QED
    BY <1>0, <1>3, <2>2, <2>3, GoesOn DEF Working, Installed, Visible, Streaming, PublishedAt
<1>4. CASE batch # <<>> /\ Head(batch) # "init" /\ ~conn.seenInit
  <2>1. op' = NoOp /\ Fail(conn.failures, FALSE, "stream")
    BY <1>4 DEF processEvents
  <2>2. Nothing'
    BY <1>0, <2>1, NoOpIdle DEF Nothing, LiveOp
  <2> QED
    BY <1>4, <2>1, <2>2, FailureGoes DEF Fail, Answering
<1> QED
  BY <1>1, <1>2, <1>3, <1>4

\* Every answer of the API.
LEMMA AnswerActs ==
  ASSUME TypeOK, Running, ~chan.closing, chan.state # "Closed", ctl.gate, Epochs,
         LateInert, Activity, Answer \/ \E batch \in Batches : StreamEvents(batch)
  PROVE  LateInert' /\ Activity'
<1>0. /\ conn \in Connections /\ (UNCHANGED late => LateInert')
      /\ op' = NoOp => ~LiveOp'
      /\ UNCHANGED timer /\ ~LiveTimer => ~LiveTimer'
  BY NoOpIdle DEF TypeOK, LateInert, LiveOp, LiveTimer
<1>1. CASE AnswerDropped
  <2>1. /\ OwnerFree /\ op' = NoOp /\ ~current(op.l, op.r)
        /\ UNCHANGED <<chan, ctl, conn, timer, late, queue, frame>>
    BY <1>1 DEF AnswerDropped
  <2>2. Resting /\ ~Starting /\ frame.at = "idle"
    BY <2>1, RestingFacts
  <2>3. LiveOp => RetryIn(queue, ctl.requestedEpoch)
    BY <2>1, <2>2 DEF LiveOp, current, Running, Epochs
  <2>4. RetryPending' <=> RetryPending
    BY <2>1 DEF RetryPending, LiveTimer
  <2>5. Resting'
    BY <1>0, <2>1, <2>2, <2>3, <2>4, Pending
       DEF Resting, OpFits, TimerFits, OneWay, LiveTimer, Waiting
  <2> QED
    BY <1>0, <2>1, <2>2, <2>5 DEF Activity, Starting, Working
<1>2. ASSUME NEW kind \in {"resolve", "catalog", "stream"}, Answered(kind),
             op' = NoOp, UNCHANGED <<timer, queue>>
      PROVE  /\ LiveOp /\ op.kind = kind /\ ~LiveTimer /\ NoLive(queue) /\ OpFits
             /\ Nothing'
  BY <1>0, <1>2, AnsweredFacts DEF Nothing
<1>3. CASE ResolvedOffline \/ StreamOffline
  <2>1. /\ op' = NoOp /\ enterOffline(0) /\ UNCHANGED queue
        /\ Answered("resolve") \/ Answered("stream")
    BY <1>3 DEF ResolvedOffline, StreamOffline
  <2>2. ~LiveTimer /\ NoLive(queue) /\ OpFits /\ LiveOp /\ op.kind \in {"resolve", "stream"}
    BY <2>1, AnsweredFacts
  <2>3. chan.state \in Answering
    BY <2>2 DEF OpFits, Answering
  <2> QED
    BY <1>0, <2>1, <2>2, <2>3, OfflineGoes
<1>4. CASE ResolvedLive
  <2>1. /\ Answered("resolve") /\ op' = NoOp /\ UNCHANGED <<timer, late, queue>>
        /\ PublishData("metadata", <<>>)
    BY <1>4 DEF ResolvedLive
  <2>2. Nothing' /\ chan.state = "Unresolved"
    BY <1>2, <2>1 DEF OpFits
  <2>3. chan' = chan /\ frame'.at = "metadata" /\ frame'.l /\ frame'.r
    BY <2>1, DataGoes
  <2> QED
    BY <1>0, <2>1, <2>2, <2>3, GoesOn DEF Working, Installed, Visible, PublishedAt
<1>5. CASE ResolvedInvalid
  <2>1. /\ Answered("resolve") /\ op' = NoOp /\ UNCHANGED <<timer, late, queue>>
        /\ failInternal(conn.failures)
    BY <1>5 DEF ResolvedInvalid
  <2>2. Nothing'
    BY <1>2, <2>1
  <2> QED
    BY <1>0, <2>1, <2>2, FailedGoes DEF failInternal
<1>6. CASE CatalogAnswered
  <2>1. /\ Answered("catalog") /\ op' = NoOp /\ UNCHANGED <<timer, late, queue>>
        /\ PublishData("catalog", <<>>)
    BY <1>6 DEF CatalogAnswered
  <2>2. Nothing' /\ (chan.state = "Connecting" \/ Waiting)
    BY <1>2, <2>1 DEF OpFits
  <2>3. chan' = chan /\ frame'.at = "catalog" /\ frame'.l /\ frame'.r
    BY <2>1, DataGoes
  <2> QED
    BY <1>0, <2>1, <2>2, <2>3, GoesOn DEF Working, Installed, Visible, PublishedAt, Waiting
<1>7. ASSUME NEW retryable, NEW stable,
             \/ ResolveFailed(retryable)
             \/ StreamEnded(stable)
             \/ StreamFailed(retryable, stable)
      PROVE  LateInert' /\ Activity'
  <2>1. /\ op' = NoOp /\ UNCHANGED <<timer, late, queue>>
        /\ Answered("resolve") \/ Answered("stream")
        /\ \E n, again, target : handleFailure(n, again, target)
    BY <1>7 DEF ResolveFailed, StreamEnded, StreamFailed, Fail
  <2>2. Nothing' /\ OpFits /\ LiveOp /\ op.kind \in {"resolve", "stream"}
    BY <1>2, <2>1
  <2>3. chan.state \in Answering
    BY <2>2 DEF OpFits, Answering
  <2> QED
    BY <1>0, <2>1, <2>2, <2>3, FailureGoes
<1>8. ASSUME NEW batch, StreamEvents(batch) PROVE LateInert' /\ Activity'
  <2>1. Answered("stream") /\ processEvents(batch) /\ UNCHANGED <<timer, late, queue>>
    BY <1>8 DEF StreamEvents
  <2>2. LiveOp /\ op.kind = "stream" /\ ~LiveTimer /\ NoLive(queue) /\ OpFits
    BY <2>1, AnsweredFacts
  <2> QED
    BY <1>0, <2>1, <2>2, EventsGo DEF OpFits
<1> QED
  BY <1>1, <1>3, <1>4, <1>5, <1>6, <1>7, <1>8 DEF Answer

-----------------------------------------------------------------------------
(* What follows a publication                                              *)

\* Whatever a handler has installed fits what it shows.
LEMMA GoingFits == ASSUME Going, Working PROVE OpFits /\ TimerFits /\ OneWay
  BY NoneIsOne
     DEF Going, Installed, Visible, Working, Streaming, Rechecking, Nothing, OpFits,
         TimerFits, OneWay

\* What a retry has overtaken is at rest once its handler is gone.
LEMMA SupersededFits == Superseded => Resting
  BY DEF Superseded, Resting, OpFits, TimerFits

\* What rests stays so while nothing changes.
LEMMA RestingKept ==
  ASSUME Resting, UNCHANGED <<chan, ctl, conn, op, timer, queue>>
  PROVE  Resting'
  BY DEF Resting, OpFits, TimerFits, OneWay, LiveOp, LiveTimer, Waiting, NoLive, OneLive,
         RetryPending

\* At rest, the invariant asks no more.
LEMMA RestingActs == ASSUME Resting', frame'.at = "idle" PROVE Activity'
  BY DEF Activity, Starting, Working

\* A handler that stops because of a retry leaves things to the retry.
LEMMA Abandoned ==
  ASSUME Epochs, Activity, Working, FrameLive => conn.activeEpoch # ctl.requestedEpoch,
         UNCHANGED <<chan, ctl, conn, op, timer, queue>>, frame'.at = "idle"
  PROVE  Activity'
<1>1. ~Starting
  BY DEF Working, Starting
<1>2. CASE FrameLive
  <2>1. Going
    BY <1>2 DEF Activity
  <2>2. RetryIn(queue, ctl.requestedEpoch)
    BY <1>1, <1>2 DEF Epochs
  <2>3. Resting
    BY <2>1, <2>2, GoingFits, Pending DEF Resting
  <2> QED
    BY <2>3, RestingKept, RestingActs
<1>3. CASE ~FrameLive
  <2>1. Resting
    BY <1>3, SupersededFits DEF Activity
  <2> QED
    BY <2>1, RestingKept, RestingActs
<1> QED
  BY <1>2, <1>3

\* The handlers that go on have shown what they meant to, and installed nothing
\* that is not theirs.
LEMMA Resumed ==
  ASSUME TypeOK, Activity, NEW at \in PublishedAt \cup CheckedAt, StillCurrent(at)
  PROVE  frame.at = at /\ Working /\ Installed /\ Visible
<1>1. frame.at = at /\ frame.l /\ frame.r
  BY DEF StillCurrent, Suspended, current
<1>2. Working
  BY <1>1 DEF Working, PublishedAt, CheckedAt
<1> QED
  BY <1>1, <1>2 DEF Activity, FrameLive, Going

\* One publication after another.
LEMMA NextShows ==
  ASSUME TypeOK, ~chan.closing, LateInert, Nothing,
         UNCHANGED <<conn, op, timer, late, queue>>,
         Visible,
         ContinueNormBackoff \/ ContinueInterrupt \/ ContinueMetadata \/ ContinueFailStage
  PROVE  LateInert' /\ Activity'
<1>1. Nothing' /\ LateInert'
  BY DEF Nothing, LiveOp, LiveTimer, LateInert, NoLive
<1>2. ASSUME NEW m, NEW then, PublishLifecycle("normUnresolved", "Unresolved", m, then, <<>>),
             chan.state = "Backoff"
      PROVE  Activity'
  <2>1. "Unresolved" \in transitionAllowed[chan.state]
    BY <1>2, Allowed
  <2>2. /\ chan'.state = "Unresolved" /\ chan'.meta = m /\ frame'.at = "normUnresolved"
        /\ frame'.l /\ frame'.r /\ frame'.state = "Unresolved" /\ frame'.meta = m
    BY <1>2, <2>1, PublishGoes
  <2> QED
    BY <1>1, <2>2, GoesOn DEF Working, Installed, Visible
<1>3. ASSUME NEW m, PublishLifecycle("unresolved", "Unresolved", m, "none", <<>>),
             chan.state = "Backoff"
      PROVE  Activity'
  <2>1. "Unresolved" \in transitionAllowed[chan.state]
    BY <1>3, Allowed
  <2>2. /\ chan'.state = "Unresolved" /\ chan'.meta = m /\ frame'.at = "unresolved"
        /\ frame'.l /\ frame'.r /\ frame'.state = "Unresolved" /\ frame'.meta = m
    BY <1>3, <2>1, PublishGoes
  <2> QED
    BY <1>1, <2>2, GoesOn DEF Working, Installed, Visible
<1>4. ASSUME NEW m, PublishLifecycle("connecting", "Connecting", m, "none", <<>>),
             chan.state = "Unresolved"
      PROVE  Activity'
  <2>1. "Connecting" \in transitionAllowed[chan.state]
    BY <1>4, Allowed
  <2>2. /\ chan'.state = "Connecting" /\ chan'.meta = m /\ frame'.at = "connecting"
        /\ frame'.l /\ frame'.r /\ frame'.state = "Connecting" /\ frame'.meta = m
    BY <1>4, <2>1, PublishGoes
  <2> QED
    BY <1>1, <2>2, GoesOn DEF Working, Installed, Visible
<1>5. ASSUME NEW m, PublishLifecycle("failed", "Failed", m, "none", <<>>),
             chan.state \in {"Backoff", "Unresolved"}
      PROVE  Activity'
  <2>1. "Failed" \in transitionAllowed[chan.state]
    BY <1>5, Allowed
  <2>2. /\ chan'.state = "Failed" /\ chan'.meta = m /\ frame'.at = "failed"
        /\ frame'.l /\ frame'.r /\ frame'.state = "Failed" /\ frame'.meta = m
    BY <1>5, <2>1, PublishGoes
  <2> QED
    BY <1>1, <2>2, GoesOn DEF Working, Installed, Visible
<1>6. /\ Published("normBackoff") => frame.at = "normBackoff"
      /\ Published("interrupt") => frame.at = "interrupt"
      /\ StillCurrent("metadata") => frame.at = "metadata"
      /\ Published("failStage") => frame.at = "failStage"
  BY DEF Published, StillCurrent, Suspended
<1> QED
  BY <1>1, <1>2, <1>3, <1>4, <1>5, <1>6
     DEF ContinueNormBackoff, ContinueInterrupt, ContinueMetadata, ContinueFailStage, Visible

\* beginEmoteCatalog, up to its publication.
LEMMA CatalogGoes ==
  ASSUME TypeOK, NEW l, mayBegin(l), beginEmoteCatalog(l), Nothing',
         chan.state = "Connecting" \/ Waiting
  PROVE  Activity'
<1>1. chan' = chan /\ frame'.at = "cleared" /\ frame'.l /\ frame'.r
  BY DataGoes DEF beginEmoteCatalog
<1> QED
  BY <1>1, GoesOn DEF Working, Installed, Visible, PublishedAt, Waiting

\* A request just started is current.
LEMMA RequestLive ==
  ASSUME NEW kind
  PROVE  Request(kind).kind = kind /\ Request(kind).l /\ Request(kind).r
  BY DEF Request

\* The steps that end a handler by starting a request.
LEMMA RequestGoes ==
  ASSUME TypeOK, NEW kind \in {"resolve", "catalog", "stream"}, op' = Request(kind), Done,
         ~LiveTimer', NoLive(queue'),
         kind = "resolve" => chan.state = "Unresolved",
         kind = "catalog" => chan.state = "Connecting" \/ Waiting,
         kind = "stream" => chan.state = "Connecting" /\ ~conn'.seenInit
  PROVE  Activity'
<1>1. LiveOp' /\ op'.kind = kind
  BY RequestLive DEF LiveOp
<1>2. chan' = chan /\ frame'.at = "idle"
  BY DoneIdle
<1>3. Resting'
  BY <1>1, <1>2, NoneIsOne DEF Resting, OpFits, TimerFits, OneWay, Waiting
<1> QED
  BY <1>2, <1>3, RestingActs

\* beginEmoteCatalog does not look again: it relies on no retry coming between.
LEMMA ClearedActs ==
  ASSUME TypeOK, Running, ~chan.closing, ctl.gate, Epochs, LateInert, Activity,
         ContinueCleared
  PROVE  LateInert' /\ Activity'
<1>0. frame.at = "cleared"
  BY DEF ContinueCleared, Suspended
<1>1. FrameLive /\ Going /\ ~Starting
  BY <1>0 DEF Activity, Working, Starting
<1>2. /\ Nothing /\ (chan.state = "Connecting" \/ Waiting)
      /\ Done /\ UNCHANGED <<ctl, conn>> /\ BumpRequest(timer, queue)
      /\ op' = IF current(frame.l, TRUE) THEN Request("catalog") ELSE op
  BY <1>0, <1>1 DEF ContinueCleared, Going, Installed, Visible
<1>3. ~LiveTimer' /\ NoLive(queue') /\ LateInert'
  BY <1>2, BumpedStale DEF TypeOK
<1>4. CASE current(frame.l, TRUE)
  <2>1. op' = Request("catalog")
    BY <1>2, <1>4
  <2> QED
    BY <1>2, <1>3, <2>1, RequestGoes
<1>5. CASE ~current(frame.l, TRUE)
  <2>1. RetryIn(queue, ctl.requestedEpoch)
    BY <1>0, <1>1, <1>5 DEF FrameLive, current, Running, Epochs
  <2>2. RetryIn(queue, ctl.requestedEpoch)'
    BY <1>2, <2>1, AgedLive DEF BumpRequest, TypeOK
  <2>3. ~LiveOp' /\ RetryPending'
    BY <1>2, <1>5, <2>2, Pending DEF Nothing, LiveOp, RetryPending, RetryIn
  <2>4. frame'.at = "idle" /\ Resting'
    BY <1>2, <1>3, <2>3, DoneIdle, NoneIsOne DEF Resting, OpFits, TimerFits, OneWay
  <2> QED
    BY <1>3, <2>4, RestingActs
<1> QED
  BY <1>4, <1>5

\* Every continuation of a handler.
LEMMA ContinueActs ==
  ASSUME TypeOK, Running, ~chan.closing, chan.state # "Closed", ctl.gate, Epochs,
         LateInert, Activity, Continue, ~SignalsDone
  PROVE  LateInert' /\ Activity'
<1>0. /\ conn \in Connections /\ (UNCHANGED late => LateInert')
      /\ UNCHANGED timer /\ ~LiveTimer => ~LiveTimer'
      /\ \A at : Published(at) => StillCurrent(at) /\ chan.state = frame.state
                                  /\ chan.meta = frame.meta
      /\ \A at : StillCurrent(at) => mayBegin(TRUE) /\ mayBegin(frame.l)
  BY DEF TypeOK, LateInert, LiveTimer, Published, StillCurrent, current, mayBegin
<1>a. \A at \in PublishedAt \cup CheckedAt :
         StillCurrent(at) => frame.at = at /\ Working /\ Installed /\ Visible
  BY Resumed
<1>b. Idle.at = "idle"
  BY DEF Idle
<1>1. CASE Abandon
  <2>1. PICK at \in PublishedAt \cup CheckedAt :
           /\ Suspended(at) /\ at # "offline"
           /\ ~StillCurrent(at) \/ (at \in PublishedAt /\ ~Published(at))
    BY <1>1 DEF Abandon, CheckedAt
  <2>2. frame.at = at /\ Working /\ frame.at # "delegate"
    BY <2>1 DEF Suspended, Working, PublishedAt, CheckedAt
  <2>3. FrameLive => ~current(frame.l, frame.r)
    BY <2>1, <2>2 DEF Activity, Going, Visible, Published, StillCurrent
  <2>5. FrameLive => conn.activeEpoch # ctl.requestedEpoch
    BY <2>2, <2>3 DEF FrameLive, current, Running
  <2>4. /\ UNCHANGED <<chan, ctl, conn, op, timer, late, queue>>
        /\ frame'.at = "idle"
    BY <1>1, <1>b DEF Abandon
  <2> QED
    BY <1>0, <2>2, <2>4, <2>5, Abandoned
<1>2. CASE Finish
  <2>1. CASE Published("failed") /\ UNCHANGED <<timer, late>>
    <3>1. Installed /\ Visible /\ frame.at = "failed"
      BY <1>0, <1>a, <2>1 DEF PublishedAt
    <3>2. Nothing /\ chan.state = "Failed"
      BY <3>1 DEF Installed, Visible
    <3>3. Resting
      BY <3>2, NoneIsOne DEF Nothing, Resting, OpFits, TimerFits, OneWay
    <3>4. UNCHANGED <<chan, ctl, conn, op, timer, queue>> /\ frame'.at = "idle"
      BY <1>2, <1>b, <2>1 DEF Finish
    <3> QED
      BY <1>0, <2>1, <3>3, <3>4, RestingKept, RestingActs
  <2>2. CASE Suspended("offline")
    <3>1. frame.at = "offline" /\ Working /\ "offline" \in PublishedAt
      BY <2>2 DEF Suspended, Working, PublishedAt
    <3>2. Resting
      <4>1. CASE FrameLive
        <5>1. Going
          BY <3>1, <4>1 DEF Activity
        <5>2. LiveTimer
          BY <3>1, <5>1 DEF Going, Installed, Rechecking
        <5> QED
          BY <3>1, <5>1, <5>2, GoingFits DEF Resting
      <4>2. CASE ~FrameLive
        BY <3>1, <4>2, SupersededFits DEF Activity
      <4> QED
        BY <4>1, <4>2
    <3>3. current(frame.l, frame.r) => Published("offline")
      <4>1. current(frame.l, frame.r) => FrameLive
        BY DEF current, FrameLive
      <4> QED
        BY <2>2, <3>1, <4>1 DEF Activity, Going, Visible, Published, StillCurrent
    <3>4. UNCHANGED <<chan, ctl, conn, op, timer, late, queue>> /\ frame'.at = "idle"
      BY <1>2, <1>b, <3>1, <3>3 DEF Finish, Published, StillCurrent, Suspended
    <3> QED
      BY <1>0, <3>2, <3>4, RestingKept, RestingActs
  <2> QED
    BY <1>2, <2>1, <2>2 DEF Finish
<1>3. CASE ContinueNormBackoff \/ ContinueInterrupt \/ ContinueMetadata \/ ContinueFailStage
  <2>1. /\ UNCHANGED <<conn, op, timer, late, queue>>
        /\ \E at \in {"normBackoff", "interrupt", "metadata", "failStage"} : StillCurrent(at)
    BY <1>0, <1>3
       DEF ContinueNormBackoff, ContinueInterrupt, ContinueMetadata, ContinueFailStage
  <2>2. Visible /\ Nothing
    BY <1>a, <2>1 DEF Installed, PublishedAt, CheckedAt
  <2> QED
    BY <1>3, <2>1, <2>2, NextShows
<1>4. CASE ContinueNormUnresolved
  <2>1. StillCurrent("normUnresolved") /\ AfterNormalized(frame.then, timer, queue)
        /\ UNCHANGED op
    BY <1>0, <1>4 DEF ContinueNormUnresolved
  <2>2. Nothing
    BY <1>a, <2>1 DEF Installed, PublishedAt
  <2>3. ~LiveOp' /\ ~(timer.l /\ timer.r /\ timer.t) /\ NoLive(queue)
    BY <2>1, <2>2 DEF Nothing, LiveOp, LiveTimer
  <2> QED
    BY <1>0, <2>1, <2>3, AfterGoes DEF TypeOK
<1>5. CASE ContinueUnresolved \/ ContinueOpening
  <2> DEFINE kind == IF frame.at = "unresolved" THEN "resolve" ELSE "stream"
  <2>1. /\ op' = Request(kind) /\ Done /\ UNCHANGED <<conn, timer, late, queue>>
        /\ StillCurrent("unresolved") \/ StillCurrent("opening")
    BY <1>0, <1>5
       DEF ContinueUnresolved, ContinueOpening, Published, StillCurrent, Suspended
  <2>2. Nothing /\ Visible /\ (kind = "stream" => ~conn.seenInit /\ frame.at = "opening")
        /\ frame.at \in {"unresolved", "opening"}
    BY <1>a, <2>1 DEF Installed, PublishedAt
  <2> HIDE DEF kind
  <2>3. kind \in {"resolve", "stream"} /\ (kind = "resolve" => frame.at = "unresolved")
    BY <2>2 DEF kind
  <2>4. ~LiveTimer' /\ NoLive(queue')
    BY <1>0, <2>1, <2>2 DEF Nothing
  <2> QED
    BY <1>0, <2>1, <2>2, <2>3, <2>4, RequestGoes DEF Visible
<1>6. CASE ContinueConnecting
  <2>1. /\ StillCurrent("connecting") /\ beginEmoteCatalog(frame.l)
        /\ UNCHANGED <<op, timer, late, queue>>
    BY <1>0, <1>6 DEF ContinueConnecting
  <2>2. Nothing /\ chan.state = "Connecting"
    BY <1>a, <2>1 DEF Installed, Visible, PublishedAt
  <2>3. Nothing'
    BY <1>0, <2>1, <2>2 DEF Nothing, LiveOp
  <2> QED
    BY <1>0, <2>1, <2>2, <2>3, CatalogGoes
<1>7. CASE ContinueCleared
  BY <1>7, ClearedActs
<1>8. CASE ContinueCatalog
  <2> DEFINE m == Meta(conn.failures, "none", FALSE)
  <2>1. /\ StillCurrent("catalog") /\ BumpRequest(timer, queue) /\ UNCHANGED op
        /\ PublishLifecycle("opening", "Connecting", m, "none", <<>>)
        /\ ~conn'.seenInit
    BY <1>0, <1>8 DEF ContinueCatalog, Connections
  <2> HIDE DEF m
  <2>2. Nothing /\ (chan.state = "Connecting" \/ Waiting)
    BY <1>a, <2>1 DEF Installed, Visible, CheckedAt
  <2>3. ~LiveTimer' /\ NoLive(queue') /\ LateInert'
    BY <2>1, BumpedStale DEF TypeOK
  <2>4. Nothing'
    BY <2>1, <2>2, <2>3 DEF Nothing, LiveOp
  <2>5. "Connecting" # chan.state => "Connecting" \in transitionAllowed[chan.state]
    BY <2>2, Allowed DEF Waiting
  <2>6. /\ chan'.state = "Connecting" /\ chan'.meta = m /\ frame'.at = "opening"
        /\ frame'.l /\ frame'.r /\ frame'.state = "Connecting" /\ frame'.meta = m
    BY <2>1, <2>5, PublishGoes
  <2> QED
    BY <2>1, <2>3, <2>4, <2>6, GoesOn DEF Working, Installed, Visible
<1>9. CASE ContinueConnected
  <2>1. /\ StillCurrent("connected") /\ PublishData("published", Tail(frame.rest))
        /\ UNCHANGED <<conn, op, timer, late, queue>>
    BY <1>0, <1>9 DEF ContinueConnected
  <2>2. Streaming /\ chan.state = "Connected"
    BY <1>a, <2>1 DEF Installed, Visible, PublishedAt
  <2>3. chan' = chan /\ frame'.at = "published" /\ frame'.l /\ frame'.r
    BY <2>1, DataGoes
  <2>4. Streaming'
    BY <2>1, <2>2 DEF Streaming, LiveOp, LiveTimer
  <2> QED
    BY <1>0, <2>1, <2>2, <2>3, <2>4, GoesOn DEF Working, Installed, Visible, PublishedAt
<1>10. CASE ContinuePublished
  <2>1. /\ StillCurrent("published") /\ processEvents(frame.rest)
        /\ UNCHANGED <<timer, late, queue>>
    BY <1>0, <1>10 DEF ContinuePublished
  <2>2. Streaming /\ chan.state = "Connected"
    BY <1>a, <2>1 DEF Installed, Visible, CheckedAt
  <2> QED
    BY <1>0, <2>1, <2>2, EventsGo DEF Streaming
<1>11. CASE ContinueBackoff
  <2>1. StillCurrent("backoff") /\ UNCHANGED <<conn, op, queue>>
    BY <1>0, <1>11 DEF ContinueBackoff
  <2>2. Nothing /\ Waiting /\ frame.at = "backoff"
    BY <1>a, <2>1 DEF Installed, Visible, PublishedAt
  <2>3. CASE InstallTimer(frame.then) /\ Done
    <3>1. LiveTimer' /\ timer'.kind = frame.then /\ LateInert'
      BY <2>3, Installs DEF TypeOK
    <3>2. frame.then \in {"resolve", "stream"}
      BY <2>2 DEF TypeOK, Frames
    <3>3. chan' = chan /\ frame'.at = "idle"
      BY <2>3, DoneIdle
    <3>4. ~LiveOp' /\ NoLive(queue') /\ Waiting'
      BY <2>1, <2>2, <3>3 DEF Nothing, LiveOp, Waiting
    <3>5. Resting'
      BY <3>1, <3>2, <3>4, NoneIsOne DEF Resting, OpFits, TimerFits, OneWay
    <3> QED
      BY <3>1, <3>3, <3>5, RestingActs
  <2>4. CASE failInternal(conn.failures) /\ UNCHANGED <<timer, late>>
    <3>1. Nothing'
      BY <1>0, <2>1, <2>2, <2>4 DEF Nothing, LiveOp
    <3> QED
      BY <1>0, <2>4, <3>1, FailedGoes DEF failInternal
  <2> QED
    BY <1>11, <2>3, <2>4 DEF ContinueBackoff
<1> QED
  BY <1>1, <1>2, <1>3, <1>4, <1>5, <1>6, <1>7, <1>8, <1>9, <1>10, <1>11 DEF Continue

\* The end of the signals changes nothing, or closes the channel.
LEMMA SignalsDoneActs ==
  ASSUME TypeOK, QuietInv, ActivityInv, SignalsDone PROVE ActivityInv'
<1>1. CASE ~chan.closing
  <2>1. /\ frame' = [frame EXCEPT !.signal = "none"]
        /\ UNCHANGED <<chan, ctl, conn, op, timer, late, queue>>
    BY <1>1 DEF SignalsDone
  <2>2. frame \in FrameRecords
    BY DEF TypeOK, Frames
  <2>3. /\ frame'.at = frame.at /\ frame'.l = frame.l /\ frame'.r = frame.r
        /\ frame'.state = frame.state /\ frame'.meta = frame.meta
    BY <2>1, <2>2 DEF FrameRecords
  <2>4. /\ (NoLive(queue) => NoLive(queue')) /\ (Running' => Running)
        /\ (Gated => Gated') /\ (Epochs => Epochs') /\ (LateInert => LateInert')
    BY <2>1, <2>3 DEF NoLive, Running, Gated, Epochs, LateInert, Starting, RetryIn
  <2>5. /\ Resting => Resting'
        /\ Nothing => Nothing'
        /\ Superseded => Superseded'
        /\ Streaming => Streaming'
        /\ Rechecking => Rechecking'
        /\ Waiting => Waiting'
    BY <2>1, RestingKept DEF Nothing, Superseded, Streaming, Rechecking, Waiting, LiveOp,
                             LiveTimer, NoLive, OneLive, OneWay, RetryPending
  <2>6. Going => Going'
    BY <2>1, <2>3, <2>5 DEF Going, Installed, Visible
  <2>7. Activity => Activity'
    BY <2>3, <2>5, <2>6 DEF Activity, Starting, Working, FrameLive
  <2> QED
    BY <2>1, <2>4, <2>7 DEF ActivityInv
<1>2. CASE chan.closing
  <2>1. chan'.closing
    BY <1>2, CloseFields DEF SignalsDone
  <2>2. conn'.started = conn.started /\ (queue' = queue \/ conn.started)
    BY <1>2 DEF SignalsDone, TypeOK, Connections
  <2>3. ~conn.started => NoLive(queue')
    BY <2>2 DEF ActivityInv, NoLive
  <2> QED
    BY <2>1, <2>2, <2>3 DEF ActivityInv, Running
<1> QED
  BY <1>1, <1>2

-----------------------------------------------------------------------------
(* A timer fires; start()                                                  *)

\* A timer that is current is the one way on; any other one is nothing.
LEMMA FireActs ==
  ASSUME TypeOK, Running, ~chan.closing, chan.state # "Closed", ctl.gate, Epochs,
         LateInert, Activity, NEW tm \in {timer} \cup late, Fire(tm)
  PROVE  LateInert' /\ Activity'
<1>1. OwnerFree /\ UNCHANGED <<ctl, conn, op>> /\ Resting /\ ~Starting
  BY RestingFacts DEF Fire
<1>2. ~(NoTimer.l /\ NoTimer.r /\ NoTimer.t) /\ NoTimer \in Timers
  BY DEF NoTimer, Timers
<1>3. CASE ~currentTimer(tm)
  <2>1. /\ timer' = IF tm = timer THEN NoTimer ELSE timer
        /\ late' \subseteq late /\ queue' = queue /\ chan' = chan /\ frame'.at = "idle"
    BY <1>3, DoneIdle DEF Fire
  <2>2. LateInert'
    BY <2>1 DEF LateInert
  <2>3. CASE timer' = timer \/ ~LiveTimer
    <3>1. LiveTimer' <=> LiveTimer
      BY <1>2, <2>1, <2>3 DEF LiveTimer
    <3>2. LiveTimer => timer' = timer
      BY <2>3
    <3>3. RetryPending => RetryPending'
      BY <1>1, <2>1, <3>1, <3>2 DEF RetryPending
    <3>4. /\ LiveOp' = LiveOp
          /\ NoLive(queue) => NoLive(queue')
          /\ OneLive(queue) => OneLive(queue')
      BY <1>1, <2>1 DEF LiveOp, NoLive, OneLive
    <3>5. Resting'
      BY <1>1, <2>1, <3>1, <3>2, <3>3, <3>4 DEF Resting, OpFits, TimerFits, OneWay, Waiting
    <3> QED
      BY <2>1, <2>2, <3>5, RestingActs
  <2>4. CASE tm = timer /\ LiveTimer
    <3>1. RetryIn(queue, ctl.requestedEpoch)
      BY <1>1, <1>3, <2>4 DEF currentTimer, current, LiveTimer, Running, Epochs
    <3>2. ~LiveOp' /\ ~LiveTimer' /\ NoLive(queue')
      BY <1>1, <1>2, <2>1, <2>4 DEF Resting, OneWay, LiveOp, LiveTimer, NoLive
    <3>3. RetryPending'
      BY <1>1, <2>1, <3>1 DEF RetryPending, RetryIn
    <3>4. Resting'
      BY <3>2, <3>3, NoneIsOne DEF Resting, OpFits, TimerFits, OneWay
    <3> QED
      BY <2>1, <2>2, <3>4, RestingActs
  <2> QED
    BY <2>1, <2>3, <2>4
<1>4. CASE currentTimer(tm)
  <2>1. tm = timer /\ LiveTimer /\ current(tm.l, tm.r) /\ mayBegin(tm.l)
    BY <1>4 DEF LateInert, LiveTimer, currentTimer, current, mayBegin
  <2>2. ~LiveOp' /\ NoLive(queue) /\ TimerFits
    BY <1>1, <2>1 DEF Resting, OneWay, LiveOp
  <2>3. CASE normalizeExplicitRetry(tm.l, tm.r, "resolve", NoTimer, queue)
    BY <1>2, <2>1, <2>2, <2>3, NormalizeGoes DEF TypeOK
  <2>4. CASE tm.kind = "stream" /\ beginEmoteCatalog(tm.l) /\ Keep(NoTimer, queue)
    <3>1. Waiting /\ Nothing' /\ LateInert'
      BY <1>2, <2>1, <2>2, <2>4 DEF TimerFits, Nothing, Keep, LiveTimer, NoLive, LateInert
    <3> QED
      BY <2>1, <2>4, <3>1, CatalogGoes
  <2>5. CASE beginResolve(tm.l, conn.failures, NoTimer, queue)
    BY <1>2, <2>1, <2>2, <2>5, ResolveGoes DEF TypeOK
  <2> QED
    BY <1>4, <2>3, <2>4, <2>5 DEF Fire
<1> QED
  BY <1>3, <1>4

\* So a timer that fires keeps the invariant.
LEMMA FireKeeps ==
  ASSUME TypeOK, QuietInv, ActivityInv, NEW tm \in {timer} \cup late, Fire(tm)
  PROVE  ActivityInv'
<1>1. Works /\ ~Starting /\ UNCHANGED conn
  BY FireWorks DEF Fire, OwnerFree, Idle, Starting
<1>2. queue' \in {queue, BumpedQueue(queue)}
  BY ResolveShows DEF Fire, Left, Keep
<1> QED
  BY <1>1, <1>2, FireActs, HandlerKeeps

\* The last part of start(), which looks again at what its observers did.
LEMMA StartResolveActs ==
  ASSUME TypeOK, Running, ~chan.closing, chan.state # "Closed", ctl.gate, Epochs,
         LateInert, Activity, StartResolve
  PROVE  LateInert' /\ Activity'
<1>1. frame.at = "delegate" /\ Working /\ UNCHANGED <<ctl, conn, op>>
  BY DEF StartResolve, Working
<1>2. FrameLive <=> frame.l
  BY <1>1 DEF FrameLive
<1>3. CASE ~frame.l \/ conn.activeEpoch # ctl.requestedEpoch
  <2>1. UNCHANGED <<chan, timer, late, queue>> /\ frame'.at = "idle"
    BY <1>3, DoneIdle DEF StartResolve, Keep
  <2>2. LateInert'
    BY <2>1 DEF LateInert
  <2> QED
    BY <1>1, <1>2, <1>3, <2>1, <2>2, Abandoned
<1>4. CASE frame.l /\ conn.activeEpoch = ctl.requestedEpoch
  <2>1. beginResolve(TRUE, 0, timer, queue) /\ mayBegin(TRUE)
    BY <1>4 DEF StartResolve, Running, mayBegin
  <2>2. ~LiveOp'
    BY <1>1, <1>2, <1>4 DEF Activity, Going, Installed, Nothing, LiveOp
  <2> QED
    BY <2>1, <2>2, ResolveGoes DEF TypeOK
<1> QED
  BY <1>3, <1>4

\* start() finds nothing current, and nothing that a retry left.
LEMMA StartActs == ASSUME TypeOK, QuietInv, ActivityInv, Start PROVE ActivityInv'
<1>0. /\ conn \in Connections /\ ctl \in Atomics /\ chan \in Channels
      /\ Idle.at = "idle" /\ "l" \in DOMAIN Idle /\ "at" \in DOMAIN Idle
  BY DEF TypeOK, Idle
<1>1. CASE StartAttach
  <2>1. /\ ~conn.started /\ conn'.started
        /\ UNCHANGED <<chan, ctl, op, timer, late, queue>> /\ frame'.at = "attached"
    BY <1>0, <1>1 DEF StartAttach, Connections, Idle
  <2>2. NoLive(queue) /\ op = NoOp /\ timer = NoTimer /\ late = {}
    BY <2>1 DEF QuietInv, Unstarted, ActivityInv
  <2>3. Nothing'
    BY <2>1, <2>2 DEF Nothing, LiveOp, LiveTimer, NoLive, NoOp, NoTimer
  <2>4. LateInert'
    BY <2>1, <2>2 DEF LateInert
  <2>5. Gated' /\ Epochs' /\ Activity'
    BY <2>1, <2>3 DEF Gated, Epochs, Starting, Activity, Working
  <2> QED
    BY <2>1, <2>4, <2>5 DEF ActivityInv
<1>2. CASE StartGate
  <2>1. /\ frame.at = "attached" /\ ctl'.gate /\ ctl'.stopRequested = ctl.stopRequested
        /\ UNCHANGED <<chan, conn, op, timer, late, queue>> /\ frame'.at = "gated"
    BY <1>0, <1>2 DEF StartGate, Atomics, Idle
  <2>2. Running' => Running
    BY <2>1 DEF Running
  <2>3. Activity => Activity'
    BY <2>1 DEF Activity, Starting, Working, Nothing, LiveOp, LiveTimer, NoLive
  <2>4. LateInert => LateInert'
    BY <2>1 DEF LateInert
  <2>5. conn.started
    BY <2>1 DEF QuietInv, Unstarted
  <2> QED
    BY <2>1, <2>2, <2>3, <2>4, <2>5 DEF ActivityInv, Gated, Epochs, Starting
<1>3. CASE StartDelegate
  <2>1. frame.at = "gated" /\ UNCHANGED <<op, timer, late, queue>> /\ conn.started
    BY <1>3 DEF StartDelegate, QuietInv, Unstarted
  <2>2. CASE ctl.stopRequested \/ chan.closing
    <3>1. conn'.started = conn.started /\ ~Running'
      BY <1>0, <1>3, <2>2 DEF StartDelegate, Connections, Atomics, Running
    <3> QED
      BY <2>1, <3>1 DEF ActivityInv
  <2>3. CASE ~ctl.stopRequested /\ ~chan.closing
    <3>1. /\ conn'.started = conn.started /\ conn'.stopped = conn.stopped
          /\ conn'.activeEpoch = ctl.requestedEpoch /\ ctl' = ctl
          /\ frame'.at = "delegate" /\ frame'.l
          /\ chan'.closing = chan.closing
      BY <1>0, <1>3, <2>3 DEF StartDelegate, Connections, Channels, Idle
    <3>2. SUFFICES ASSUME Running' PROVE Gated' /\ Epochs' /\ LateInert' /\ Activity'
      BY <2>1, <3>1 DEF ActivityInv
    <3>3. Running
      BY <3>1, <3>2 DEF Running
    <3>4. ctl.gate /\ LateInert /\ Nothing
      BY <2>1, <3>3 DEF ActivityInv, Gated, Activity, Starting
    <3>5. LateInert' /\ Nothing'
      BY <2>1, <3>4 DEF LateInert, Nothing, LiveOp, LiveTimer, NoLive
    <3>6. Installed' /\ Visible'
      BY <3>1, <3>5 DEF Installed, Visible, PublishedAt
    <3>7. Activity'
      BY <3>1, <3>6 DEF Activity, Starting, Working, FrameLive, Going
    <3> QED
      BY <3>1, <3>4, <3>5, <3>7 DEF Gated, Epochs
  <2> QED
    BY <2>2, <2>3
<1>4. CASE StartResolve
  <2>1. conn.started /\ UNCHANGED <<ctl, conn, op, env, hist>> /\ ~Starting
    BY <1>4 DEF StartResolve, QuietInv, Unstarted, Starting
  <2>2. Shows /\ Left(timer, queue)
    BY <1>4, DoneShows, ResolveShows DEF StartResolve, Left, Keep
  <2>3. Works
    BY <2>1, <2>2, HandlerWorks DEF Left
  <2> QED
    BY <1>4, <2>1, <2>2, <2>3, StartResolveActs, HandlerKeeps DEF Left
<1> QED
  BY <1>1, <1>2, <1>3, <1>4 DEF Start

-----------------------------------------------------------------------------
(* Stops and retries                                                       *)

\* A stop ends what the invariant is about.
LEMMA StopActs ==
  ASSUME TypeOK, NEW close, NEW a \in Atomics, NEW c \in Connections, NEW q \in Seq(Tasks),
         stopOwner(close, a, c, q), c.started = conn.started, c.stopped = conn.stopped,
         ~conn.started => NoLive(q)
  PROVE  ActivityInv'
<1>1. ~Running'
  BY DEF stopOwner, Atomics, Running
<1>2. /\ conn'.started = conn.started
      /\ queue' = q \/ queue' = InertQueue(q) \o <<>>
  BY DEF stopOwner, invalidateOwner, Connections
<1>3. InertQueue(q) \o <<>> = InertQueue(q)
  BY AgedQueue
<1>4. ~conn.started => NoLive(queue')
  BY <1>2, <1>3, AgedLive DEF NoLive
<1> QED
  BY <1>1, <1>2, <1>4 DEF ActivityInv

\* A retry is refused, ends in a stop, or supersedes whatever was under way.
LEMMA RetryTaken ==
  ASSUME TypeOK,
         NEW epoch \in Nat, NEW loc \in Locators \cup {Same}, NEW a \in Atomics,
         NEW q \in Seq(Tasks), NEW h, retryOwner(epoch, loc, a, q, h)
  PROVE  \/ stopOwner(TRUE, a, Retried(epoch, loc), q) /\ a.requestedEpoch = epoch
         \/ /\ ctl' = a /\ queue' = q /\ UNCHANGED <<chan, conn, op, timer, late, frame>>
            /\ \/ a.stopRequested \/ ~a.gate \/ conn.stopped \/ ~conn.started
               \/ a.requestedEpoch # epoch
         \/ /\ a.gate /\ conn.started /\ a.requestedEpoch = epoch
            /\ ctl' = a /\ conn' = Retried(epoch, loc) /\ chan' = chan
            /\ frame'.at = frame.at /\ ~frame'.l /\ LateInert' /\ Superseded'
<1> DEFINE x == [Task("schedFail") EXCEPT !.l = TRUE, !.r = TRUE]
           c == Retried(epoch, loc)
<1>1. x \in Tasks /\ Live(x) /\ x.kind = "schedFail"
  BY DEF Task, Tasks, Live
<1>3. \/ /\ ctl' = a /\ queue' = q /\ UNCHANGED <<chan, conn, op, timer, late, frame>>
         /\ \/ a.stopRequested \/ ~a.gate \/ conn.stopped \/ ~conn.started
            \/ a.requestedEpoch # epoch
      \/ /\ a.gate /\ conn.started /\ a.requestedEpoch = epoch /\ UNCHANGED chan
         /\ invalidateOwner(Fresh("explicit"), q, <<>>) /\ ctl' = a /\ conn' = c
      \/ /\ a.gate /\ conn.started /\ a.requestedEpoch = epoch /\ UNCHANGED chan
         /\ invalidateOwner(NoTimer, q, <<x>>) /\ ctl' = a /\ conn' = c
      \/ stopOwner(TRUE, a, c, q) /\ a.requestedEpoch = epoch
  BY Zenon DEF retryOwner
<1> HIDE DEF x, c
<1>5. ASSUME NEW tm, NEW posted, invalidateOwner(tm, q, posted),
             \/ tm = Fresh("explicit") /\ posted = <<>>
             \/ tm = NoTimer /\ posted = <<x>>
      PROVE  frame'.at = frame.at /\ ~frame'.l /\ LateInert' /\ Superseded'
  <2>1. /\ op' = NoOp /\ timer' = tm /\ frame' = Inert(frame)
        /\ late' = {InertTimer(y) : y \in late \cup Cancelled(timer)}
        /\ queue' = InertQueue(q) \o posted
    BY <1>5 DEF invalidateOwner
  <2>2. frame'.at = frame.at /\ ~frame'.l
    BY <2>1 DEF TypeOK, Frames, FrameRecords, Inert
  <2>3. \A y \in Timers : ~InertTimer(y).l
    BY DEF InertTimer, Timers
  <2>4. LateInert'
    BY <2>1, <2>3 DEF LateInert, Cancelled, TypeOK
  <2>5. ~LiveOp'
    BY <2>1, NoOpIdle DEF LiveOp
  <2>6. InertQueue(q) \in Seq(Tasks) /\ NoLive(InertQueue(q))
    BY AgedQueue, AgedLive
  <2>7. ASSUME tm = Fresh("explicit"), posted = <<>> PROVE Superseded'
    <3>1. NoLive(queue')
      BY <2>1, <2>6, <2>7
    <3>2. LiveTimer' /\ timer'.kind = "explicit"
      BY <2>1, <2>7 DEF Fresh, LiveTimer
    <3>3. RetryPending'
      BY <3>2 DEF RetryPending
    <3> QED
      BY <2>5, <3>1, <3>2, <3>3, NoneIsOne DEF Superseded, OneWay
  <2>8. ASSUME tm = NoTimer, posted = <<x>> PROVE Superseded'
    <3>1. queue' = Append(InertQueue(q), x)
      BY <2>1, <2>6, <2>8
    <3>2. OneLive(queue') /\ ~NoLive(queue')
      BY <1>1, <2>6, <3>1, AppendLive
    <3>3. ~LiveTimer'
      BY <2>1, <2>8 DEF NoTimer, LiveTimer
    <3>4. RetryPending'
      BY <3>2 DEF RetryPending, NoLive, Live
    <3> QED
      BY <2>5, <3>2, <3>3, <3>4 DEF Superseded, OneWay
  <2> QED
    BY <1>5, <2>2, <2>4, <2>7, <2>8
<1> QED
  BY <1>3, <1>5 DEF c

\* So a retry keeps the invariant, or finds the connection not running.
LEMMA RetryActs ==
  ASSUME TypeOK, ~Starting, frame.at # "cleared",
         NEW epoch \in Nat, NEW loc \in Locators \cup {Same}, NEW a \in Atomics,
         NEW q \in Seq(Tasks), NEW h, retryOwner(epoch, loc, a, q, h),
         ~conn.started => NoLive(q)
  PROVE  \/ ActivityInv'
         \/ /\ ctl' = a /\ queue' = q /\ UNCHANGED <<chan, conn, op, timer, late, frame>>
            /\ Running' => ~a.gate \/ a.requestedEpoch # epoch
<1> DEFINE c == Retried(epoch, loc)
<1>1. /\ c \in Connections /\ c.activeEpoch = epoch
      /\ c.stopped = conn.stopped /\ c.started = conn.started
  BY DEF TypeOK, Retried, Connections
<1> HIDE DEF c
<1>2. CASE stopOwner(TRUE, a, c, q)
  BY <1>1, <1>2, StopActs
<1>3. CASE /\ a.gate /\ conn.started /\ a.requestedEpoch = epoch
           /\ ctl' = a /\ conn' = c
           /\ frame'.at = frame.at /\ ~frame'.l /\ LateInert' /\ Superseded'
  <2>1. Resting'
    BY <1>3 DEF Superseded, Resting, OpFits, TimerFits
  <2>2. Activity'
    BY <1>3, <2>1 DEF Activity, Starting, Working, FrameLive
  <2>3. Gated' /\ Epochs'
    BY <1>1, <1>3 DEF Gated, Epochs
  <2> QED
    BY <1>1, <1>3, <2>2, <2>3 DEF ActivityInv
<1>4. CASE /\ ctl' = a /\ queue' = q /\ UNCHANGED <<chan, conn, op, timer, late, frame>>
           /\ \/ a.stopRequested \/ ~a.gate \/ conn.stopped \/ ~conn.started
              \/ a.requestedEpoch # epoch
  BY <1>4 DEF Running
<1> QED
  BY <1>2, <1>3, <1>4, RetryTaken DEF c

\* requestRetry on the owner thread has the newest epoch: it is accepted, unless
\* the connection does not run.
LEMMA RequestRetryActs ==
  ASSUME TypeOK, ActivityInv, ~Starting, frame.at # "cleared",
         NEW loc \in Locators \cup {Same}, NEW q \in Seq(Tasks), NEW h,
         requestRetryOwner(loc, q, h), ~conn.started => NoLive(q)
  PROVE  ActivityInv'
<1> DEFINE e == ctl.requestedEpoch + 1
           a == [ctl EXCEPT !.requestedEpoch = e]
<1>1. e \in Nat
  BY DEF TypeOK, Atomics
<1>2. retryOwner(e, loc, a, q, h)
  BY DEF requestRetryOwner
<1> HIDE DEF e
<1>3. /\ a \in Atomics /\ a.stopRequested = ctl.stopRequested /\ a.gate = ctl.gate
      /\ a.requestedEpoch = e
  BY <1>1 DEF TypeOK, Atomics
<1> HIDE DEF a
<1>4. CASE /\ ctl' = a /\ queue' = q /\ UNCHANGED <<chan, conn, op, timer, late, frame>>
           /\ Running' => ~a.gate \/ a.requestedEpoch # e
  <2>1. Running' => Running
    BY <1>3, <1>4 DEF Running
  <2>2. Running => ctl.gate
    BY DEF ActivityInv, Gated, Starting
  <2> QED
    BY <1>3, <1>4, <2>1, <2>2 DEF ActivityInv, NoLive
<1> QED
  BY <1>1, <1>2, <1>3, <1>4, RetryActs

-----------------------------------------------------------------------------
(* Calls and tasks                                                         *)

\* The owner's calls, from anywhere but the observers of the empty catalog.
LEMMA OwnerCallsAct ==
  ASSUME TypeOK, QuietInv, ActivityInv, "cleared" \notin ReentrantAt,
         \/ OwnerClose
         \/ \E loc \in Locators \cup {Same} : OwnerRetry(loc)
         \/ \E close \in BOOLEAN : OwnerStop(close)
  PROVE  ActivityInv'
<1>1. OwnerCalls
  BY DEF OwnerClose, OwnerRetry, OwnerStop
<1>2. ~Starting /\ frame.at # "cleared"
  BY <1>1 DEF OwnerCalls, OwnerFree, Starting, Idle, QuietInv, Unstarted
<1>3. /\ queue \in Seq(Tasks) /\ ctl \in Atomics /\ conn \in Connections /\ chan \in Channels
      /\ ~conn.started => NoLive(queue)
  BY DEF TypeOK, ActivityInv
<1>4. ASSUME NEW loc \in Locators \cup {Same}, OwnerRetry(loc) PROVE ActivityInv'
  BY <1>2, <1>3, <1>4, RequestRetryActs DEF OwnerRetry
<1>5. ASSUME NEW close, stopOwner(close, ctl, conn, queue) PROVE ActivityInv'
  BY <1>3, <1>5, StopActs
<1>6. CASE OwnerClose /\ ~(conn.started /\ ~ctl.stopRequested)
  <2>1. UNCHANGED <<conn, queue>> /\ chan'.closing
    BY <1>3, <1>6, CloseFields DEF OwnerClose, Channels
  <2> QED
    BY <1>3, <2>1 DEF ActivityInv, NoLive, Running
<1> QED
  BY <1>4, <1>5, <1>6 DEF OwnerClose, OwnerStop

\* A task that another thread queues, with or without a new epoch.
LEMMA QueuedActs ==
  ASSUME TypeOK, ActivityInv, NEW x \in Tasks, ~Live(x), queue' = Append(queue, x),
         UNCHANGED <<chan, conn, op, timer, late, frame>>,
         \/ ctl' = ctl
         \/ /\ ctl'.stopRequested = ctl.stopRequested /\ ctl'.gate = ctl.gate
            /\ x.kind = "retry" /\ x.epoch = ctl'.requestedEpoch
  PROVE  ActivityInv'
<1>1. /\ NoLive(queue') <=> NoLive(queue)
      /\ NoLive(queue) \/ OneLive(queue) => OneLive(queue')
      /\ \A e : RetryIn(queue, e) => RetryIn(queue', e)
      /\ x.kind = "retry" => RetryIn(queue', x.epoch)
  BY AppendLive DEF TypeOK
<1>2. OneLive(queue) => OneLive(queue')
  BY <1>1
<1>3. /\ LiveOp' = LiveOp /\ LiveTimer' = LiveTimer /\ Waiting' = Waiting
      /\ Starting' = Starting /\ Working' = Working /\ FrameLive' = FrameLive
      /\ LateInert' = LateInert /\ Running' = Running /\ Gated' = Gated
  BY DEF LiveOp, LiveTimer, Waiting, Starting, Working, FrameLive, LateInert, Running, Gated
<1>4. RetryPending => RetryPending'
  <2>1. CASE RetryIn(queue, ctl.requestedEpoch)
    <3>1. RetryIn(queue', ctl'.requestedEpoch)
      BY <1>1, <2>1
    <3> QED
      BY <3>1 DEF RetryPending, RetryIn
  <2>2. CASE ~NoLive(queue)
    <3>1. ~NoLive(queue')
      BY <1>1, <2>2
    <3> QED
      BY <3>1 DEF RetryPending, NoLive, Live
  <2>3. CASE LiveTimer /\ timer.kind = "explicit"
    BY <1>3, <2>3 DEF RetryPending
  <2> QED
    BY <2>1, <2>2, <2>3, Pending
<1>5. /\ Nothing => Nothing'
      /\ Resting => Resting'
      /\ Superseded => Superseded'
      /\ Streaming => Streaming'
      /\ Rechecking => Rechecking'
  BY <1>1, <1>2, <1>3, <1>4
     DEF Nothing, Resting, Superseded, Streaming, Rechecking, OpFits, TimerFits, OneWay
<1>6. Going => Going'
  BY <1>3, <1>5 DEF Going, Installed, Visible
<1>7. Activity => Activity'
  BY <1>3, <1>5, <1>6 DEF Activity
<1>8. Epochs => Epochs'
  BY <1>1, <1>3 DEF Epochs
<1> QED
  BY <1>1, <1>3, <1>7, <1>8 DEF ActivityInv

\* The calls of other threads queue a task, and stop the connection or do not.
LEMMA ThreadCallsAct ==
  ASSUME TypeOK, QuietInv, ActivityInv,
         \/ ThreadReconnect \/ ThreadCloseGate \/ ThreadCloseCancel
         \/ \E loc \in Locators \cup {Same} : ThreadRetry(loc)
         \/ \E close \in BOOLEAN : ThreadStop(close)
  PROVE  ActivityInv'
<1>0. /\ UNCHANGED <<conn, op, timer, late, frame>>
      /\ queue \in Seq(Tasks) /\ chan \in Channels /\ ctl \in Atomics
  BY DEF TypeOK, ThreadReconnect, ThreadCloseGate, ThreadCloseCancel, ThreadRetry,
         ThreadStop, ThreadCalls
<1>1. /\ Task("reconnect") \in Tasks /\ ~Live(Task("reconnect"))
      /\ Task("close") \in Tasks /\ ~Live(Task("close"))
      /\ Task("stop") \in Tasks /\ ~Live(Task("stop"))
      /\ \A close \in BOOLEAN : /\ [Task("stop") EXCEPT !.close = close] \in Tasks
                                 /\ ~Live([Task("stop") EXCEPT !.close = close])
      /\ \A e \in Nat, loc \in Locators \cup {Same} :
           LET y == [Task("retry") EXCEPT !.epoch = e, !.locator = loc]
           IN  y \in Tasks /\ ~Live(y) /\ y.kind = "retry" /\ y.epoch = e
  BY DEF Task, Tasks, Live
<1> HIDE DEF Tasks
<1>2. ASSUME NEW x \in Tasks, ~Live(x), queue' = Append(queue, x), ~Running'
      PROVE  ActivityInv'
  <2>1. NoLive(queue) => NoLive(queue')
    BY <1>0, <1>2, AppendLive
  <2> QED
    BY <1>0, <1>2, <2>1 DEF ActivityInv
<1>3. ASSUME NEW loc \in Locators \cup {Same}, ThreadRetry(loc) PROVE ActivityInv'
  <2> DEFINE e == ctl.requestedEpoch + 1
             x == [Task("retry") EXCEPT !.epoch = e, !.locator = loc]
             y == [Task("stop") EXCEPT !.close = TRUE]
  <2>1. /\ UNCHANGED chan
        /\ \/ ctl' = [ctl EXCEPT !.requestedEpoch = e] /\ queue' = Append(queue, x)
           \/ /\ ctl' = [requestedEpoch |-> e, stopRequested |-> TRUE, gate |-> FALSE]
              /\ queue' = Append(queue, y)
    BY <1>3 DEF ThreadRetry
  <2>2. e \in Nat
    BY <1>0 DEF Atomics
  <2> HIDE DEF e
  <2>3. /\ x \in Tasks /\ ~Live(x) /\ x.kind = "retry" /\ x.epoch = e
        /\ y \in Tasks /\ ~Live(y)
    BY <1>1, <2>2
  <2>4. /\ [ctl EXCEPT !.requestedEpoch = e].requestedEpoch = e
        /\ [ctl EXCEPT !.requestedEpoch = e].stopRequested = ctl.stopRequested
        /\ [ctl EXCEPT !.requestedEpoch = e].gate = ctl.gate
    BY <1>0 DEF Atomics
  <2> HIDE DEF x, y
  <2>5. CASE ctl' = [ctl EXCEPT !.requestedEpoch = e] /\ queue' = Append(queue, x)
    BY <1>0, <2>1, <2>3, <2>4, <2>5, QueuedActs
  <2>6. CASE ctl'.stopRequested /\ queue' = Append(queue, y)
    <3>1. ~Running'
      BY <2>6 DEF Running
    <3> QED
      BY <1>2, <2>3, <2>6, <3>1
  <2> QED
    BY <2>1, <2>5, <2>6
<1>4. ASSUME NEW close \in BOOLEAN, ThreadStop(close) PROVE ActivityInv'
  <2> DEFINE x == [Task("stop") EXCEPT !.close = close]
  <2>1. queue' = Append(queue, x) /\ ~Running'
    BY <1>0, <1>4 DEF ThreadStop, StopFromThread, Atomics, Running
  <2>2. x \in Tasks /\ ~Live(x)
    BY <1>1
  <2> HIDE DEF x
  <2> QED
    BY <1>2, <2>1, <2>2
<1>5. CASE ThreadReconnect
  <2>1. UNCHANGED <<chan, ctl>> /\ queue' = Append(queue, Task("reconnect"))
    BY <1>5 DEF ThreadReconnect
  <2> QED
    BY <1>0, <1>1, <2>1, QueuedActs
<1>6. CASE ThreadCloseGate
  <2>1. UNCHANGED queue /\ chan'.closing
    BY <1>0, <1>6 DEF ThreadCloseGate, Channels
  <2> QED
    BY <1>0, <2>1 DEF ActivityInv, NoLive, Running
<1>7. CASE ThreadCloseCancel
  <2>1. ~Running'
    BY <1>7, CloseFields DEF ThreadCloseCancel, QuietInv, ClosedForGood, Running
  <2>2. \/ queue' = queue
        \/ queue' = Append(queue, Task("stop"))
        \/ queue' = Append(queue, Task("close"))
        \/ queue' = Append(Append(queue, Task("stop")), Task("close"))
    BY <1>7 DEF ThreadCloseCancel
  <2>3. NoLive(queue) => NoLive(queue')
    <3> DEFINE p == Append(queue, Task("stop"))
    <3>0. \A x \in Tasks : Append(queue, x) \in Seq(Tasks)
      BY <1>0
    <3>1. p \in Seq(Tasks) /\ (NoLive(queue) => NoLive(p))
      BY <1>0, <1>1, <3>0, AppendLive
    <3>2. NoLive(queue) => NoLive(Append(queue, Task("close")))
      BY <1>0, <1>1, AppendLive
    <3> HIDE DEF p
    <3>3. NoLive(p) => NoLive(Append(p, Task("close")))
      BY <1>1, <3>1, AppendLive
    <3> QED
      BY <2>2, <3>1, <3>2, <3>3 DEF p
  <2> QED
    BY <1>0, <2>1, <2>3 DEF ActivityInv
<1> QED
  BY <1>3, <1>4, <1>5, <1>6, <1>7

\* A task that was not current, or that finds the connection stopping, is dropped.
LEMMA DroppedActs ==
  ASSUME TypeOK, ActivityInv, OwnerFree, queue # <<>>, queue' = Tail(queue),
         UNCHANGED <<chan, ctl, conn, op, timer, late, frame>>,
         Running => ~(Head(queue).kind = "retry" /\ Head(queue).epoch = ctl.requestedEpoch),
         Running /\ Live(Head(queue)) => conn.activeEpoch # ctl.requestedEpoch
  PROVE  ActivityInv'
<1> DEFINE x == Head(queue)
<1>1. /\ NoLive(queue) <=> NoLive(queue') /\ ~Live(x)
      /\ OneLive(queue) => OneLive(queue')
      /\ \A e : RetryIn(queue, e) <=> RetryIn(queue', e) \/ (x.kind = "retry" /\ x.epoch = e)
  BY TailLive DEF TypeOK
<1>2. SUFFICES ASSUME Running PROVE Epochs' /\ Resting'
  <2>1. /\ Running' => Running
        /\ Gated => Gated'
        /\ LateInert => LateInert'
    BY DEF Running, Gated, LateInert
  <2>2. frame'.at = "idle"
    BY DEF OwnerFree, Idle
  <2> QED
    BY <1>1, <1>2, <2>1, <2>2, RestingActs DEF ActivityInv
<1> HIDE DEF x
<1>3. Epochs /\ Resting /\ ~Starting /\ ~Starting'
  BY <1>2, RestingFacts DEF ActivityInv, Starting
<1>4. ~(x.kind = "retry" /\ x.epoch = ctl.requestedEpoch)
  BY <1>2 DEF x
<1>5. RetryIn(queue, ctl.requestedEpoch) => RetryIn(queue', ctl'.requestedEpoch)
  BY <1>1, <1>4
<1>6. Epochs'
  BY <1>3, <1>5 DEF Epochs
<1>7. LiveOp' = LiveOp /\ LiveTimer' = LiveTimer /\ Waiting' = Waiting
  BY DEF LiveOp, LiveTimer, Waiting
<1>8. RetryPending => RetryPending'
  <2>1. CASE RetryIn(queue, ctl.requestedEpoch)
    BY <1>5, <2>1 DEF RetryPending, RetryIn
  <2>2. CASE ~NoLive(queue) /\ ~Live(x)
    <3>1. ~NoLive(queue')
      BY <1>1, <2>2
    <3> QED
      BY <3>1 DEF RetryPending, NoLive, Live
  <2>3. CASE Live(x)
    <3>1. RetryIn(queue, ctl.requestedEpoch)
      BY <1>2, <1>3, <2>3 DEF Epochs, x
    <3> QED
      BY <2>1, <3>1
  <2>4. CASE LiveTimer /\ timer.kind = "explicit"
    BY <1>7, <2>4 DEF RetryPending
  <2> QED
    BY <2>1, <2>2, <2>3, <2>4, Pending
<1>9. Resting'
  BY <1>1, <1>3, <1>7, <1>8 DEF Resting, OpFits, TimerFits, OneWay
<1> QED
  BY <1>6, <1>9

\* A deferred failure is reported when it is still current.
LEMMA SchedFailActs ==
  ASSUME TypeOK, QuietInv, ActivityInv, RunTask, Head(queue).kind = "schedFail"
  PROVE  ActivityInv'
<1> DEFINE x == Head(queue)
           q == Tail(queue)
<1>1. /\ OwnerFree /\ queue # <<>> /\ UNCHANGED <<ctl, conn, op>>
      /\ normalizeExplicitRetry(x.l, x.r, "fail", timer, q)
  BY DEF RunTask
<1>2. /\ queue \in Seq(Tasks) /\ q \in Seq(Tasks)
      /\ NoLive(queue) <=> NoLive(q) /\ ~Live(x)
      /\ OneLive(queue) => (Live(x) => NoLive(q))
  BY <1>1, TailLive DEF TypeOK
<1>3. x.kind = "schedFail"
  OBVIOUS
<1> HIDE DEF q
<1>4. Shows /\ Left(timer, q)
  <2> HIDE DEF x
  <2> QED
    BY <1>1, ResolveShows
<1>5. CASE ~current(x.l, x.r) \/ chan.state = "Closed"
  <2>1. queue' = q /\ UNCHANGED <<timer, late>> /\ Done
    BY <1>1, <1>5 DEF normalizeExplicitRetry, Keep
  <2>2. UNCHANGED <<chan, frame>>
    BY <1>1, <2>1 DEF Done, OwnerFree
  <2>3. Running => chan.state # "Closed" /\ ctl.gate
    BY <1>1, RestingFacts DEF QuietInv, ClosedForGood, Running, ActivityInv, Gated, Starting
  <2>4. Running /\ Live(x) => conn.activeEpoch # ctl.requestedEpoch
    BY <1>5, <2>3 DEF current, Running, Live
  <2> QED
    BY <1>1, <1>3, <2>1, <2>2, <2>4, DroppedActs DEF q
<1>6. CASE current(x.l, x.r) /\ chan.state # "Closed"
  <2>1. Live(x) /\ ctl.gate
    BY <1>3, <1>6 DEF current, Live
  <2>2. conn.started
    BY <2>1 DEF QuietInv, Unstarted
  <2>3. SUFFICES ASSUME Running' PROVE Gated' /\ Epochs' /\ LateInert' /\ Activity'
    BY <1>1, <2>2 DEF ActivityInv
  <2>4. Running /\ ~chan.closing
    BY <1>1, <1>4, <2>3 DEF Shows, Running
  <2>5. LateInert /\ Resting
    BY <1>1, <2>4, RestingFacts DEF ActivityInv
  <2>6. ~LiveOp /\ ~LiveTimer /\ NoLive(q)
    BY <1>2, <2>1, <2>5 DEF Resting, OneWay
  <2>7. ~LiveOp' /\ ~(timer.l /\ timer.r /\ timer.t) /\ timer \in Timers
    BY <1>1, <2>6 DEF LiveOp, LiveTimer, TypeOK
  <2>8. LateInert' /\ Activity'
    <3> HIDE DEF x
    <3> QED
      BY <1>1, <1>2, <1>6, <2>4, <2>5, <2>6, <2>7, NormalizeGoes
  <2>9. Gated' /\ Epochs'
    BY <1>1, <1>6, <2>1 DEF Gated, Epochs, current
  <2> QED
    BY <2>8, <2>9
<1> QED
  BY <1>5, <1>6

\* Every kind of queued task.
LEMMA RunTaskActs == ASSUME TypeOK, QuietInv, ActivityInv, RunTask PROVE ActivityInv'
<1> DEFINE x == Head(queue)
           q == Tail(queue)
<1>1. /\ OwnerFree /\ queue # <<>> /\ ~Starting /\ frame.at = "idle"
      /\ queue \in Seq(Tasks) /\ ctl \in Atomics /\ conn \in Connections
  BY DEF RunTask, TypeOK, OwnerFree, Idle, Starting
<1>2. x \in Tasks /\ q \in Seq(Tasks)
  BY <1>1
<1>3. /\ NoLive(queue) => NoLive(q)
      /\ ~conn.started => NoLive(q)
  BY <1>1, TailLive DEF ActivityInv
<1>4. CASE x.kind = "retry"
  <2>1. retryOwner(x.epoch, x.locator, ctl, q, hist)
    BY <1>4 DEF RunTask
  <2>2. x.epoch \in Nat /\ x.locator \in Locators \cup {Same}
    BY <1>2 DEF Tasks
  <2>3. CASE /\ ctl' = ctl /\ queue' = q
             /\ UNCHANGED <<chan, conn, op, timer, late, frame>>
             /\ Running' => ~ctl.gate \/ ctl.requestedEpoch # x.epoch
    <3>1. Running => ctl.requestedEpoch # x.epoch
      BY <1>1, <2>3 DEF ActivityInv, Gated, Running
    <3>2. ~Live(x)
      BY <1>4 DEF Live
    <3> QED
      BY <1>1, <2>3, <3>1, <3>2, DroppedActs
  <2>4. frame.at # "cleared"
    BY <1>1
  <2> HIDE DEF x, q
  <2> QED
    BY <1>1, <1>2, <1>3, <2>1, <2>2, <2>3, <2>4, RetryActs
<1>5. CASE x.kind = "stop"
  <2>1. stopOwner(x.close, ctl, conn, q)
    BY <1>5 DEF RunTask
  <2> HIDE DEF x, q
  <2> QED
    BY <1>1, <1>2, <1>3, <2>1, StopActs
<1>6. CASE x.kind = "close"
  <2>1. /\ chan' = closeOwner(chan) /\ queue' = q /\ conn' = conn
    BY <1>6 DEF RunTask
  <2> HIDE DEF x, q
  <2>2. ~Running'
    BY <2>1, CloseFields DEF Running
  <2> QED
    BY <1>3, <2>1, <2>2 DEF ActivityInv
<1>7. CASE x.kind = "schedFail"
  BY <1>7, SchedFailActs
<1>8. CASE x.kind = "reconnect"
  <2>1. CASE queue' = q /\ UNCHANGED <<chan, ctl, conn, op, timer, late, frame>>
    <3>1. ~Live(x)
      BY <1>8 DEF Live
    <3> QED
      BY <1>1, <1>8, <2>1, <3>1, DroppedActs
  <2>2. CASE requestRetryOwner(Same, q, hist)
    <3> HIDE DEF x, q
    <3>1. frame.at # "cleared"
      BY <1>1
    <3> QED
      BY <1>1, <1>2, <1>3, <2>2, <3>1, RequestRetryActs
  <2> QED
    BY <1>8, <2>1, <2>2 DEF RunTask
<1> QED
  <2> HIDE DEF x, q
  <2>1. x.kind \in {"retry", "stop", "close", "reconnect", "schedFail"}
    BY <1>2 DEF Tasks
  <2> QED
    BY <2>1, <1>4, <1>5, <1>6, <1>7, <1>8

-----------------------------------------------------------------------------
(* The invariant is inductive                                              *)

\* A connection that was not started has no retry to fail.
LEMMA ActivityInit == Init => ActivityInv
<1> SUFFICES ASSUME Init PROVE ActivityInv
  OBVIOUS
<1>1. queue = <<>> /\ ~conn.started
  BY DEF Init
<1>2. NoLive(queue)
  BY <1>1 DEF NoLive
<1> QED
  BY <1>1, <1>2 DEF ActivityInv, Running

\* An answer changes neither the epoch nor the queue.
LEMMA AnswerEpoch ==
  ASSUME TypeOK, QuietInv, Answer \/ \E batch \in Batches : StreamEvents(batch)
  PROVE  /\ Works /\ OwnerFree /\ ~Starting /\ queue' = queue
         /\ conn'.activeEpoch = conn.activeEpoch
<1>1. Works
  BY AnswerWorks
<1>2. OwnerFree /\ queue' = queue
  BY DEF Answer, AnswerDropped, ResolvedOffline, ResolvedLive, ResolvedInvalid, ResolveFailed,
         CatalogAnswered, StreamOffline, StreamEnded, StreamFailed, StreamEvents, Answered
<1>3. ~Starting
  BY <1>2 DEF OwnerFree, Idle, Starting
<1>4. \/ conn' = conn
      \/ \E b \in BOOLEAN : conn' = [conn EXCEPT !.hasStream = b]
      \/ conn' = [conn EXCEPT !.failures = @ + 1]
      \/ conn' = [conn EXCEPT !.ends = 0]
      \/ conn' = [conn EXCEPT !.failures = 0, !.ends = 0, !.connectedAt = FALSE]
      \/ conn' = [conn EXCEPT !.failures = 0, !.ends = 0, !.connectedAt = FALSE,
                              !.hasStream = FALSE]
      \/ conn' = [conn EXCEPT !.seenInit = TRUE, !.failures = 0, !.connectedAt = TRUE]
      \/ \E n, m : conn' = [conn EXCEPT !.ends = n, !.failures = m, !.connectedAt = FALSE]
  BY DEF Answer, AnswerDropped, ResolvedOffline, ResolvedLive, ResolvedInvalid, ResolveFailed,
         CatalogAnswered, StreamOffline, StreamEnded, StreamFailed, StreamEvents, processEvents
<1>5. conn'.activeEpoch = conn.activeEpoch
  BY <1>4 DEF TypeOK, Connections
<1> QED
  BY <1>1, <1>2, <1>3, <1>5

LEMMA AnswerKeeps ==
  ASSUME TypeOK, QuietInv, ActivityInv, Answer \/ \E batch \in Batches : StreamEvents(batch)
  PROVE  ActivityInv'
  BY AnswerEpoch, AnswerActs, HandlerKeeps

\* A continuation changes the epoch no more, and the queue only by its generation.
LEMMA ContinueEpoch ==
  ASSUME TypeOK, QuietInv, Continue, ~SignalsDone
  PROVE  /\ Works /\ ~Starting /\ queue' \in {queue, BumpedQueue(queue)}
         /\ conn'.activeEpoch = conn.activeEpoch
<1>1. Works
  BY ContinueWorks
<1>2. ~Starting
  BY DEF Starting, Continue, Abandon, Finish, ContinueNormBackoff, ContinueNormUnresolved,
         ContinueInterrupt, ContinueUnresolved, ContinueMetadata, ContinueConnecting,
         ContinueCleared, ContinueCatalog, ContinueOpening, ContinueConnected,
         ContinuePublished, ContinueBackoff, ContinueFailStage, Published, StillCurrent,
         Suspended, PublishedAt, CheckedAt
<1>3. queue' \in {queue, BumpedQueue(queue)}
  BY ResolveShows
     DEF Continue, Abandon, Finish, ContinueNormBackoff, ContinueNormUnresolved,
         ContinueInterrupt, ContinueUnresolved, ContinueMetadata, ContinueConnecting,
         ContinueCleared, ContinueCatalog, ContinueOpening, ContinueConnected,
         ContinuePublished, ContinueBackoff, ContinueFailStage, BumpRequest, Left
<1>4. \/ conn' = conn
      \/ conn' = [conn EXCEPT !.seenInit = FALSE, !.connectedAt = FALSE]
      \/ conn' = [conn EXCEPT !.failures = @ + 1]
      \/ conn' = [conn EXCEPT !.ends = 0]
      \/ conn' = [conn EXCEPT !.seenInit = TRUE, !.failures = 0, !.connectedAt = TRUE]
  BY DEF Continue, Abandon, Finish, ContinueNormBackoff, ContinueNormUnresolved,
         ContinueInterrupt, ContinueUnresolved, ContinueMetadata, ContinueConnecting,
         ContinueCleared, ContinueCatalog, ContinueOpening, ContinueConnected,
         ContinuePublished, ContinueBackoff, ContinueFailStage, processEvents
<1>5. conn'.activeEpoch = conn.activeEpoch
  BY <1>4 DEF TypeOK, Connections
<1> QED
  BY <1>1, <1>2, <1>3, <1>5

LEMMA ContinueKeeps ==
  ASSUME TypeOK, QuietInv, ActivityInv, Continue, ~SignalsDone PROVE ActivityInv'
  BY ContinueEpoch, ContinueActs, HandlerKeeps

\* Every step keeps it.
LEMMA ActivityStep ==
  ASSUME "cleared" \notin ReentrantAt, TypeOK, QuietInv, ActivityInv, [Next]_vars
  PROVE  ActivityInv'
<1>1. CASE UNCHANGED vars
  <2>1. UNCHANGED <<chan, ctl, conn, op, timer, late, queue, frame>>
    BY <1>1 DEF vars
  <2>2. /\ Resting => Resting'
        /\ Nothing => Nothing'
        /\ Superseded => Superseded'
        /\ Streaming => Streaming'
        /\ Rechecking => Rechecking'
        /\ Waiting => Waiting'
    BY <2>1, RestingKept DEF Nothing, Superseded, Streaming, Rechecking, Waiting, LiveOp,
                             LiveTimer, NoLive, OneLive, OneWay, RetryPending
  <2>3. Going => Going'
    BY <2>1, <2>2 DEF Going, Installed, Visible
  <2>4. Activity => Activity'
    BY <2>1, <2>2, <2>3 DEF Activity, Starting, Working, FrameLive
  <2> QED
    BY <2>1, <2>4
       DEF ActivityInv, Running, Gated, Epochs, LateInert, Starting, RetryIn, NoLive
<1>2. CASE Start
  BY <1>2, StartActs
<1>3. CASE ApplicationCalls \/ ThreadCloseCancel
  BY <1>3, OwnerCallsAct, ThreadCallsAct DEF ApplicationCalls
<1>4. CASE RunTask
  BY <1>4, RunTaskActs
<1>5. CASE Answer \/ \E batch \in Batches : StreamEvents(batch)
  BY <1>5, AnswerKeeps
<1>6. CASE Continue
  BY <1>6, SignalsDoneActs, ContinueKeeps
<1>7. CASE \E tm \in {timer} \cup late : Fire(tm)
  BY <1>7, FireKeeps
<1> QED
  BY <1>1, <1>2, <1>3, <1>4, <1>5, <1>6, <1>7 DEF Next

\* So it holds.
LEMMA ActivityHolds ==
  "cleared" \notin ReentrantAt => (Spec => [](TypeOK /\ QuietInv /\ ActivityInv))
<1> SUFFICES ASSUME "cleared" \notin ReentrantAt
             PROVE  Spec => [](TypeOK /\ QuietInv /\ ActivityInv)
  OBVIOUS
<1>1. Init => TypeOK /\ QuietInv /\ ActivityInv
  BY InitTypes, QuietInit, ActivityInit
<1>2. TypeOK /\ QuietInv /\ ActivityInv /\ [Next]_vars => (TypeOK /\ QuietInv /\ ActivityInv)'
  BY StepTypes, QuietStep, ActivityStep
<1> QED
  BY <1>1, <1>2, PTL DEF Spec

-----------------------------------------------------------------------------
(* Theorems                                                                *)

\* A started connection that nobody stopped or closed is never left waiting for
\* nothing: with no handler suspended, it failed, or a current request or timer, or
\* an explicit retry that was accepted, will move it on (installRetryTimer,
\* scheduleRetry, retryOwner and the re-checks after each publication).
THEOREM AlwaysGoesOn ==
  "cleared" \notin ReentrantAt => (Spec => []NeverStranded)
<1>1. ActivityInv => NeverStranded
  BY RestingFacts DEF ActivityInv, Resting, NeverStranded
<1> QED
  BY <1>1, ActivityHolds, PTL

\* Between handlers the state the channel shows is the one its connection is in:
\* each state but Failed has the one request or timer that leads out of it, and
\* Failed has neither (the publications of RumbleConnection.cpp and what is
\* installed around each).
THEOREM StateTellsActivity ==
  "cleared" \notin ReentrantAt => (Spec => []StateMatchesActivity)
<1>1. TypeOK /\ QuietInv /\ ActivityInv => StateMatchesActivity
  <2> SUFFICES ASSUME TypeOK, QuietInv, ActivityInv, OwnerFree, Running, ~RetryPending
               PROVE  StateMatchesActivity
    BY DEF StateMatchesActivity
  <2>1. Resting
    BY RestingFacts DEF ActivityInv
  <2>2. chan.state # "Closed"
    BY DEF QuietInv, ClosedForGood, Running
  <2>3. chan.state \in {"Unresolved", "Offline", "Connecting", "Connected", "Backoff", "Failed"}
    BY <2>2, OpenStates
  <2>4. LiveTimer => timer.kind # "explicit"
    BY DEF RetryPending
  <2> QED
    BY <2>1, <2>3, <2>4
       DEF Resting, OpFits, TimerFits, OneWay, Waiting, StateMatchesActivity
<1> QED
  BY <1>1, ActivityHolds, PTL

\* While the connection runs there is never a request in flight beside a timer
\* that counts, not even within a handler that a retry overtook; and a timer that
\* was cancelled but fires all the same is not taken for the current one
\* (invalidateOwner and the timer generations of installRetryTimer, cancelTimer).
THEOREM OneWayOn ==
  "cleared" \notin ReentrantAt =>
    (Spec => [](Running => OneActivity /\ CancelledTimersInert))
<1>1. ActivityInv => (Running => OneActivity /\ CancelledTimersInert)
  <2> SUFFICES ASSUME ActivityInv, Running PROVE OneActivity /\ CancelledTimersInert
    OBVIOUS
  <2>1. LateInert /\ Activity
    BY DEF ActivityInv
  <2>2. CancelledTimersInert
    BY <2>1 DEF LateInert, CancelledTimersInert
  <2>3. CASE Starting
    BY <2>1, <2>2, <2>3 DEF Activity, Nothing, OneActivity
  <2>4. CASE frame.at = "idle"
    BY <2>1, <2>2, <2>4 DEF Activity, Resting, OneWay, OneActivity
  <2>5. CASE Working /\ FrameLive
    BY <2>1, <2>2, <2>5
       DEF Activity, Going, Installed, Streaming, Rechecking, Nothing, OneActivity
  <2>6. CASE Working /\ ~FrameLive
    BY <2>1, <2>2, <2>6 DEF Activity, Superseded, OneWay, OneActivity
  <2> QED
    BY <2>3, <2>4, <2>5, <2>6 DEF Working, Starting
<1> QED
  BY <1>1, ActivityHolds, PTL

(***************************************************************************)
(* The connection implements RumbleLifecycle, under the same condition.    *)
(***************************************************************************)

Ended == chan.closing \/ ctl.stopRequested
InEpoch == conn.activeEpoch = ctl.requestedEpoch
Here == Running /\ ~Starting /\ InEpoch

\* Nothing stops but for a stop or a close, and no epoch is ahead of the newest.
Ordered ==
  /\ conn.stopped => Ended
  /\ conn.activeEpoch <= ctl.requestedEpoch

\* What the connection is at, case by case.
DoingCases ==
  /\ Ended => Doing = "ended"
  /\ ~Ended /\ ~conn.started => Doing = "new"
  /\ Running /\ Starting => Doing = "moving"
  /\ Running /\ ~Starting /\ ~InEpoch => Doing = "restart"
  /\ Here /\ LiveOp => Doing = op.kind
  /\ Here /\ ~LiveOp /\ LiveTimer /\ timer.kind # "explicit"
       => Doing = IF chan.state = "Offline" THEN "recheck" ELSE "retry"
  /\ Here /\ ~LiveOp /\ ~LiveTimer /\ Working /\ FrameLive => Doing = "moving"
  /\ Here /\ ~LiveOp /\ (LiveTimer => timer.kind = "explicit")
       /\ ~(Working /\ FrameLive) /\ RetryPending => Doing = "restart"
  /\ Here /\ ~LiveOp /\ ~LiveTimer /\ frame.at = "idle" /\ ~RetryPending
       => Doing = "failed"

LEMMA DoingNow == DoingCases
  BY DEF DoingCases, Doing, Ended, Here, InEpoch, Running, Starting, Working, FrameLive

LEMMA DoingNext == DoingCases'
  BY DoingNow, PTL

-----------------------------------------------------------------------------
(* Calls: they show nothing but Closed                                     *)

\* What every step but those of handlers does.
Unmoved ==
  /\ Ended => Ended'
  /\ chan'.state # chan.state => Ended' /\ chan'.state = "Closed"
  /\ conn'.stopped => conn.stopped \/ Ended'
  /\ conn'.activeEpoch \in {conn.activeEpoch, ctl'.requestedEpoch}
  /\ ctl.requestedEpoch <= ctl'.requestedEpoch

\* A stop ends things.
LEMMA StopUnmoved ==
  ASSUME TypeOK, NEW close \in BOOLEAN, NEW a \in Atomics, NEW c \in Connections,
         NEW q, stopOwner(close, a, c, q),
         c.activeEpoch \in {conn.activeEpoch, a.requestedEpoch},
         ctl.requestedEpoch <= a.requestedEpoch
  PROVE  Unmoved /\ Ended'
<1>1. ctl'.stopRequested /\ (chan'.state # chan.state => chan'.state = "Closed")
  BY StopOwnerStops
<1>2. ctl'.requestedEpoch = a.requestedEpoch
  BY DEF stopOwner, Atomics
<1>3. conn' = conn \/ conn' = [c EXCEPT !.stopped = TRUE]
  BY DEF stopOwner
<1>4. conn'.activeEpoch \in {conn.activeEpoch, a.requestedEpoch}
  BY <1>3 DEF Connections
<1> QED
  BY <1>1, <1>2, <1>4 DEF Unmoved, Ended

\* So does a retry that cannot be scheduled; one that is accepted only replaces
\* what the connection is at.
LEMMA RetryUnmoved ==
  ASSUME TypeOK, ActivityInv, Ordered, ~Starting,
         NEW epoch \in Nat, NEW loc \in Locators \cup {Same}, NEW a \in Atomics,
         NEW q \in Seq(Tasks), NEW h, retryOwner(epoch, loc, a, q, h),
         a.stopRequested = ctl.stopRequested, a.gate = ctl.gate,
         ctl.requestedEpoch <= a.requestedEpoch
  PROVE  /\ Unmoved
         /\ \/ Ended'
            \/ /\ ctl' = a /\ queue' = q /\ UNCHANGED <<chan, conn, op, timer, late, frame>>
               /\ conn.started => a.requestedEpoch # epoch
            \/ Doing \notin {"new", "ended"} /\ Doing' = "restart"
<1> DEFINE c == Retried(epoch, loc)
<1>1. /\ c \in Connections /\ c.activeEpoch = epoch
      /\ c.stopped = conn.stopped /\ c.started = conn.started
      /\ ctl \in Atomics /\ conn \in Connections
  BY DEF TypeOK, Retried, Connections
<1> HIDE DEF c
<1>2. CASE stopOwner(TRUE, a, c, q) /\ a.requestedEpoch = epoch
  BY <1>1, <1>2, StopUnmoved
<1>3. CASE /\ a.gate /\ conn.started /\ a.requestedEpoch = epoch
           /\ ctl' = a /\ conn' = c /\ chan' = chan
           /\ frame'.at = frame.at /\ ~frame'.l /\ LateInert' /\ Superseded'
  <2>1. Unmoved
    BY <1>1, <1>3 DEF Unmoved, Ended
  <2>2. SUFFICES ASSUME ~Ended' PROVE Doing \notin {"new", "ended"} /\ Doing' = "restart"
    BY <2>1
  <2>3. Running /\ Running' /\ ~Ended
    BY <1>1, <1>3, <2>1, <2>2 DEF Running, Ended, Ordered, Unmoved
  <2>4. Here' /\ ~FrameLive'
    BY <1>1, <1>3, <2>3 DEF Here, Starting, InEpoch, FrameLive
  <2>5. Doing' = "restart"
    BY <1>3, <2>4, DoingNext DEF DoingCases, Superseded
  <2>6. Doing \notin {"new", "ended"}
    BY <2>3 DEF Doing, Ended, Running, TypeOK, Requests
  <2> QED
    BY <2>5, <2>6
<1>4. CASE /\ ctl' = a /\ queue' = q /\ UNCHANGED <<chan, conn, op, timer, late, frame>>
           /\ \/ a.stopRequested \/ ~a.gate \/ conn.stopped \/ ~conn.started
              \/ a.requestedEpoch # epoch
  <2>1. Unmoved
    BY <1>1, <1>4 DEF Unmoved, Ended
  <2>2. ~Ended /\ conn.started => Running /\ ctl.gate
    BY DEF Running, Ended, Ordered, ActivityInv, Gated, Starting
  <2>3. Ended => Ended'
    BY <2>1 DEF Unmoved
  <2> QED
    BY <1>4, <2>1, <2>2, <2>3 DEF Running, Ended
<1> QED
  BY <1>2, <1>3, <1>4, RetryTaken DEF c

\* Such a step leaves what the connection is at, or a retry takes it over, or it
\* begins.
Calm ==
  /\ Unmoved
  /\ ~Ended' => \/ Doing' = Doing
                \/ Doing \notin {"new", "ended"} /\ Doing' = "restart"
                \/ Doing = "new" /\ Doing' = "moving"

\* What the connection is at depends on nothing else.
LEMMA DoingKept ==
  ASSUME UNCHANGED <<chan, ctl, conn, op, timer>>,
         frame'.at = frame.at, frame'.l = frame.l, frame'.r = frame.r,
         RetryPending' <=> RetryPending
  PROVE  Doing' = Doing
  BY DEF Doing, LiveOp, LiveTimer

\* The first parts of start().
LEMMA StartCalm ==
  ASSUME TypeOK, QuietInv, ActivityInv, Ordered, StartAttach \/ StartGate \/ StartDelegate
  PROVE  Calm
<1>0. /\ conn \in Connections /\ ctl \in Atomics /\ chan \in Channels
      /\ Idle.at = "idle" /\ "l" \in DOMAIN Idle /\ "at" \in DOMAIN Idle
  BY DEF TypeOK, Idle
<1>1. CASE StartAttach
  <2>1. /\ ~conn.started /\ ~Ended /\ UNCHANGED <<chan, ctl>>
        /\ conn'.started /\ conn'.stopped = conn.stopped /\ ~conn.stopped
        /\ conn'.activeEpoch = conn.activeEpoch /\ frame'.at = "attached"
    BY <1>0, <1>1 DEF StartAttach, Connections, Idle, Ended
  <2>2. Doing = "new" /\ Running' /\ Starting'
    BY <2>1, DoingNow DEF DoingCases, Running, Ended, Starting
  <2>3. Doing' = "moving"
    BY <2>2, DoingNext DEF DoingCases
  <2> QED
    BY <1>0, <2>1, <2>2, <2>3 DEF Calm, Unmoved, Ended, Atomics
<1>2. CASE StartGate
  <2>1. /\ frame.at = "attached" /\ UNCHANGED <<chan, conn>>
        /\ ctl'.stopRequested = ctl.stopRequested
        /\ ctl'.requestedEpoch = ctl.requestedEpoch /\ frame'.at = "gated"
    BY <1>0, <1>2 DEF StartGate, Atomics, Idle
  <2>2. conn.started /\ Starting /\ Starting'
    BY <2>1 DEF QuietInv, Unstarted, Starting
  <2>3. ASSUME ~Ended' PROVE Doing = "moving" /\ Doing' = "moving"
    <3>1. Running /\ Running'
      BY <2>1, <2>2, <2>3 DEF Running, Ended, Ordered
    <3> QED
      BY <2>2, <3>1, DoingNow, DoingNext DEF DoingCases
  <2> QED
    BY <1>0, <2>1, <2>3 DEF Calm, Unmoved, Ended, Atomics
<1>3. CASE StartDelegate
  <2>1. /\ frame.at = "gated" /\ UNCHANGED <<op, timer, late, queue>>
        /\ conn.started /\ Starting
    BY <1>3 DEF StartDelegate, QuietInv, Unstarted, Starting
  <2>2. CASE Ended
    <3>1. /\ chan' = chan /\ ctl'.stopRequested = ctl.stopRequested
          /\ ctl'.requestedEpoch = ctl.requestedEpoch
          /\ conn'.activeEpoch \in {conn.activeEpoch, ctl.requestedEpoch}
      BY <1>0, <1>3, <2>2 DEF StartDelegate, Connections, Atomics, Ended
    <3> QED
      BY <1>0, <2>2, <3>1 DEF Calm, Unmoved, Ended, Atomics
  <2>3. CASE ~Ended
    <3>1. /\ conn'.started = conn.started /\ conn'.stopped = conn.stopped
          /\ conn'.activeEpoch = ctl.requestedEpoch /\ ctl' = ctl
          /\ frame'.at = "delegate" /\ frame'.l
          /\ chan'.closing = chan.closing /\ chan'.state = chan.state
      BY <1>0, <1>3, <2>3 DEF StartDelegate, Connections, Channels, Idle, Ended
    <3>2. Running /\ Running' /\ ~Starting' /\ InEpoch'
      BY <2>1, <2>3, <3>1 DEF Running, Ended, Ordered, Starting, InEpoch
    <3>3. Nothing
      BY <2>1, <3>2 DEF ActivityInv, Activity
    <3>4. ~LiveOp' /\ ~LiveTimer' /\ Working' /\ FrameLive'
      BY <2>1, <3>1, <3>3 DEF Nothing, LiveOp, LiveTimer, Working, FrameLive
    <3>5. Doing = "moving" /\ Doing' = "moving"
      BY <2>1, <3>2, <3>4, DoingNow, DoingNext DEF DoingCases, Here
    <3> QED
      BY <1>0, <3>1, <3>5 DEF Calm, Unmoved, Ended, Atomics
  <2> QED
    BY <2>2, <2>3
<1> QED
  BY <1>1, <1>2, <1>3

\* requestRetry on the owner thread.
LEMMA RequestRetryCalm ==
  ASSUME TypeOK, QuietInv, ActivityInv, Ordered, ~Starting,
         NEW loc \in Locators \cup {Same}, NEW q \in Seq(Tasks), NEW h,
         requestRetryOwner(loc, q, h)
  PROVE  Calm
<1> DEFINE e == ctl.requestedEpoch + 1
           a == [ctl EXCEPT !.requestedEpoch = e]
<1>1. e \in Nat /\ ctl.requestedEpoch <= e
  BY DEF TypeOK, Atomics
<1>2. retryOwner(e, loc, a, q, h)
  BY DEF requestRetryOwner
<1> HIDE DEF e
<1>3. /\ a \in Atomics /\ a.stopRequested = ctl.stopRequested /\ a.gate = ctl.gate
      /\ a.requestedEpoch = e
  BY <1>1 DEF TypeOK, Atomics
<1> HIDE DEF a
<1>4. Unmoved
  BY <1>1, <1>2, <1>3, RetryUnmoved
<1>5. \/ Ended'
      \/ /\ ctl' = a /\ queue' = q /\ UNCHANGED <<chan, conn, op, timer, late, frame>>
         /\ ~conn.started
      \/ Doing \notin {"new", "ended"} /\ Doing' = "restart"
  BY <1>1, <1>2, <1>3, RetryUnmoved
<1>6. ASSUME ~Ended', ~conn.started, conn' = conn PROVE Doing' = Doing
  <2>1. ~Ended
    BY <1>4, <1>6 DEF Unmoved
  <2> QED
    BY <1>6, <2>1, DoingNow, DoingNext DEF DoingCases
<1> QED
  BY <1>4, <1>5, <1>6 DEF Calm

\* The owner's calls.
LEMMA OwnerCallsCalm ==
  ASSUME TypeOK, QuietInv, ActivityInv, Ordered,
         \/ OwnerClose
         \/ \E loc \in Locators \cup {Same} : OwnerRetry(loc)
         \/ \E close \in BOOLEAN : OwnerStop(close)
  PROVE  Calm
<1>1. OwnerCalls
  BY DEF OwnerClose, OwnerRetry, OwnerStop
<1>2. ~Starting
  BY <1>1 DEF OwnerCalls, OwnerFree, Starting, Idle, QuietInv, Unstarted
<1>3. /\ queue \in Seq(Tasks) /\ ctl \in Atomics /\ conn \in Connections /\ chan \in Channels
  BY DEF TypeOK
<1>4. ASSUME NEW loc \in Locators \cup {Same}, OwnerRetry(loc) PROVE Calm
  BY <1>2, <1>3, <1>4, RequestRetryCalm DEF OwnerRetry
<1>5. ASSUME NEW close \in BOOLEAN, stopOwner(close, ctl, conn, queue) PROVE Calm
  <2>1. ctl.requestedEpoch <= ctl.requestedEpoch
    BY <1>3 DEF Atomics
  <2> QED
    BY <1>3, <1>5, <2>1, StopUnmoved DEF Calm
<1>6. CASE OwnerClose /\ ~(conn.started /\ ~ctl.stopRequested)
  <2>1. UNCHANGED <<conn, ctl>> /\ chan'.closing
    BY <1>3, <1>6, CloseFields DEF OwnerClose, Channels
  <2>2. chan'.state # chan.state => chan'.state = "Closed"
    BY <1>3, <1>6, CloseState DEF OwnerClose, Channels
  <2> QED
    BY <1>3, <2>1, <2>2 DEF Calm, Unmoved, Ended, Atomics
<1> QED
  BY <1>4, <1>5, <1>6 DEF OwnerClose, OwnerStop

\* The calls of other threads.
LEMMA ThreadCallsCalm ==
  ASSUME TypeOK, QuietInv, ActivityInv, Ordered,
         \/ ThreadReconnect \/ ThreadCloseGate \/ ThreadCloseCancel
         \/ \E loc \in Locators \cup {Same} : ThreadRetry(loc)
         \/ \E close \in BOOLEAN : ThreadStop(close)
  PROVE  Calm
<1>0. /\ UNCHANGED <<conn, op, timer, late, frame>>
      /\ queue \in Seq(Tasks) /\ chan \in Channels /\ ctl \in Atomics /\ conn \in Connections
  BY DEF TypeOK, ThreadReconnect, ThreadCloseGate, ThreadCloseCancel, ThreadRetry,
         ThreadStop, ThreadCalls
<1>1. ASSUME NEW loc \in Locators \cup {Same}, ThreadRetry(loc) PROVE Calm
  <2> DEFINE e == ctl.requestedEpoch + 1
  <2>1. /\ UNCHANGED chan
        /\ \/ ctl' = [ctl EXCEPT !.requestedEpoch = e]
           \/ ctl' = [requestedEpoch |-> e, stopRequested |-> TRUE, gate |-> FALSE]
    BY <1>1 DEF ThreadRetry
  <2>2. ctl'.requestedEpoch = e /\ (ctl.stopRequested => ctl'.stopRequested)
    BY <1>0, <2>1 DEF Atomics
  <2>3. Unmoved
    BY <1>0, <2>1, <2>2 DEF Unmoved, Ended, Atomics
  <2>4. ASSUME ~Ended', conn.started
        PROVE  Doing \notin {"new", "ended"} /\ (Doing' = "restart" \/ Doing' = Doing)
    <3>1. ~Ended
      BY <2>3, <2>4 DEF Unmoved
    <3>2. Running /\ Running'
      BY <1>0, <2>4, <3>1 DEF Running, Ended, Ordered
    <3>3. ~InEpoch' /\ Starting' = Starting
      BY <1>0, <2>2 DEF InEpoch, Ordered, Connections, Atomics, Starting
    <3>4. Doing \notin {"new", "ended"}
      BY <3>2 DEF Doing, Running, TypeOK, Requests
    <3>5. CASE Starting
      BY <3>2, <3>3, <3>4, <3>5, DoingNow, DoingNext DEF DoingCases
    <3>6. CASE ~Starting
      BY <3>2, <3>3, <3>4, <3>6, DoingNext DEF DoingCases
    <3> QED
      BY <3>5, <3>6
  <2>5. ASSUME ~Ended', ~conn.started PROVE Doing' = Doing
    <3>1. ~Ended
      BY <2>3, <2>5 DEF Unmoved
    <3> QED
      BY <1>0, <2>5, <3>1, DoingNow, DoingNext DEF DoingCases
  <2> QED
    BY <2>3, <2>4, <2>5 DEF Calm
<1>2. ASSUME NEW close \in BOOLEAN, ThreadStop(close) PROVE Calm
  <2>1. chan' = chan /\ ctl'.stopRequested /\ ctl'.requestedEpoch = ctl.requestedEpoch
    BY <1>0, <1>2 DEF ThreadStop, StopFromThread, Atomics
  <2> QED
    BY <1>0, <2>1 DEF Calm, Unmoved, Ended, Atomics
<1>3. CASE ThreadReconnect
  <2>1. UNCHANGED <<chan, ctl>> /\ queue' = Append(queue, Task("reconnect"))
    BY <1>3 DEF ThreadReconnect
  <2>2. Task("reconnect") \in Tasks /\ ~Live(Task("reconnect"))
        /\ Task("reconnect").kind = "reconnect"
    BY DEF Task, Tasks, Live
  <2>3. /\ NoLive(queue') <=> NoLive(queue)
        /\ RetryIn(queue', ctl'.requestedEpoch) <=> RetryIn(queue, ctl.requestedEpoch)
    BY <1>0, <2>1, <2>2, AppendLive
  <2>4. RetryPending' <=> RetryPending
    <3>1. RetryPending' <=> \/ LiveTimer' /\ timer'.kind = "explicit"
                            \/ ~NoLive(queue')
                            \/ RetryIn(queue', ctl'.requestedEpoch)
      BY DEF RetryPending, NoLive, Live, RetryIn
    <3> QED
      BY <1>0, <2>3, <3>1, Pending DEF LiveTimer
  <2>5. Doing' = Doing
    BY <1>0, <2>1, <2>4, DoingKept
  <2> QED
    BY <1>0, <2>1, <2>5 DEF Calm, Unmoved, Ended, Atomics
<1>4. CASE ThreadCloseGate
  <2>1. UNCHANGED ctl /\ chan'.closing /\ chan'.state = chan.state
    BY <1>0, <1>4 DEF ThreadCloseGate, Channels
  <2> QED
    BY <1>0, <2>1 DEF Calm, Unmoved, Ended, Atomics
<1>5. CASE ThreadCloseCancel
  <2>1. chan' = chan \/ chan' = closeOwner(chan)
    BY <1>5 DEF ThreadCloseCancel
  <2>2. chan'.closing /\ (chan'.state # chan.state => chan'.state = "Closed")
    BY <1>0, <1>5, <2>1, CloseFields, CloseState
       DEF ThreadCloseCancel, QuietInv, ClosedForGood
  <2>3. ctl'.requestedEpoch = ctl.requestedEpoch
    BY <1>0, <1>5 DEF ThreadCloseCancel, Atomics
  <2> QED
    BY <1>0, <2>2, <2>3 DEF Calm, Unmoved, Ended, Atomics
<1> QED
  BY <1>1, <1>2, <1>3, <1>4, <1>5

\* The end of the signals changes nothing, or closes the channel.
LEMMA SignalsDoneCalm ==
  ASSUME TypeOK, QuietInv, ActivityInv, Ordered, SignalsDone PROVE Calm
<1>0. ctl \in Atomics /\ conn \in Connections /\ frame \in FrameRecords
  BY DEF TypeOK, Frames
<1>1. CASE ~chan.closing
  <2>1. /\ frame' = [frame EXCEPT !.signal = "none"]
        /\ UNCHANGED <<chan, ctl, conn, op, timer, late, queue>>
    BY <1>1 DEF SignalsDone
  <2>2. frame'.at = frame.at /\ frame'.l = frame.l /\ frame'.r = frame.r
    BY <1>0, <2>1 DEF FrameRecords
  <2>3. RetryPending' <=> RetryPending
    BY <2>1 DEF RetryPending, LiveTimer
  <2>4. Doing' = Doing
    BY <2>1, <2>2, <2>3, DoingKept
  <2> QED
    BY <1>0, <2>1, <2>4 DEF Calm, Unmoved, Ended, Atomics
<1>2. CASE chan.closing
  <2>1. chan' = closeOwner(chan) /\ chan'.closing /\ chan'.state = "Closed"
    BY <1>2, CloseFields DEF SignalsDone
  <2>2. /\ conn'.activeEpoch = conn.activeEpoch
        /\ ctl'.requestedEpoch = ctl.requestedEpoch
    BY <1>0, <1>2 DEF SignalsDone, Connections, Atomics
  <2> QED
    BY <1>0, <2>1, <2>2 DEF Calm, Unmoved, Ended, Atomics
<1> QED
  BY <1>1, <1>2

\* A task that does nothing leaves what the connection is at.
LEMMA DroppedCalm ==
  ASSUME TypeOK, queue # <<>>, queue' = Tail(queue),
         UNCHANGED <<chan, ctl, conn, op, timer, late, frame>>,
         conn.started => /\ ~Live(Head(queue))
                         /\ ~(Head(queue).kind = "retry" /\ Head(queue).epoch = ctl.requestedEpoch)
  PROVE  Calm
<1> DEFINE x == Head(queue)
<1>0. ctl \in Atomics /\ conn \in Connections
  BY DEF TypeOK
<1>1. /\ NoLive(queue) <=> NoLive(queue') /\ ~Live(x)
      /\ \A e : RetryIn(queue, e) <=> RetryIn(queue', e) \/ (x.kind = "retry" /\ x.epoch = e)
  BY TailLive DEF TypeOK
<1>2. CASE conn.started
  <2>1. /\ NoLive(queue') <=> NoLive(queue)
        /\ RetryIn(queue', ctl'.requestedEpoch) <=> RetryIn(queue, ctl.requestedEpoch)
    BY <1>1, <1>2
  <2>2. RetryPending' <=> \/ LiveTimer' /\ timer'.kind = "explicit"
                          \/ ~NoLive(queue')
                          \/ RetryIn(queue', ctl'.requestedEpoch)
    BY DEF RetryPending, NoLive, Live, RetryIn
  <2>3. RetryPending' <=> RetryPending
    BY <2>1, <2>2, Pending DEF LiveTimer
  <2>4. Doing' = Doing
    BY <2>3, DoingKept
  <2> QED
    BY <1>0, <2>4 DEF Calm, Unmoved, Ended, Atomics
<1>3. CASE ~conn.started
  <2>1. ~Ended => Doing = "new" /\ Doing' = "new"
    BY <1>3, DoingNow, DoingNext DEF DoingCases, Ended
  <2> QED
    BY <1>0, <2>1 DEF Calm, Unmoved, Ended, Atomics
<1> QED
  BY <1>2, <1>3

\* The tasks that are calls.
LEMMA RunTaskCalm ==
  ASSUME TypeOK, QuietInv, ActivityInv, Ordered, RunTask, Head(queue).kind # "schedFail"
  PROVE  Calm
<1> DEFINE x == Head(queue)
           q == Tail(queue)
<1>1. /\ OwnerFree /\ queue # <<>> /\ ~Starting
      /\ queue \in Seq(Tasks) /\ ctl \in Atomics /\ conn \in Connections /\ chan \in Channels
  BY DEF RunTask, TypeOK, OwnerFree, Idle, Starting
<1>2. x \in Tasks /\ q \in Seq(Tasks) /\ ctl.requestedEpoch <= ctl.requestedEpoch
  BY <1>1 DEF Atomics
<1>3. CASE x.kind = "retry"
  <2>1. retryOwner(x.epoch, x.locator, ctl, q, hist)
    BY <1>3 DEF RunTask
  <2>2. x.epoch \in Nat /\ x.locator \in Locators \cup {Same} /\ ~Live(x)
    BY <1>2, <1>3 DEF Tasks, Live
  <2>3. CASE /\ ctl' = ctl /\ queue' = q
             /\ UNCHANGED <<chan, conn, op, timer, late, frame>>
             /\ conn.started => ctl.requestedEpoch # x.epoch
    BY <1>1, <2>2, <2>3, DroppedCalm
  <2> HIDE DEF x, q
  <2>4. /\ Unmoved
        /\ \/ Ended'
           \/ /\ ctl' = ctl /\ queue' = q /\ UNCHANGED <<chan, conn, op, timer, late, frame>>
              /\ conn.started => ctl.requestedEpoch # x.epoch
           \/ Doing \notin {"new", "ended"} /\ Doing' = "restart"
    BY <1>1, <1>2, <2>1, <2>2, RetryUnmoved
  <2> QED
    BY <2>3, <2>4 DEF Calm
<1>4. CASE x.kind = "stop"
  <2>1. stopOwner(x.close, ctl, conn, q)
    BY <1>4 DEF RunTask
  <2>2. x.close \in BOOLEAN
    BY <1>2 DEF Tasks
  <2> HIDE DEF x, q
  <2> QED
    BY <1>1, <1>2, <2>1, <2>2, StopUnmoved DEF Calm
<1>5. CASE x.kind = "close"
  <2>1. chan' = closeOwner(chan) /\ UNCHANGED <<ctl, conn>>
    BY <1>5 DEF RunTask
  <2>2. chan'.closing /\ chan'.state = "Closed"
    BY <2>1, CloseFields
  <2> QED
    BY <1>1, <1>2, <2>1, <2>2 DEF Calm, Unmoved, Ended
<1>6. CASE x.kind = "reconnect"
  <2>1. ~Live(x) /\ x.kind # "retry"
    BY <1>6 DEF Live
  <2>2. CASE queue' = q /\ UNCHANGED <<chan, ctl, conn, op, timer, late, frame>>
    BY <1>1, <2>1, <2>2, DroppedCalm
  <2>3. CASE requestRetryOwner(Same, q, hist)
    <3> HIDE DEF q
    <3> QED
      BY <1>1, <1>2, <2>3, RequestRetryCalm
  <2> QED
    BY <1>6, <2>2, <2>3 DEF RunTask
<1> QED
  <2> HIDE DEF q
  <2>1. x.kind \in {"retry", "stop", "close", "reconnect"}
    BY <1>2 DEF Tasks
  <2> HIDE DEF x
  <2> QED
    BY <2>1, <1>3, <1>4, <1>5, <1>6

-----------------------------------------------------------------------------
(* Handlers                                                                *)

Steps == Lifecycle!Next \/ (chan'.state = chan.state /\ Doing' = Doing)

\* A handler that is neither stopped nor overtaken.
Busy ==
  /\ TypeOK /\ Here /\ ~chan.closing /\ chan.state # "Closed" /\ ctl.gate
  /\ LateInert /\ Activity

\* What the connection is at while a handler goes on.
LEMMA GoingDoes ==
  Here /\ Activity /\ Working /\ FrameLive =>
    /\ Going
    /\ Doing = IF frame.at \in {"connected", "published"} THEN "stream"
               ELSE IF frame.at = "offline" THEN "recheck" ELSE "moving"
<1> SUFFICES ASSUME Here, Activity, Working, FrameLive
             PROVE  /\ Going
                    /\ Doing = IF frame.at \in {"connected", "published"} THEN "stream"
                               ELSE IF frame.at = "offline" THEN "recheck" ELSE "moving"
  OBVIOUS
<1>1. Going
  BY DEF Activity
<1>2. CASE frame.at \in {"connected", "published"}
  BY <1>1, <1>2, DoingNow DEF DoingCases, Going, Installed, Streaming
<1>3. CASE frame.at = "offline"
  <2>1. Rechecking /\ chan.state = "Offline"
    BY <1>1, <1>3 DEF Going, Installed, Visible
  <2> QED
    BY <1>1, <1>3, <2>1, DoingNow DEF DoingCases, Rechecking
<1>4. CASE frame.at \notin {"connected", "published", "offline"}
  <2>1. ~LiveOp /\ ~LiveTimer
    BY <1>1, <1>4 DEF Going, Installed, Nothing
  <2> QED
    BY <1>1, <1>4, <2>1, DoingNow DEF DoingCases
<1> QED
  BY <1>2, <1>3, <1>4

LEMMA GoingDoesNext ==
  (Here /\ Activity /\ Working /\ FrameLive =>
     /\ Going
     /\ Doing = IF frame.at \in {"connected", "published"} THEN "stream"
                ELSE IF frame.at = "offline" THEN "recheck" ELSE "moving")'
  BY GoingDoes, PTL

\* What it is at in a handler that a retry has overtaken, and between handlers.
LEMMA SupersededDoes ==
  ASSUME Here, Superseded, ~(Working /\ FrameLive) PROVE Doing = "restart"
  BY DoingNow DEF DoingCases, Superseded

\* The handler that goes on is at a publication of its own.
LEMMA CurrentDoes ==
  ASSUME Busy, NEW at \in PublishedAt \cup CheckedAt, StillCurrent(at)
  PROVE  /\ frame.at = at /\ Visible /\ Installed
         /\ Doing = IF at \in {"connected", "published"} THEN "stream"
                    ELSE IF at = "offline" THEN "recheck" ELSE "moving"
<1>1. frame.at = at /\ Working /\ Installed /\ Visible
  BY Resumed DEF Busy
<1>2. FrameLive
  BY DEF StillCurrent, current, FrameLive
<1> QED
  BY <1>1, <1>2, GoingDoes DEF Busy

\* A handler that publishes a state shows it and waits.
LEMMA PublishWaits ==
  ASSUME Here', Activity', NEW at \in PublishedAt, NEW s, NEW m, NEW then, NEW rest,
         PublishLifecycle(at, s, m, then, rest)
  PROVE  /\ chan'.state = s
         /\ Doing' = IF at = "connected" THEN "stream"
                     ELSE IF at = "offline" THEN "recheck" ELSE "moving"
<1>1. frame'.at = at /\ frame'.l /\ frame'.r /\ frame'.state = s
  BY DEF PublishLifecycle
<1>2. Working' /\ FrameLive' /\ at # "published"
  BY <1>1 DEF Working, FrameLive, PublishedAt
<1>3. Going'
  BY <1>2, GoingDoesNext
<1>4. chan'.state = s
  BY <1>1, <1>3 DEF Going, Visible
<1> QED
  BY <1>1, <1>2, <1>4, GoingDoesNext

\* One that publishes data leaves the state.
LEMMA DataWaits ==
  ASSUME Here', Activity', NEW at \in CheckedAt \cup {"cleared"}, NEW rest,
         PublishData(at, rest)
  PROVE  chan' = chan /\ Doing' = IF at = "published" THEN "stream" ELSE "moving"
<1>1. chan' = chan /\ frame'.at = at /\ frame'.l /\ frame'.r
  BY DataGoes
<1>2. Working' /\ FrameLive' /\ at # "connected" /\ at # "offline"
  BY <1>1 DEF Working, FrameLive, CheckedAt
<1> QED
  BY <1>1, <1>2, GoingDoesNext

\* A failure.
LEMMA FailWaits ==
  ASSUME Here', Activity', NEW m, publishFailed(m)
  PROVE  /\ Doing' = "moving"
         /\ chan'.state = CASE chan.state = "Connected" -> "Backoff"
                            [] chan.state = "Offline" -> "Unresolved"
                            [] OTHER -> "Failed"
<1>1. "failStage" \in PublishedAt /\ "failed" \in PublishedAt
  BY DEF PublishedAt
<1>2. CASE chan.state = "Connected"
  <2>1. PublishLifecycle("failStage", "Backoff", m, "none", <<>>)
    BY <1>2 DEF publishFailed
  <2> QED
    BY <1>1, <1>2, <2>1, PublishWaits
<1>3. CASE chan.state = "Offline"
  <2>1. PublishLifecycle("failStage", "Unresolved", m, "none", <<>>)
    BY <1>3 DEF publishFailed
  <2> QED
    BY <1>1, <1>3, <2>1, PublishWaits
<1>4. CASE chan.state \notin {"Connected", "Offline"}
  <2>1. PublishLifecycle("failed", "Failed", m, "none", <<>>)
    BY <1>4 DEF publishFailed
  <2> QED
    BY <1>1, <1>4, <2>1, PublishWaits
<1> QED
  BY <1>2, <1>3, <1>4

\* A request that failed, in a state it is answered in.
LEMMA FailureWaits ==
  ASSUME Here', Activity', chan.state \in Answering, NEW n, NEW again, NEW target,
         handleFailure(n, again, target)
  PROVE  /\ Doing' = "moving"
         /\ chan'.state = "Backoff" \/ (chan.state # "Connected" /\ chan'.state = "Failed")
<1>1. CASE failInternal(n + 1)
  BY <1>1, FailWaits DEF failInternal, Answering
<1>2. CASE PublishLifecycle("backoff", "Backoff", Meta(n + 1, "failure", TRUE), target, <<>>)
  <2> DEFINE m == Meta(n + 1, "failure", TRUE)
  <2>1. PublishLifecycle("backoff", "Backoff", m, target, <<>>)
    BY <1>2
  <2> HIDE DEF m
  <2>2. "backoff" \in PublishedAt
    BY DEF PublishedAt
  <2> QED
    BY <2>1, <2>2, PublishWaits
<1> QED
  BY <1>1, <1>2 DEF handleFailure

\* A verdict that nothing is live.
LEMMA OfflineWaits ==
  ASSUME Here', Activity', chan.state \in Answering, NEW n, enterOffline(n)
  PROVE  \/ Doing' = "recheck" /\ chan'.state = "Offline"
         \/ /\ Doing' = "moving"
            /\ chan'.state = IF chan.state = "Connected" THEN "Backoff" ELSE "Failed"
<1>1. CASE failInternal(n)
  BY <1>1, FailWaits DEF failInternal, Answering
<1>2. CASE PublishLifecycle("offline", "Offline", Meta(0, "none", TRUE), "none", <<>>)
  <2> DEFINE m == Meta(0, "none", TRUE)
  <2>1. PublishLifecycle("offline", "Offline", m, "none", <<>>)
    BY <1>2
  <2> HIDE DEF m
  <2>2. "offline" \in PublishedAt
    BY DEF PublishedAt
  <2> QED
    BY <2>1, <2>2, PublishWaits
<1> QED
  BY <1>1, <1>2 DEF enterOffline

\* A resolution begins.
LEMMA ResolveWaits ==
  ASSUME Here', Activity', NEW l, mayBegin(l), NEW n, NEW tm, NEW q,
         beginResolve(l, n, tm, q)
  PROVE  /\ Doing' = "moving"
         /\ chan'.state = IF chan.state \in {"Connected", "Connecting"} THEN "Backoff"
                          ELSE "Unresolved"
<1>1. "interrupt" \in PublishedAt /\ "unresolved" \in PublishedAt
  BY DEF PublishedAt
<1>2. CASE chan.state \in {"Connected", "Connecting"}
  <2> DEFINE m == Meta(n, "cancelled", FALSE)
  <2>1. PublishLifecycle("interrupt", "Backoff", m, "none", <<>>)
    BY <1>2 DEF beginResolve
  <2> HIDE DEF m
  <2> QED
    BY <1>1, <1>2, <2>1, PublishWaits
<1>3. CASE chan.state \notin {"Connected", "Connecting"}
  <2> DEFINE m == Meta(n, "none", FALSE)
  <2>1. PublishLifecycle("unresolved", "Unresolved", m, "none", <<>>)
    BY <1>3 DEF beginResolve
  <2> HIDE DEF m
  <2> QED
    BY <1>1, <1>3, <2>1, PublishWaits
<1> QED
  BY <1>2, <1>3

\* What follows the normalization of an explicit retry.
LEMMA AfterWaits ==
  ASSUME Here', Activity', chan.state = "Unresolved", mayBegin(TRUE), NEW then, NEW tm, NEW q,
         AfterNormalized(then, tm, q)
  PROVE  Doing' = "moving" /\ chan'.state \in {"Unresolved", "Failed"}
  BY ResolveWaits, FailWaits DEF AfterNormalized, failInternal

\* An explicit retry takes the channel to where it may resolve again.
LEMMA NormalizeWaits ==
  ASSUME Here', Activity', TypeOK, chan.state # "Closed",
         NEW l, NEW r, current(l, r), NEW then, NEW tm, NEW q,
         normalizeExplicitRetry(l, r, then, tm, q)
  PROVE  Doing' = "moving" /\ chan'.state \in Lifecycle!Renewed[chan.state]
<1>0. /\ chan.state \in {"Unresolved", "Offline", "Connecting", "Connected", "Backoff", "Failed"}
      /\ "normBackoff" \in PublishedAt /\ "normUnresolved" \in PublishedAt
  BY OpenStates DEF PublishedAt
<1>1. CASE chan.state \in {"Connected", "Connecting"}
  <2> DEFINE m == Meta(0, "cancelled", FALSE)
  <2>1. PublishLifecycle("normBackoff", "Backoff", m, then, <<>>)
    BY <1>1 DEF normalizeExplicitRetry
  <2> HIDE DEF m
  <2>2. Doing' = "moving" /\ chan'.state = "Backoff"
    BY <1>0, <2>1, PublishWaits
  <2> QED
    BY <1>1, <2>2 DEF Lifecycle!Renewed
<1>2. CASE chan.state \in {"Offline", "Backoff", "Failed"}
  <2>1. PublishLifecycle("normUnresolved", "Unresolved", Clean, then, <<>>)
    BY <1>2 DEF normalizeExplicitRetry
  <2>2. Doing' = "moving" /\ chan'.state = "Unresolved"
    BY <1>0, <2>1, PublishWaits
  <2> QED
    BY <1>2, <2>2 DEF Lifecycle!Renewed
<1>3. CASE chan.state = "Unresolved"
  <2>1. AfterNormalized(then, tm, q) /\ mayBegin(TRUE)
    BY <1>3 DEF normalizeExplicitRetry, current, mayBegin
  <2>2. Doing' = "moving" /\ chan'.state \in {"Unresolved", "Failed"}
    BY <1>3, <2>1, AfterWaits
  <2> QED
    BY <1>3, <2>2 DEF Lifecycle!Renewed
<1> QED
  BY <1>0, <1>1, <1>2, <1>3

\* The steps of RumbleLifecycle, as a handler takes them.
LEMMA Moves ==
  /\ Doing = "moving" /\ Doing' = "moving" =>
       /\ chan.state \in {"Connected", "Connecting"} /\ chan'.state = "Backoff" => Steps
       /\ chan.state = "Offline" /\ chan'.state = "Unresolved" => Steps
       /\ chan.state = "Failed" /\ chan'.state = "Unresolved" => Steps
       /\ chan.state = "Unresolved" /\ chan'.state \in {"Connecting", "Failed"} => Steps
       /\ chan.state = "Backoff" /\ chan'.state \in {"Unresolved", "Connecting", "Failed"} => Steps
       /\ chan'.state = chan.state => Steps
  /\ Doing = "moving" /\ chan'.state = chan.state =>
       /\ chan.state = "Unresolved" /\ Doing' = "resolve" => Steps
       /\ chan.state = "Connecting" /\ Doing' \in {"catalog", "stream"} => Steps
       /\ chan.state = "Backoff" /\ Doing' \in {"catalog", "retry"} => Steps
       /\ chan.state = "Failed" /\ Doing' = "failed" => Steps
<1> USE DEF Steps, Lifecycle!Next
<1>1. ASSUME Doing = "moving", Doing' = "moving",
             \/ chan.state \in {"Connected", "Connecting"} /\ chan'.state = "Backoff"
             \/ chan.state = "Offline" /\ chan'.state = "Unresolved"
             \/ chan.state = "Failed" /\ chan'.state = "Unresolved"
             \/ chan.state = "Unresolved" /\ chan'.state \in {"Connecting", "Failed"}
             \/ chan.state = "Backoff" /\ chan'.state \in {"Unresolved", "Connecting", "Failed"}
      PROVE  Lifecycle!Lead
  BY <1>1 DEF Lifecycle!Lead, Lifecycle!Leads
<1>2. ASSUME Doing = "moving", chan'.state = chan.state,
             \/ chan.state = "Unresolved" /\ Doing' = "resolve"
             \/ chan.state = "Connecting" /\ Doing' \in {"catalog", "stream"}
             \/ chan.state = "Backoff" /\ Doing' \in {"catalog", "retry"}
             \/ chan.state = "Failed" /\ Doing' = "failed"
      PROVE  Lifecycle!Settle
  BY <1>2 DEF Lifecycle!Settle, Lifecycle!Suits
<1> QED
  BY <1>1, <1>2

\* The answers and the timers of RumbleLifecycle.
LEMMA Causes ==
  /\ Doing = "resolve" /\ chan.state = "Unresolved" /\ Doing' = "moving"
       /\ chan'.state \in {"Unresolved", "Backoff", "Failed"} => Steps
  /\ Doing = "catalog" /\ Doing' = "moving" /\ chan'.state = chan.state => Steps
  /\ Doing = "stream" /\ chan.state = "Connecting" /\ chan'.state = "Connected"
       /\ Doing' = "stream" => Steps
  /\ Doing = "stream" /\ Doing' = "moving"
       /\ (chan'.state = "Backoff" \/ (chan.state = "Connecting" /\ chan'.state = "Failed"))
       => Steps
  /\ Doing \in {"resolve", "stream"} /\ Doing' = "recheck" /\ chan'.state = "Offline" => Steps
  /\ Doing = "recheck" /\ chan.state = "Offline" /\ Doing' = "moving"
       /\ chan'.state = "Unresolved" => Steps
  /\ Doing = "retry" /\ chan.state = "Backoff" /\ Doing' = "moving"
       /\ chan'.state \in {"Backoff", "Unresolved"} => Steps
  /\ Doing = "restart" /\ Doing' = "moving" /\ chan'.state \in Lifecycle!Renewed[chan.state]
       => Steps
<1> USE DEF Steps, Lifecycle!Next
<1>1. Doing = "resolve" /\ chan.state = "Unresolved" /\ Doing' = "moving"
       /\ chan'.state \in {"Unresolved", "Backoff", "Failed"} => Lifecycle!Resolved
  BY DEF Lifecycle!Resolved
<1>2. Doing = "catalog" /\ Doing' = "moving" /\ chan'.state = chan.state => Lifecycle!Catalogued
  BY DEF Lifecycle!Catalogued
<1>3. Doing = "stream" /\ chan.state = "Connecting" /\ chan'.state = "Connected"
       /\ Doing' = "stream" => Lifecycle!GoesLive
  BY DEF Lifecycle!GoesLive
<1>4. Doing = "stream" /\ Doing' = "moving"
       /\ (chan'.state = "Backoff" \/ (chan.state = "Connecting" /\ chan'.state = "Failed"))
       => Lifecycle!Ends
  BY DEF Lifecycle!Ends
<1>5. Doing \in {"resolve", "stream"} /\ Doing' = "recheck" /\ chan'.state = "Offline"
       => Lifecycle!GoesOffline
  BY DEF Lifecycle!GoesOffline
<1>6. ASSUME \/ Doing = "recheck" /\ chan.state = "Offline" /\ Doing' = "moving"
                /\ chan'.state = "Unresolved"
             \/ Doing = "retry" /\ chan.state = "Backoff" /\ Doing' = "moving"
                /\ chan'.state \in {"Backoff", "Unresolved"}
      PROVE  Lifecycle!TimeIsUp
  BY <1>6 DEF Lifecycle!TimeIsUp
<1>7. Doing = "restart" /\ Doing' = "moving" /\ chan'.state \in Lifecycle!Renewed[chan.state]
       => Lifecycle!Renew
  BY DEF Lifecycle!Renew
<1> QED
  BY <1>1, <1>2, <1>3, <1>4, <1>5, <1>6, <1>7

\* A handler that ends with a request just started is at that request.
LEMMA RequestDoes ==
  ASSUME Here', NEW kind \in {"resolve", "catalog", "stream"}, op' = Request(kind)
  PROVE  Doing' = kind
<1>1. LiveOp' /\ op'.kind = kind
  BY RequestLive DEF LiveOp
<1> QED
  BY <1>1, DoingNext DEF DoingCases

\* The end of a handler that neither shows nor starts anything.
LEMMA AbandonDoes ==
  ASSUME Busy, Here', Working, ~FrameLive, chan' = chan, ctl' = ctl,
         UNCHANGED <<op, timer, queue>>, frame'.at = "idle"
  PROVE  Steps
<1>1. Superseded
  BY DEF Busy, Activity
<1>2. ~LiveOp' /\ (LiveTimer' => timer'.kind = "explicit") /\ RetryPending'
  BY <1>1 DEF Superseded, LiveOp, LiveTimer, RetryPending
<1>3. Doing' = "restart"
  BY <1>2, DoingNext DEF DoingCases, Working
<1>4. Doing = "restart"
  BY <1>1, SupersededDoes DEF Busy
<1> QED
  BY <1>3, <1>4 DEF Steps

\* Handlers that stop at a publication, or have nothing more to do.
LEMMA EndSteps ==
  ASSUME Busy, Here', Activity', Abandon \/ Finish PROVE Steps
<1>0. /\ Idle.at = "idle"
      /\ \A at : Suspended(at) /\ FrameLive /\ at # "delegate" => StillCurrent(at)
      /\ UNCHANGED <<chan, ctl, conn, op, queue>> /\ frame'.at = "idle"
  BY DEF Idle, StillCurrent, Suspended, FrameLive, current, Busy, Here, Running, InEpoch,
         Abandon, Finish
<1>1. ASSUME NEW at \in PublishedAt \cup CheckedAt, Suspended(at),
             ~StillCurrent(at) \/ (at \in PublishedAt /\ ~Published(at)),
             UNCHANGED timer
      PROVE  Steps
  <2>1. frame.at = at /\ Working /\ at # "delegate"
    BY <1>1 DEF Suspended, Working, PublishedAt, CheckedAt
  <2>2. ~FrameLive
    BY <1>0, <1>1, <2>1 DEF Busy, Activity, Going, Visible, Published
  <2> QED
    BY <1>0, <1>1, <2>1, <2>2, AbandonDoes
<1>2. CASE Abandon
  <2>1. PICK at \in PublishedAt \cup CheckedAt :
           /\ Suspended(at)
           /\ ~StillCurrent(at) \/ (at \in PublishedAt /\ ~Published(at))
    BY <1>2 DEF Abandon
  <2>2. UNCHANGED timer
    BY <1>2 DEF Abandon
  <2> QED
    BY <1>1, <2>1, <2>2
<1>3. CASE Published("failed") /\ UNCHANGED timer
  <2>1. StillCurrent("failed") /\ "failed" \in PublishedAt
    BY <1>3 DEF Published, PublishedAt
  <2>2. /\ frame.at = "failed" /\ Visible /\ Installed /\ Doing = "moving"
    BY <2>1, CurrentDoes
  <2>3. chan.state = "Failed" /\ Nothing
    BY <2>2 DEF Visible, Installed
  <2>4. ~LiveOp' /\ ~LiveTimer'
    BY <1>0, <1>3, <2>3 DEF Nothing, LiveOp, LiveTimer
  <2>5. Doing' \in {"failed", "restart"}
    BY <1>0, <2>4, DoingNext DEF DoingCases, Working
  <2>6. CASE Doing' = "failed"
    BY <1>0, <2>2, <2>3, <2>6, Moves
  <2>7. CASE Doing' = "restart"
    BY <1>0, <2>2, <2>7 DEF Steps, Lifecycle!Next, Lifecycle!Restart
  <2> QED
    BY <2>5, <2>6, <2>7
<1>4. CASE Finish /\ Suspended("offline")
  <2>1. frame.at = "offline" /\ Working /\ "offline" \in PublishedAt
    BY <1>4 DEF Suspended, Working, PublishedAt
  <2>2. CASE ~FrameLive
    <3>1. ~current(frame.l, frame.r)
      BY <2>1, <2>2 DEF FrameLive, current
    <3>2. UNCHANGED timer /\ ~StillCurrent("offline")
      BY <1>4, <2>1, <3>1 DEF Finish, Published, StillCurrent, Suspended
    <3> QED
      BY <1>1, <1>4, <2>1, <3>2
  <2>3. CASE FrameLive
    <3>1. StillCurrent("offline") /\ Going
      BY <1>0, <1>4, <2>1, <2>3 DEF Busy, Activity
    <3>2. Published("offline")
      BY <2>1, <3>1 DEF Going, Visible, Published
    <3>3. UNCHANGED timer
      BY <1>4, <2>1, <3>2 DEF Finish, Published, StillCurrent, Suspended
    <3>4. Rechecking /\ chan.state = "Offline" /\ Doing = "recheck"
      BY <2>1, <2>3, <3>1, GoingDoes DEF Going, Installed, Visible, Busy
    <3>5. ~LiveOp' /\ LiveTimer' /\ timer'.kind = "resolve" /\ chan'.state = "Offline"
      BY <1>0, <3>3, <3>4 DEF Rechecking, LiveOp, LiveTimer
    <3>6. Doing' = "recheck"
      BY <3>5, DoingNext DEF DoingCases
    <3> QED
      BY <1>0, <3>4, <3>6 DEF Steps
  <2> QED
    BY <2>2, <2>3
<1> QED
  BY <1>2, <1>3, <1>4 DEF Finish, Published, StillCurrent, Suspended

\* Handlers that publish again.
LEMMA NextSteps ==
  ASSUME Busy, Here', Activity',
         \/ ContinueNormBackoff \/ ContinueNormUnresolved \/ ContinueInterrupt
         \/ ContinueMetadata \/ ContinueConnecting \/ ContinueCatalog \/ ContinueFailStage
         \/ ContinueConnected
  PROVE  Steps
<1>0. /\ \A at : Published(at) => StillCurrent(at)
      /\ \A at : StillCurrent(at) => mayBegin(TRUE) /\ mayBegin(frame.l)
      /\ {"normBackoff", "normUnresolved", "interrupt", "unresolved", "connecting",
          "failStage", "failed", "opening"} \subseteq PublishedAt
      /\ "connected" \in PublishedAt
      /\ CheckedAt = {"metadata", "catalog", "published"}
  BY DEF Published, StillCurrent, current, mayBegin, PublishedAt, CheckedAt
<1>1. ASSUME NEW at \in PublishedAt \cup CheckedAt, StillCurrent(at),
             NEW next \in PublishedAt, NEW s, NEW m, NEW then, NEW rest,
             PublishLifecycle(next, s, m, then, rest),
             at \notin {"connected", "published", "offline"},
             next \notin {"connected", "offline"}
      PROVE  /\ frame.at = at /\ Visible /\ chan'.state = s
             /\ Doing = "moving" /\ Doing' = "moving"
  BY <1>1, CurrentDoes, PublishWaits
<1>2. CASE ContinueNormBackoff
  <2>1. /\ StillCurrent("normBackoff")
        /\ PublishLifecycle("normUnresolved", "Unresolved", Clean, frame.then, <<>>)
    BY <1>0, <1>2 DEF ContinueNormBackoff
  <2>2. /\ frame.at = "normBackoff" /\ Visible /\ chan'.state = "Unresolved"
        /\ Doing = "moving" /\ Doing' = "moving"
    BY <1>0, <1>1, <2>1
  <2> QED
    BY <2>2, Moves DEF Visible
<1>3. CASE ContinueInterrupt
  <2> DEFINE m == Meta(conn.failures, "none", FALSE)
  <2>1. StillCurrent("interrupt") /\ PublishLifecycle("unresolved", "Unresolved", m, "none", <<>>)
    BY <1>0, <1>3 DEF ContinueInterrupt
  <2> HIDE DEF m
  <2>2. /\ frame.at = "interrupt" /\ Visible /\ chan'.state = "Unresolved"
        /\ Doing = "moving" /\ Doing' = "moving"
    BY <1>0, <1>1, <2>1
  <2> QED
    BY <2>2, Moves DEF Visible
<1>4. CASE ContinueMetadata
  <2> DEFINE m == Meta(conn.failures, "none", FALSE)
  <2>1. StillCurrent("metadata") /\ PublishLifecycle("connecting", "Connecting", m, "none", <<>>)
    BY <1>4 DEF ContinueMetadata
  <2> HIDE DEF m
  <2>2. /\ frame.at = "metadata" /\ Visible /\ chan'.state = "Connecting"
        /\ Doing = "moving" /\ Doing' = "moving"
    BY <1>0, <1>1, <2>1
  <2> QED
    BY <2>2, Moves DEF Visible
<1>5. CASE ContinueCatalog
  <2> DEFINE m == Meta(conn.failures, "none", FALSE)
  <2>1. StillCurrent("catalog") /\ PublishLifecycle("opening", "Connecting", m, "none", <<>>)
    BY <1>5 DEF ContinueCatalog
  <2> HIDE DEF m
  <2>2. /\ frame.at = "catalog" /\ Visible /\ chan'.state = "Connecting"
        /\ Doing = "moving" /\ Doing' = "moving"
    BY <1>0, <1>1, <2>1
  <2>3. chan.state \in {"Connecting", "Backoff"}
    BY <2>2 DEF Visible, Waiting
  <2> QED
    BY <2>2, <2>3, Moves
<1>6. CASE ContinueFailStage
  <2>1. /\ StillCurrent("failStage")
        /\ PublishLifecycle("failed", "Failed", frame.meta, "none", <<>>)
    BY <1>0, <1>6 DEF ContinueFailStage
  <2>2. /\ frame.at = "failStage" /\ Visible /\ chan'.state = "Failed"
        /\ Doing = "moving" /\ Doing' = "moving"
    BY <1>0, <1>1, <2>1
  <2> QED
    BY <2>2, Moves DEF Visible
<1>7. CASE ContinueNormUnresolved
  <2>1. StillCurrent("normUnresolved") /\ AfterNormalized(frame.then, timer, queue)
    BY <1>0, <1>7 DEF ContinueNormUnresolved
  <2>2. frame.at = "normUnresolved" /\ Visible /\ Doing = "moving"
    BY <1>0, <2>1, CurrentDoes
  <2>3. chan.state = "Unresolved"
    BY <2>2 DEF Visible
  <2>4. Doing' = "moving" /\ chan'.state \in {"Unresolved", "Failed"}
    BY <1>0, <2>1, <2>3, AfterWaits
  <2> QED
    BY <2>2, <2>3, <2>4, Moves
<1>8. CASE ContinueConnecting
  <2>1. StillCurrent("connecting") /\ PublishData("cleared", <<>>)
    BY <1>0, <1>8 DEF ContinueConnecting, beginEmoteCatalog
  <2>2. Doing = "moving"
    BY <1>0, <2>1, CurrentDoes
  <2>3. chan' = chan /\ Doing' = "moving"
    BY <2>1, DataWaits
  <2> QED
    BY <2>2, <2>3 DEF Steps
<1>9. CASE ContinueConnected
  <2>1. StillCurrent("connected") /\ PublishData("published", Tail(frame.rest))
    BY <1>0, <1>9 DEF ContinueConnected
  <2>2. Doing = "stream"
    BY <1>0, <2>1, CurrentDoes
  <2>3. chan' = chan /\ Doing' = "stream"
    BY <1>0, <2>1, DataWaits
  <2> QED
    BY <2>2, <2>3 DEF Steps
<1> QED
  BY <1>2, <1>3, <1>4, <1>5, <1>6, <1>7, <1>8, <1>9

\* The events of a stream.
LEMMA EventsSteps ==
  ASSUME Busy, Here', Activity', NEW batch, processEvents(batch),
         LiveOp, op.kind = "stream",
         IF conn.seenInit THEN chan.state = "Connected" ELSE chan.state = "Connecting"
  PROVE  Steps
<1>0. /\ Doing = "stream" /\ "connected" \in PublishedAt /\ "published" \in CheckedAt
      /\ chan.state \in Answering
  BY DoingNow DEF DoingCases, Busy, PublishedAt, CheckedAt, Answering
<1>1. CASE batch = <<>>
  <2>1. Done /\ UNCHANGED op
    BY <1>1 DEF processEvents
  <2>2. chan' = chan /\ LiveOp' /\ op'.kind = "stream"
    BY <2>1 DEF Done, LiveOp
  <2>3. Doing' = "stream"
    BY <2>2, DoingNext DEF DoingCases
  <2> QED
    BY <1>0, <2>2, <2>3 DEF Steps
<1>2. CASE batch # <<>> /\ Head(batch) = "init" /\ ~conn.seenInit
  <2>1. PublishLifecycle("connected", "Connected", Clean, "none", batch)
    BY <1>2 DEF processEvents
  <2>2. chan'.state = "Connected" /\ Doing' = "stream"
    BY <1>0, <2>1, PublishWaits
  <2> QED
    BY <1>0, <1>2, <2>2, Causes
<1>3. CASE batch # <<>> /\ conn.seenInit
  <2>1. PublishData("published", Tail(batch))
    BY <1>3 DEF processEvents
  <2>2. chan' = chan /\ Doing' = "stream"
    BY <1>0, <2>1, DataWaits
  <2> QED
    BY <1>0, <2>2 DEF Steps
<1>4. CASE batch # <<>> /\ Head(batch) # "init" /\ ~conn.seenInit
  <2>1. handleFailure(conn.failures, FALSE, "stream")
    BY <1>4 DEF processEvents, Fail
  <2>2. /\ Doing' = "moving"
        /\ chan'.state = "Backoff" \/ (chan.state # "Connected" /\ chan'.state = "Failed")
    BY <1>0, <2>1, FailureWaits
  <2> QED
    BY <1>0, <1>4, <2>2, Causes
<1> QED
  BY <1>1, <1>2, <1>3, <1>4

\* Handlers that start a request or a timer, or go on with a stream.
LEMMA InstallSteps ==
  ASSUME Busy, Here', Activity',
         \/ ContinueUnresolved \/ ContinueOpening \/ ContinueCleared
         \/ ContinueBackoff \/ ContinuePublished
  PROVE  Steps
<1>0. /\ \A at : Published(at) => StillCurrent(at)
      /\ {"unresolved", "opening", "backoff"} \subseteq PublishedAt
      /\ "published" \in CheckedAt
  BY DEF Published, PublishedAt, CheckedAt
<1>1. CASE ContinueUnresolved
  <2>1. StillCurrent("unresolved") /\ op' = Request("resolve") /\ chan' = chan
    BY <1>0, <1>1 DEF ContinueUnresolved, Done
  <2>2. chan.state = "Unresolved" /\ Doing = "moving"
    BY <1>0, <2>1, CurrentDoes DEF Visible
  <2>3. Doing' = "resolve"
    BY <2>1, RequestDoes
  <2> QED
    BY <2>1, <2>2, <2>3, Moves
<1>2. CASE ContinueOpening
  <2>1. StillCurrent("opening") /\ op' = Request("stream") /\ chan' = chan
    BY <1>0, <1>2 DEF ContinueOpening, Done
  <2>2. chan.state = "Connecting" /\ Doing = "moving"
    BY <1>0, <2>1, CurrentDoes DEF Visible
  <2>3. Doing' = "stream"
    BY <2>1, RequestDoes
  <2> QED
    BY <2>1, <2>2, <2>3, Moves
<1>3. CASE ContinueCleared
  <2>1. /\ frame.at = "cleared" /\ Working /\ ~Starting /\ chan' = chan
        /\ op' = IF current(frame.l, TRUE) THEN Request("catalog") ELSE op
    BY <1>3 DEF ContinueCleared, Suspended, Working, Starting, Done
  <2>2. FrameLive
    BY <2>1 DEF Busy, Activity
  <2>3. Going /\ Doing = "moving"
    BY <2>1, <2>2, GoingDoes DEF Busy
  <2>4. chan.state \in {"Connecting", "Backoff"}
    BY <2>1, <2>3 DEF Going, Visible, Waiting
  <2>5. op' = Request("catalog")
    BY <2>1, <2>2 DEF FrameLive, current, Busy, Here, Running, InEpoch
  <2>6. Doing' = "catalog"
    BY <2>5, RequestDoes
  <2> QED
    BY <2>1, <2>3, <2>4, <2>6, Moves
<1>4. CASE ContinueBackoff
  <2>1. StillCurrent("backoff") /\ UNCHANGED op
    BY <1>0, <1>4 DEF ContinueBackoff
  <2>2. frame.at = "backoff" /\ Visible /\ Installed /\ Doing = "moving"
    BY <1>0, <2>1, CurrentDoes
  <2>3. chan.state = "Backoff" /\ Nothing
    BY <2>2 DEF Visible, Installed, Waiting
  <2>4. CASE InstallTimer(frame.then) /\ Done
    <3>1. /\ LiveTimer' /\ timer'.kind = frame.then /\ chan' = chan /\ ~LiveOp'
          /\ frame'.at = "idle"
      BY <2>1, <2>3, <2>4, DoneIdle DEF InstallTimer, Fresh, LiveTimer, LiveOp, Nothing
    <3>2. frame.then \in {"resolve", "stream"}
      BY <2>2 DEF Busy, TypeOK, Frames
    <3>3. Doing' = "retry"
      BY <2>3, <3>1, <3>2, DoingNext DEF DoingCases
    <3> QED
      BY <2>2, <2>3, <3>1, <3>3, Moves
  <2>5. CASE failInternal(conn.failures)
    <3>1. Doing' = "moving" /\ chan'.state = "Failed"
      BY <2>3, <2>5, FailWaits DEF failInternal
    <3> QED
      BY <2>2, <2>3, <3>1, Moves
  <2> QED
    BY <1>4, <2>4, <2>5 DEF ContinueBackoff
<1>5. CASE ContinuePublished
  <2>1. StillCurrent("published") /\ processEvents(frame.rest)
    BY <1>5 DEF ContinuePublished
  <2>2. frame.at = "published" /\ Visible /\ Installed
    BY <1>0, <2>1, CurrentDoes
  <2>3. Streaming /\ chan.state = "Connected"
    BY <2>2 DEF Visible, Installed
  <2> QED
    BY <2>1, <2>3, EventsSteps DEF Streaming
<1> QED
  BY <1>1, <1>2, <1>3, <1>4, <1>5

LEMMA ContinueSteps ==
  ASSUME Busy, Here', Activity', Continue, ~SignalsDone PROVE Steps
  BY EndSteps, NextSteps, InstallSteps DEF Continue

\* A request that fades without an answer, or a timer: nothing is seen of it.
LEMMA FadeDoes ==
  ASSUME Here, Here', chan' = chan, ctl' = ctl, UNCHANGED <<conn, queue, frame>>,
         LiveOp' <=> LiveOp, LiveOp => op' = op,
         LiveTimer' <=> LiveTimer, LiveTimer => timer' = timer
  PROVE  Steps
<1>1. RetryPending' <=> RetryPending
  BY DEF RetryPending, LiveTimer
<1>2. Doing' = Doing
  <2>1. CASE LiveOp
    BY <2>1, DoingNow, DoingNext DEF DoingCases
  <2>2. CASE ~LiveOp /\ LiveTimer /\ timer.kind # "explicit"
    BY <2>2, DoingNow, DoingNext DEF DoingCases
  <2>3. CASE ~LiveOp /\ (LiveTimer => timer.kind = "explicit")
    BY <1>1, <2>3 DEF Doing, Here, Running, Starting, InEpoch
  <2> QED
    BY <2>1, <2>2, <2>3
<1> QED
  BY <1>2 DEF Steps

\* Every answer of the API.
LEMMA AnswerSteps ==
  ASSUME Busy, Here', Activity', Answer \/ \E batch \in Batches : StreamEvents(batch)
  PROVE  Steps
<1>1. CASE AnswerDropped
  <2>1. /\ op' = NoOp /\ ~current(op.l, op.r)
        /\ UNCHANGED <<chan, ctl, conn, timer, late, queue, frame>>
    BY <1>1 DEF AnswerDropped
  <2>2. ~LiveOp /\ ~LiveOp'
    BY <2>1, NoOpIdle DEF LiveOp, current, Busy, Here, Running, InEpoch
  <2> QED
    BY <2>1, <2>2, FadeDoes DEF Busy, LiveTimer
<1>2. ASSUME NEW kind \in {"resolve", "catalog", "stream"}, Answered(kind)
      PROVE  LiveOp /\ op.kind = kind /\ OpFits /\ Doing = kind
  <2>1. LiveOp /\ op.kind = kind /\ OpFits
    BY <1>2, AnsweredFacts DEF Busy
  <2> QED
    BY <2>1, DoingNow DEF DoingCases, Busy
<1>3. CASE ResolvedOffline \/ StreamOffline
  <2>1. enterOffline(0) /\ (Answered("resolve") \/ Answered("stream"))
    BY <1>3 DEF ResolvedOffline, StreamOffline
  <2>2. /\ Doing \in {"resolve", "stream"} /\ chan.state \in Answering
        /\ Doing = "resolve" => chan.state = "Unresolved"
        /\ Doing = "stream" => chan.state \in {"Connecting", "Connected"}
    BY <1>2, <2>1 DEF OpFits, Answering
  <2>3. \/ Doing' = "recheck" /\ chan'.state = "Offline"
        \/ /\ Doing' = "moving"
           /\ chan'.state = IF chan.state = "Connected" THEN "Backoff" ELSE "Failed"
    BY <2>1, <2>2, OfflineWaits
  <2> QED
    BY <2>2, <2>3, Causes
<1>4. CASE ResolvedLive
  <2>1. Answered("resolve") /\ PublishData("metadata", <<>>)
    BY <1>4 DEF ResolvedLive
  <2>2. Doing = "resolve" /\ chan.state = "Unresolved"
    BY <1>2, <2>1 DEF OpFits
  <2>3. chan' = chan /\ Doing' = "moving"
    BY <2>1, DataWaits DEF CheckedAt
  <2> QED
    BY <2>2, <2>3, Causes
<1>5. CASE ResolvedInvalid
  <2>1. Answered("resolve") /\ failInternal(conn.failures)
    BY <1>5 DEF ResolvedInvalid
  <2>2. Doing = "resolve" /\ chan.state = "Unresolved"
    BY <1>2, <2>1 DEF OpFits
  <2>3. Doing' = "moving" /\ chan'.state = "Failed"
    BY <2>1, <2>2, FailWaits DEF failInternal
  <2> QED
    BY <2>2, <2>3, Causes
<1>6. CASE CatalogAnswered
  <2>1. Answered("catalog") /\ PublishData("catalog", <<>>)
    BY <1>6 DEF CatalogAnswered
  <2>2. Doing = "catalog"
    BY <1>2, <2>1
  <2>3. chan' = chan /\ Doing' = "moving"
    BY <2>1, DataWaits DEF CheckedAt
  <2> QED
    BY <2>2, <2>3, Causes
<1>7. ASSUME NEW retryable, NEW stable,
             \/ ResolveFailed(retryable)
             \/ StreamEnded(stable)
             \/ StreamFailed(retryable, stable)
      PROVE  Steps
  <2>1. /\ Answered("resolve") \/ Answered("stream")
        /\ \E n, again, target : handleFailure(n, again, target)
    BY <1>7 DEF ResolveFailed, StreamEnded, StreamFailed, Fail
  <2>2. /\ Doing \in {"resolve", "stream"} /\ chan.state \in Answering
        /\ Doing = "resolve" => chan.state = "Unresolved"
        /\ Doing = "stream" => chan.state \in {"Connecting", "Connected"}
    BY <1>2, <2>1 DEF OpFits, Answering
  <2>3. /\ Doing' = "moving"
        /\ chan'.state = "Backoff" \/ (chan.state # "Connected" /\ chan'.state = "Failed")
    BY <2>1, <2>2, FailureWaits
  <2> QED
    BY <2>2, <2>3, Causes
<1>8. ASSUME NEW batch, StreamEvents(batch) PROVE Steps
  <2>1. Answered("stream") /\ processEvents(batch)
    BY <1>8 DEF StreamEvents
  <2>2. LiveOp /\ op.kind = "stream" /\ OpFits
    BY <1>2, <2>1
  <2> QED
    BY <2>1, <2>2, EventsSteps DEF OpFits
<1> QED
  BY <1>1, <1>3, <1>4, <1>5, <1>6, <1>7, <1>8 DEF Answer

\* A timer fires.
LEMMA FireSteps ==
  ASSUME Busy, Here', Activity', NEW tm \in {timer} \cup late, Fire(tm) PROVE Steps
<1>1. OwnerFree /\ UNCHANGED <<ctl, conn, op>> /\ Resting /\ frame.at = "idle"
  BY RestingFacts DEF Fire, Busy
<1>2. CASE ~currentTimer(tm)
  <2>1. /\ timer' = IF tm = timer THEN NoTimer ELSE timer
        /\ queue' = queue /\ chan' = chan /\ frame' = Idle
    BY <1>2 DEF Fire, Done
  <2>2. ~(tm.l /\ tm.r /\ tm.t)
    BY <1>2 DEF currentTimer, current, Busy, Here, Running, InEpoch
  <2>3. (LiveTimer' <=> LiveTimer) /\ (LiveTimer => timer' = timer)
    BY <2>1, <2>2 DEF LiveTimer, NoTimer
  <2> QED
    BY <1>1, <2>1, <2>3, FadeDoes DEF Busy, LiveOp, OwnerFree
<1>3. CASE currentTimer(tm)
  <2>1. tm = timer /\ LiveTimer /\ current(tm.l, tm.r) /\ mayBegin(tm.l)
    BY <1>3 DEF Busy, LateInert, LiveTimer, currentTimer, current, mayBegin
  <2>2. ~LiveOp /\ TimerFits
    BY <1>1, <2>1 DEF Resting, OneWay
  <2>3. CASE timer.kind = "explicit"
    <3>1. normalizeExplicitRetry(tm.l, tm.r, "resolve", NoTimer, queue)
      BY <1>3, <2>1, <2>3 DEF Fire
    <3>2. Doing' = "moving" /\ chan'.state \in Lifecycle!Renewed[chan.state]
      BY <2>1, <3>1, NormalizeWaits DEF Busy
    <3>3. RetryPending
      BY <2>1, <2>3 DEF RetryPending
    <3>4. Doing = "restart"
      BY <1>1, <2>2, <2>3, <3>3, DoingNow DEF DoingCases, Busy, Working
    <3> QED
      BY <3>2, <3>4, Causes
  <2>4. CASE timer.kind # "explicit"
    <3>1. Doing = IF chan.state = "Offline" THEN "recheck" ELSE "retry"
      BY <2>1, <2>2, <2>4, DoingNow DEF DoingCases, Busy
    <3>2. chan.state \in {"Offline", "Backoff"} /\ (timer.kind = "stream" => chan.state = "Backoff")
      BY <2>1, <2>2, <2>4 DEF TimerFits, Waiting
    <3>3. CASE timer.kind = "stream" /\ beginEmoteCatalog(tm.l)
      <4>1. PublishData("cleared", <<>>)
        BY <2>1, <3>3 DEF beginEmoteCatalog
      <4>2. chan' = chan /\ Doing' = "moving"
        BY <4>1, DataWaits
      <4> QED
        BY <3>1, <3>2, <3>3, <4>2, Causes
    <3>4. CASE beginResolve(tm.l, conn.failures, NoTimer, queue)
      <4>1. Doing' = "moving" /\ chan'.state = "Unresolved"
        BY <2>1, <3>2, <3>4, ResolveWaits
      <4> QED
        BY <3>1, <3>2, <4>1, Causes
    <3> QED
      BY <1>3, <2>1, <2>4, <3>3, <3>4 DEF Fire
  <2> QED
    BY <2>3, <2>4
<1> QED
  BY <1>2, <1>3

\* The last part of start().
LEMMA StartResolveSteps ==
  ASSUME Busy, Here', Activity', StartResolve PROVE Steps
<1>1. frame.at = "delegate" /\ Working /\ UNCHANGED <<ctl, conn, op>> /\ ~conn.stopped
  BY DEF StartResolve, Working, Busy, Here, Running
<1>2. CASE ~frame.l
  <2>1. /\ UNCHANGED <<chan, timer, late, queue>> /\ frame'.at = "idle" /\ ~FrameLive
    BY <1>2, DoneIdle DEF StartResolve, Keep, FrameLive
  <2> QED
    BY <1>1, <2>1, AbandonDoes
<1>3. CASE frame.l
  <2>1. beginResolve(TRUE, 0, timer, queue) /\ mayBegin(TRUE) /\ FrameLive
    BY <1>1, <1>3 DEF StartResolve, Busy, Here, Running, InEpoch, mayBegin, FrameLive
  <2>2. Doing = "moving"
    BY <1>1, <2>1, GoingDoes DEF Busy
  <2>3. /\ Doing' = "moving"
        /\ chan'.state = IF chan.state \in {"Connected", "Connecting"} THEN "Backoff"
                         ELSE "Unresolved"
    BY <2>1, ResolveWaits
  <2>4. chan.state \in {"Unresolved", "Offline", "Connecting", "Connected", "Backoff", "Failed"}
    BY OpenStates DEF Busy
  <2> QED
    BY <2>2, <2>3, <2>4, Moves
<1> QED
  BY <1>2, <1>3

\* A deferred failure is reported in place of the retry it was deferred for.
LEMMA SchedFailSteps ==
  ASSUME Busy, Here', Activity', RunTask, Head(queue).kind = "schedFail" PROVE Steps
<1> DEFINE x == Head(queue)
           q == Tail(queue)
<1>1. /\ OwnerFree /\ queue # <<>> /\ UNCHANGED <<ctl, conn, op>>
      /\ normalizeExplicitRetry(x.l, x.r, "fail", timer, q)
      /\ Resting /\ frame.at = "idle"
  BY RestingFacts DEF RunTask, Busy
<1>2. NoLive(queue) => ~Live(x)
  BY <1>1, TailLive DEF Busy, TypeOK
<1>3. CASE current(x.l, x.r)
  <2>1. Live(x)
    BY <1>3 DEF current, Live
  <2>2. ~LiveOp /\ ~LiveTimer /\ RetryPending
    BY <1>1, <1>2, <2>1, Pending DEF Resting, OneWay
  <2>3. Doing = "restart"
    BY <1>1, <2>2, DoingNow DEF DoingCases, Busy, Working
  <2> HIDE DEF x, q
  <2>4. Doing' = "moving" /\ chan'.state \in Lifecycle!Renewed[chan.state]
    BY <1>1, <1>3, NormalizeWaits DEF Busy
  <2> QED
    BY <2>3, <2>4, Causes
<1>4. CASE ~current(x.l, x.r)
  <2>1. Done /\ Keep(timer, q)
    BY <1>1, <1>4 DEF normalizeExplicitRetry
  <2>2. ~Live(x) /\ x.kind # "retry"
    BY <1>4 DEF current, Live, Busy, Here, Running, InEpoch
  <2>3. /\ queue' = q /\ UNCHANGED <<chan, ctl, conn, op, timer, late, frame>>
    BY <1>1, <2>1 DEF Done, Keep, OwnerFree
  <2>4. Calm
    BY <1>1, <2>2, <2>3, DroppedCalm DEF Busy
  <2>5. Doing # "new"
    BY DEF Doing, Busy, Here, Running, TypeOK, Requests
  <2>6. \/ Doing' = Doing
        \/ Doing \notin {"new", "ended"} /\ Doing' = "restart"
    BY <2>4, <2>5 DEF Calm, Here, Running, Ended
  <2> QED
    BY <2>3, <2>6 DEF Steps, Lifecycle!Next, Lifecycle!Restart
<1> QED
  BY <1>3, <1>4

-----------------------------------------------------------------------------
(* Every step                                                              *)

Handler ==
  \/ StartResolve
  \/ RunTask /\ Head(queue).kind = "schedFail"
  \/ Answer \/ \E batch \in Batches : StreamEvents(batch)
  \/ Continue /\ ~SignalsDone
  \/ \E tm \in {timer} \cup late : Fire(tm)

\* What a handler leaves alone.
Keeps ==
  /\ ctl' = ctl /\ conn'.started = conn.started /\ conn'.stopped = conn.stopped
  /\ conn'.activeEpoch = conn.activeEpoch
  /\ Shows /\ ~Starting

\* A handler changes neither the epoch nor what stops the connection.
LEMMA HandlerLeaves ==
  ASSUME TypeOK, QuietInv, Handler PROVE Keeps
<1>1. CASE StartResolve
  <2>1. UNCHANGED <<ctl, conn>> /\ ~Starting
    BY <1>1 DEF StartResolve, Starting
  <2>2. Shows
    BY <1>1, DoneShows, ResolveShows DEF StartResolve
  <2> QED
    BY <2>1, <2>2 DEF Keeps
<1>2. CASE RunTask /\ Head(queue).kind = "schedFail"
  <2> DEFINE x == Head(queue)
             q == Tail(queue)
  <2>1. /\ OwnerFree /\ UNCHANGED <<ctl, conn>>
        /\ normalizeExplicitRetry(x.l, x.r, "fail", timer, q)
    BY <1>2 DEF RunTask
  <2>2. ~Starting
    BY <2>1 DEF OwnerFree, Idle, Starting
  <2> HIDE DEF x, q
  <2>3. Shows
    BY <2>1, ResolveShows
  <2> QED
    BY <2>1, <2>2, <2>3 DEF Keeps
<1>3. CASE Answer \/ \E batch \in Batches : StreamEvents(batch)
  BY <1>3, AnswerEpoch DEF Keeps, Works
<1>4. CASE Continue /\ ~SignalsDone
  BY <1>4, ContinueEpoch DEF Keeps, Works
<1>5. CASE \E tm \in {timer} \cup late : Fire(tm)
  <2>1. UNCHANGED conn /\ OwnerFree
    BY <1>5 DEF Fire
  <2>2. ~Starting
    BY <2>1 DEF OwnerFree, Idle, Starting
  <2> QED
    BY <1>5, <2>1, <2>2, FireWorks DEF Keeps, Works
<1> QED
  BY <1>1, <1>2, <1>3, <1>4, <1>5 DEF Handler

\* A handler that a retry has overtaken, or a connection that was not started,
\* shows nothing new.
LEMMA Overtaken ==
  ASSUME ~InEpoch \/ ~ctl.gate, Handler PROVE chan' = chan
<1>1. /\ \A l, r : ~current(l, r)
      /\ \A tm : ~currentTimer(tm)
      /\ \A kind : ~Answered(kind)
      /\ \A at : ~StillCurrent(at) /\ ~Published(at)
  BY DEF current, currentTimer, Answered, StillCurrent, Published, InEpoch
<1>2. CASE StartResolve
  BY <1>2 DEF StartResolve, InEpoch, beginResolve, mayBegin, Done
<1>3. CASE RunTask /\ Head(queue).kind = "schedFail"
  BY <1>1, <1>3 DEF RunTask, normalizeExplicitRetry, Done
<1>4. CASE Answer \/ \E batch \in Batches : StreamEvents(batch)
  BY <1>1, <1>4
     DEF Answer, AnswerDropped, ResolvedOffline, ResolvedLive, ResolvedInvalid, ResolveFailed,
         CatalogAnswered, StreamOffline, StreamEnded, StreamFailed, StreamEvents
<1>5. CASE Continue /\ ~SignalsDone
  BY <1>1, <1>5
     DEF Continue, Abandon, Finish, ContinueNormBackoff, ContinueNormUnresolved,
         ContinueInterrupt, ContinueUnresolved, ContinueMetadata, ContinueConnecting,
         ContinueCleared, ContinueCatalog, ContinueOpening, ContinueConnected,
         ContinuePublished, ContinueBackoff, ContinueFailStage, Done
<1>6. CASE \E tm \in {timer} \cup late : Fire(tm)
  BY <1>1, <1>6 DEF Fire, Done
<1> QED
  BY <1>2, <1>3, <1>4, <1>5, <1>6 DEF Handler

\* Once ended, nothing but Closed is shown.
LEMMA EndedSteps ==
  ASSUME TypeOK, QuietInv, GateShut, Ended, Next, Handler PROVE Steps
<1>1. Keeps
  BY HandlerLeaves
<1>2. Ended'
  BY <1>1 DEF Keeps, Shows, Ended
<1>3. Doing = "ended" /\ Doing' = "ended"
  BY <1>2, DoingNow, DoingNext DEF DoingCases
<1>4. chan'.state \in {chan.state, "Closed"}
  BY <1>1, StopStep DEF Keeps, Shows, Ended, AfterStop
<1> QED
  BY <1>3, <1>4 DEF Steps, Lifecycle!Next, Lifecycle!Close

\* Every step of a handler.
LEMMA HandlerSteps ==
  ASSUME TypeOK, QuietInv, ActivityInv, ActivityInv', GateShut, Ordered, Next, Handler
  PROVE  Steps
<1>1. Keeps
  BY HandlerLeaves
<1>2. CASE Ended
  BY <1>2, EndedSteps
<1>3. CASE ~Ended
  <2>1. ~Ended' /\ ~Starting'
    BY <1>1, <1>3 DEF Keeps, Shows, Ended
  <2>2. CASE ~conn.started
    <3>1. ~ctl.gate /\ conn'.started = conn.started
      BY <1>1, <2>2 DEF QuietInv, Unstarted, Keeps
    <3>2. Doing = "new" /\ Doing' = "new"
      BY <1>3, <2>1, <2>2, <3>1, DoingNow, DoingNext DEF DoingCases
    <3> QED
      BY <3>1, <3>2, Overtaken DEF Steps
  <2>3. CASE conn.started /\ ~InEpoch
    <3>1. Running /\ Running' /\ ~InEpoch'
      BY <1>1, <1>3, <2>3 DEF Keeps, Shows, Running, Ended, Ordered, InEpoch
    <3>2. Doing = "restart" /\ Doing' = "restart"
      BY <1>1, <2>1, <2>3, <3>1, DoingNow, DoingNext DEF DoingCases, Keeps
    <3> QED
      BY <2>3, <3>2, Overtaken DEF Steps
  <2>4. CASE conn.started /\ InEpoch
    <3>1. Here /\ Here'
      BY <1>1, <1>3, <2>1, <2>4 DEF Keeps, Shows, Here, Running, Ended, Ordered, InEpoch
    <3>2. Busy /\ Activity'
      BY <3>1 DEF Busy, Here, Running, ActivityInv, Gated, QuietInv, ClosedForGood, Starting
    <3> QED
      BY <3>1, <3>2, StartResolveSteps, SchedFailSteps, AnswerSteps, ContinueSteps, FireSteps
         DEF Handler
  <2> QED
    BY <2>2, <2>3, <2>4
<1> QED
  BY <1>2, <1>3

\* The other steps.
LEMMA CalmSteps == ASSUME TypeOK, Calm PROVE Steps
<1> USE DEF Steps, Lifecycle!Next
<1>1. CASE Ended
  <2>1. /\ Doing = "ended" /\ Doing' = "ended"
        /\ chan'.state \in {chan.state, "Closed"}
    BY <1>1, DoingNow, DoingNext DEF DoingCases, Calm, Unmoved
  <2> QED
    BY <2>1 DEF Lifecycle!Close
<1>2. CASE ~Ended /\ Ended'
  <2>1. Doing # "ended"
    BY <1>2 DEF Doing, Ended, TypeOK, Requests
  <2>2. Doing' = "ended"
    BY <1>2, DoingNext DEF DoingCases
  <2>3. chan'.state \in {chan.state, "Closed"}
    BY DEF Calm, Unmoved
  <2> QED
    BY <2>1, <2>2, <2>3 DEF Lifecycle!End
<1>3. CASE ~Ended'
  <2>1. chan'.state = chan.state
    BY <1>3 DEF Calm, Unmoved
  <2> QED
    BY <1>3, <2>1 DEF Calm, Lifecycle!Restart, Lifecycle!Begin
<1> QED
  BY <1>1, <1>2, <1>3

\* Every step of the connection is one of a handler, or a call.
LEMMA EveryStep ==
  ASSUME TypeOK, QuietInv, ActivityInv, Ordered, Next PROVE Handler \/ Calm
<1>1. CASE Start
  BY <1>1, StartCalm DEF Start, Handler
<1>2. CASE ApplicationCalls \/ ThreadCloseCancel
  BY <1>2, OwnerCallsCalm, ThreadCallsCalm DEF ApplicationCalls
<1>3. CASE RunTask
  BY <1>3, RunTaskCalm DEF Handler
<1>4. CASE Continue
  BY <1>4, SignalsDoneCalm DEF Handler
<1> QED
  BY <1>1, <1>2, <1>3, <1>4 DEF Next, Handler

\* A connection begins unstopped, in epoch 0.
LEMMA OrderedInit == Init => Ordered
  BY DEF Init, Ordered

LEMMA OrderedStep ==
  ASSUME TypeOK, QuietInv, ActivityInv, Ordered, [Next]_vars PROVE Ordered'
<1>0. /\ conn \in Connections /\ ctl \in Atomics
  BY DEF TypeOK
<1>1. CASE UNCHANGED vars
  BY <1>1 DEF vars, Ordered, Ended
<1>2. CASE Handler
  BY <1>2, HandlerLeaves DEF Keeps, Shows, Ordered, Ended
<1>3. CASE Calm
  <2>1. conn'.stopped => Ended'
    BY <1>3 DEF Calm, Unmoved, Ordered
  <2>2. ctl'.requestedEpoch \in Nat => conn'.activeEpoch <= ctl'.requestedEpoch
    BY <1>0, <1>3 DEF Calm, Unmoved, Ordered, Connections, Atomics
  <2>3. ctl' \in Atomics
    BY StepTypes DEF TypeOK
  <2> QED
    BY <2>1, <2>2, <2>3 DEF Ordered, Atomics
<1> QED
  BY <1>1, <1>2, <1>3, EveryStep

\* What the connection starts from.
LEMMA LifecycleInit == Init => Lifecycle!Init
<1> SUFFICES ASSUME Init PROVE Lifecycle!Init
  OBVIOUS
<1>1. chan.state \in InheritedStates /\ ~chan.closing /\ ~ctl.stopRequested /\ ~conn.started
  BY DEF Init
<1>2. chan.state \in Lifecycle!Open
  BY <1>1, ConnectionAssumption DEF States, Lifecycle!Open
<1>3. Doing = "new"
  BY <1>1, DoingNow DEF DoingCases, Ended
<1> QED
  BY <1>2, <1>3 DEF Lifecycle!Init

\* Every step is one of RumbleLifecycle, or is not seen there.
LEMMA LifecycleStep ==
  ASSUME TypeOK, QuietInv, ActivityInv, ActivityInv', GateShut, Ordered, [Next]_vars
  PROVE  [Lifecycle!Next]_(Lifecycle!vars)
<1>1. Steps => [Lifecycle!Next]_(Lifecycle!vars)
  BY DEF Steps, Lifecycle!vars
<1>2. CASE UNCHANGED vars
  <2>1. UNCHANGED <<chan, ctl, conn, op, timer, frame, queue>>
    BY <1>2 DEF vars
  <2>2. RetryPending' <=> RetryPending
    BY <2>1 DEF RetryPending, LiveTimer
  <2>3. Doing' = Doing
    BY <2>1, <2>2, DoingKept
  <2> QED
    BY <1>1, <2>1, <2>3 DEF Steps
<1>3. CASE Next
  <2>1. Handler \/ Calm
    BY <1>3, EveryStep
  <2>2. Steps
    BY <1>3, <2>1, HandlerSteps, CalmSteps
  <2> QED
    BY <1>1, <2>2
<1> QED
  BY <1>2, <1>3

\* The state of a channel changes for the reasons rumble-lifecycle.md names, and
\* for no other: with any failures, dispatchers and schedulers, any calls of any
\* threads at any moment, timers that fire late, and whatever an earlier
\* connection left visible (LifecycleKept).
THEOREM LifecycleIsKept == "cleared" \notin ReentrantAt => (Spec => LifecycleKept)
<1> SUFFICES ASSUME "cleared" \notin ReentrantAt PROVE Spec => LifecycleKept
  OBVIOUS
<1> DEFINE I == TypeOK /\ QuietInv /\ ActivityInv /\ GateShut /\ Ordered
<1>1. Init => I
  BY InitTypes, QuietInit, ActivityInit, GateShutInit, OrderedInit
<1>2. I /\ [Next]_vars => I'
  BY StepTypes, QuietStep, ActivityStep, GateShutStep, OrderedStep
     DEF vars
<1>3. I /\ I' /\ [Next]_vars => [Lifecycle!Next]_(Lifecycle!vars)
  BY LifecycleStep
<1> QED
  BY <1>1, <1>2, <1>3, LifecycleInit, PTL DEF Spec, LifecycleKept, Lifecycle!Spec

(***************************************************************************)
(* The attempts that fail in a row, for any maximum M: an ended stream     *)
(* sets the failures back to the streams that ended, so that each of at    *)
(* most M of these may be followed by as many failures as are left to M.   *)
(***************************************************************************)

\* The streak is paid for by the failures counted now and, for each stream that
\* ended, by those counted before it.
Tried ==
  /\ conn.failures <= MaxFailures /\ conn.ends <= MaxFailures
  /\ 2 * hist.streak + conn.ends * conn.ends + conn.ends
       <= 2 * conn.failures + 2 * (conn.ends * MaxFailures)

\* The stream that is followed said init, and nothing failed since.
Joined ==
  /\ chan.state = "Connected" /\ conn.seenInit /\ conn.failures = 0 /\ hist.streak = 0
  /\ ~LiveTimer /\ NoLive(queue)
  /\ frame.at \in {"idle", "connected", "published"}

\* At the maximum the connection only shows that it failed.
Spent == Nothing /\ frame.at \in {"idle", "failStage", "failed"}

Unspent == ~conn.connectedAt /\ conn.failures # MaxFailures /\ conn.ends # MaxFailures
Following == LiveOp /\ op.kind = "stream" /\ conn.seenInit
Placed ==
  /\ conn.connectedAt => Joined
  /\ conn.failures = MaxFailures \/ conn.ends = MaxFailures => Spent
  /\ Following => conn.connectedAt
AttemptsInv ==
  /\ Tried
  /\ ~conn.started => Unspent
  /\ Running => Placed

\* A step that counts nothing.
Counted ==
  /\ conn'.failures = conn.failures /\ conn'.ends = conn.ends
  /\ conn'.connectedAt = conn.connectedAt /\ hist'.streak = hist.streak
  /\ conn'.started = conn.started

\* One more stream ended, after at most M - 1 failures.
LEMMA OneMoreEnd ==
  ASSUME NEW m \in Nat, NEW e \in Nat, NEW f \in Nat, NEW s \in Nat, f + 1 <= m,
         2 * s + e * e + e <= 2 * f + 2 * (e * m)
  PROVE  2 * (s + 1) + (e + 1) * (e + 1) + (e + 1) <= 2 * (e + 1) + 2 * ((e + 1) * m)
<1>1. (e + 1) * (e + 1) = e * e + 2 * e + 1 /\ (e + 1) * m = e * m + m
  OBVIOUS
<1>2. e * e \in Nat /\ e * m \in Nat /\ (e + 1) * (e + 1) \in Nat /\ (e + 1) * m \in Nat
  OBVIOUS
<1> DEFINE x == e * e
           y == e * m
           u == (e + 1) * (e + 1)
           v == (e + 1) * m
<1>3. /\ u = x + 2 * e + 1 /\ v = y + m /\ 2 * s + x + e <= 2 * f + 2 * y
      /\ x \in Nat /\ y \in Nat
  BY <1>1, <1>2
<1> HIDE DEF x, y, u, v
<1>4. 2 * (s + 1) + u + (e + 1) <= 2 * (e + 1) + 2 * v
  BY <1>3
<1> QED
  BY <1>4 DEF u, v

\* Nothing failed in a row: whatever ended before fits.
LEMMA NoneInARow ==
  ASSUME NEW m \in Nat \ {0}, NEW e \in Nat, e <= m
  PROVE  e * e + e <= 2 * (e * m)
<1>1. e + 1 <= 2 * m
  OBVIOUS
<1>2. e * (e + 1) <= e * (2 * m)
  BY <1>1
<1>3. e * (e + 1) = e * e + e /\ e * (2 * m) = 2 * (e * m)
  OBVIOUS
<1> QED
  BY <1>2, <1>3

\* What the whole comes to.
LEMMA AllInARow ==
  ASSUME NEW m \in Nat, NEW e \in Nat, NEW f \in Nat, NEW s \in Nat, f <= m, e <= m,
         2 * s + e * e + e <= 2 * f + 2 * (e * m)
  PROVE  2 * s <= m * (m + 1)
<1>1. PICK d \in Nat : m = e + d
  <2>1. m - e \in Nat /\ m = e + (m - e)
    OBVIOUS
  <2> QED
    BY <2>1
<1>2. d <= d * d
  OBVIOUS
<1>3. e * m = e * e + e * d
  BY <1>1
<1>4. m * (m + 1) = e * e + 2 * (e * d) + d * d + e + d
  BY <1>1
<1> DEFINE x == e * e
           y == e * d
           z == d * d
<1>5. /\ 2 * s + x + e <= 2 * f + 2 * (x + y) /\ d <= z
      /\ x \in Nat /\ y \in Nat /\ z \in Nat
  BY <1>2, <1>3
<1> HIDE DEF x, y, z
<1>6. 2 * s <= x + 2 * y + z + e + d
  BY <1>1, <1>5
<1> QED
  BY <1>4, <1>6 DEF x, y, z

\* What the numbers are.
LEMMA NumbersTyped ==
  ASSUME TypeOK
  PROVE  /\ conn.failures \in Nat /\ conn.ends \in Nat /\ hist.streak \in Nat
         /\ conn.connectedAt \in BOOLEAN /\ conn.seenInit \in BOOLEAN
         /\ conn.started \in BOOLEAN
         /\ conn \in Connections /\ hist \in [streak : Nat, wanted : Locators]
  BY DEF TypeOK, Connections

-----------------------------------------------------------------------------
(* What a step may do to the counts                                        *)

\* Where nothing is in the way, a step that counts nothing does no harm.
LEMMA UnspentKeeps ==
  ASSUME AttemptsInv, Counted, Running' => Running, Running => Unspent,
         Following' => Following
  PROVE  AttemptsInv'
<1>1. Tried' /\ (~conn'.started => Unspent')
  BY DEF AttemptsInv, Tried, Counted, Unspent
<1>2. Running' => Placed'
  BY DEF AttemptsInv, Counted, Unspent, Placed
<1> QED
  BY <1>1, <1>2 DEF AttemptsInv

\* Nor does one that ends a handler, or lets something go.
LEMMA RestKeeps ==
  ASSUME AttemptsInv, Counted, Running' => Running, Following' => Following,
         chan'.state = chan.state, conn'.seenInit = conn.seenInit,
         LiveOp' => LiveOp, LiveTimer' => LiveTimer, NoLive(queue) => NoLive(queue'),
         frame'.at \in {frame.at, "idle"}
  PROVE  AttemptsInv'
<1>1. Tried' /\ (~conn'.started => Unspent')
  BY DEF AttemptsInv, Tried, Counted, Unspent
<1>2. Joined => Joined'
  BY DEF Joined, Counted
<1>3. Spent => Spent'
  BY DEF Spent, Nothing
<1>4. Running' => Placed'
  BY <1>2, <1>3 DEF AttemptsInv, Counted, Unspent, Placed
<1> QED
  BY <1>1, <1>4 DEF AttemptsInv

\* A new beginning.
LEMMA ResetKeeps ==
  ASSUME conn'.failures = 0, conn'.ends = 0, ~conn'.connectedAt, hist'.streak = 0,
         Running' => ~Following'
  PROVE  AttemptsInv'
<1>1. MaxFailures \in Nat \ {0}
  BY ConnectionAssumption
<1>2. Tried'
  BY <1>1 DEF Tried
<1>3. Unspent'
  BY <1>1 DEF Unspent
<1> QED
  BY <1>2, <1>3 DEF AttemptsInv, Placed, Unspent

\* Nor does one after which the connection does not run.
LEMMA StoppedKeeps == ASSUME AttemptsInv, Counted, ~Running' PROVE AttemptsInv'
  BY DEF AttemptsInv, Tried, Counted, Unspent

-----------------------------------------------------------------------------
(* Calls of the application, and the tasks they queue                      *)

LEMMA StopAttempts ==
  ASSUME TypeOK, AttemptsInv, hist' = hist, NEW close, NEW a \in Atomics, NEW q,
         stopOwner(close, a, conn, q)
  PROVE  AttemptsInv'
<1>1. conn' = conn \/ conn' = [conn EXCEPT !.stopped = TRUE]
  BY DEF stopOwner
<1>2. Counted
  BY <1>1, NumbersTyped DEF Counted, Connections
<1>3. ctl'.stopRequested
  BY DEF stopOwner, Atomics
<1> QED
  BY <1>2, <1>3, StoppedKeeps DEF Running

\* A retry that is accepted is a new beginning.
LEMMA RetryAttempts ==
  ASSUME TypeOK, AttemptsInv, NEW epoch, NEW loc, NEW a \in Atomics, NEW q, NEW h,
         retryOwner(epoch, loc, a, q, h), a.stopRequested = ctl.stopRequested,
         NoLive(queue) => NoLive(q),
         h \in [streak : Nat, wanted : Locators], h.streak = hist.streak
  PROVE  AttemptsInv'
<1> DEFINE c == Retried(epoch, loc)
<1>1. /\ c.failures = 0 /\ c.ends = 0 /\ ~c.connectedAt
      /\ c.stopped = conn.stopped /\ DOMAIN c = DOMAIN conn
  BY NumbersTyped DEF Retried, Connections
<1> HIDE DEF c
<1>2. CASE /\ ctl' = a /\ queue' = q /\ hist' = h
           /\ UNCHANGED <<chan, conn, op, timer, late, frame>>
  BY <1>2, RestKeeps DEF Counted, Following, LiveOp, LiveTimer, Running
<1>3. CASE hist' = [h EXCEPT !.streak = 0] /\ conn' = c /\ op' = NoOp
  BY <1>1, <1>3, ResetKeeps, NoOpIdle DEF Following, LiveOp
<1>4. CASE /\ hist' = [h EXCEPT !.streak = 0] /\ ~conn.stopped
           /\ stopOwner(TRUE, a, c, q)
  <2>1. conn' = [c EXCEPT !.stopped = TRUE]
    BY <1>1, <1>4 DEF stopOwner
  <2>2. conn'.failures = 0 /\ conn'.ends = 0 /\ ~conn'.connectedAt
    BY <1>1, <2>1, NumbersTyped DEF Connections
  <2>3. ctl'.stopRequested
    BY <1>4 DEF stopOwner, Atomics
  <2> QED
    BY <1>4, <2>2, <2>3, ResetKeeps DEF Running
<1> QED
  BY <1>2, <1>3, <1>4 DEF retryOwner, invalidateOwner, c

LEMMA RequestRetryAttempts ==
  ASSUME TypeOK, AttemptsInv, NEW loc, NEW q, NEW h, requestRetryOwner(loc, q, h),
         NoLive(queue) => NoLive(q),
         h \in [streak : Nat, wanted : Locators], h.streak = hist.streak
  PROVE  AttemptsInv'
<1> DEFINE e == ctl.requestedEpoch + 1
           a == [ctl EXCEPT !.requestedEpoch = e]
<1>1. a \in Atomics /\ a.stopRequested = ctl.stopRequested
  BY DEF TypeOK, Atomics
<1>2. retryOwner(e, loc, a, q, h)
  BY DEF requestRetryOwner
<1> HIDE DEF e, a
<1> QED
  BY <1>1, <1>2, RetryAttempts

LEMMA OwnerCallsAttempts ==
  ASSUME TypeOK, AttemptsInv,
         \/ \E loc \in Locators \cup {Same} : OwnerRetry(loc)
         \/ \E close \in BOOLEAN : OwnerStop(close)
         \/ OwnerClose
  PROVE  AttemptsInv'
<1>1. ASSUME NEW loc \in Locators \cup {Same}, OwnerRetry(loc) PROVE AttemptsInv'
  <2> DEFINE h == Wanting(loc)
  <2>1. h \in [streak : Nat, wanted : Locators] /\ h.streak = hist.streak
    BY NumbersTyped DEF Wanting
  <2>2. requestRetryOwner(loc, queue, h)
    BY <1>1 DEF OwnerRetry
  <2> HIDE DEF h
  <2> QED
    BY <2>1, <2>2, RequestRetryAttempts
<1>2. ASSUME NEW close \in BOOLEAN, OwnerStop(close) PROVE AttemptsInv'
  BY <1>2, StopAttempts DEF OwnerStop, TypeOK
<1>3. CASE OwnerClose
  <2>1. CASE conn.started /\ ~ctl.stopRequested
    BY <1>3, <2>1, StopAttempts DEF OwnerClose, TypeOK
  <2>2. CASE ~(conn.started /\ ~ctl.stopRequested)
    <3>1. ~Running'
      BY <1>3, <2>2 DEF OwnerClose, Running
    <3> QED
      BY <1>3, <2>2, <3>1, StoppedKeeps DEF OwnerClose, Counted
  <2> QED
    BY <2>1, <2>2
<1> QED
  BY <1>1, <1>2, <1>3

LEMMA ThreadCallsAttempts ==
  ASSUME TypeOK, QuietInv, AttemptsInv,
         \/ ThreadReconnect \/ ThreadCloseGate \/ ThreadCloseCancel
         \/ \E loc \in Locators \cup {Same} : ThreadRetry(loc)
         \/ \E close \in BOOLEAN : ThreadStop(close)
  PROVE  AttemptsInv'
<1>0. /\ UNCHANGED <<conn, op, timer, late, frame>>
      /\ queue \in Seq(Tasks) /\ chan \in Channels /\ ctl \in Atomics
  BY DEF TypeOK, ThreadReconnect, ThreadCloseGate, ThreadCloseCancel, ThreadRetry,
         ThreadStop, ThreadCalls
<1>1. ASSUME NEW x \in Tasks, ~Live(x), queue' = Append(queue, x), chan' = chan,
             ctl'.stopRequested = ctl.stopRequested, hist'.streak = hist.streak
      PROVE  AttemptsInv'
  <2>1. NoLive(queue) => NoLive(queue')
    BY <1>0, <1>1, AppendLive
  <2> QED
    BY <1>0, <1>1, <2>1, RestKeeps DEF Counted, Following, LiveOp, LiveTimer, Running
<1>2. ASSUME NEW loc \in Locators \cup {Same}, ThreadRetry(loc) PROVE AttemptsInv'
  <2> DEFINE e == ctl.requestedEpoch + 1
             x == [Task("retry") EXCEPT !.epoch = e, !.locator = loc]
  <2>1. /\ UNCHANGED chan
        /\ \/ /\ ctl' = [ctl EXCEPT !.requestedEpoch = e] /\ queue' = Append(queue, x)
              /\ hist' = Wanting(loc)
           \/ /\ ctl' = [requestedEpoch |-> e, stopRequested |-> TRUE, gate |-> FALSE]
              /\ UNCHANGED hist
    BY <1>2 DEF ThreadRetry
  <2>2. e \in Nat /\ [ctl EXCEPT !.requestedEpoch = e].stopRequested = ctl.stopRequested
    BY <1>0 DEF Atomics
  <2> HIDE DEF e
  <2>3. x \in Tasks /\ ~Live(x)
    BY <2>2 DEF Task, Tasks, Live
  <2> HIDE DEF x
  <2>4. Wanting(loc).streak = hist.streak
    BY NumbersTyped DEF Wanting
  <2>5. CASE /\ ctl' = [ctl EXCEPT !.requestedEpoch = e] /\ queue' = Append(queue, x)
             /\ hist' = Wanting(loc)
    BY <1>1, <2>1, <2>2, <2>3, <2>4, <2>5
  <2>6. CASE ctl'.stopRequested /\ UNCHANGED hist
    BY <1>0, <2>6, StoppedKeeps DEF Counted, Running
  <2> QED
    BY <2>1, <2>5, <2>6
<1>3. ASSUME NEW close \in BOOLEAN, ThreadStop(close) PROVE AttemptsInv'
  <2>1. ctl'.stopRequested /\ UNCHANGED hist
    BY <1>0, <1>3 DEF ThreadStop, StopFromThread, Atomics
  <2> QED
    BY <1>0, <2>1, StoppedKeeps DEF Counted, Running
<1>4. CASE ThreadReconnect
  <2>1. UNCHANGED <<chan, ctl, hist>> /\ queue' = Append(queue, Task("reconnect"))
    BY <1>4 DEF ThreadReconnect
  <2>2. Task("reconnect") \in Tasks /\ ~Live(Task("reconnect"))
    BY DEF Task, Tasks, Live
  <2> QED
    BY <1>1, <2>1, <2>2
<1>5. CASE ThreadCloseGate
  <2>1. chan'.closing /\ UNCHANGED hist
    BY <1>0, <1>5 DEF ThreadCloseGate, Channels
  <2> QED
    BY <1>0, <2>1, StoppedKeeps DEF Counted, Running
<1>6. CASE ThreadCloseCancel
  <2>1. ~Running' /\ UNCHANGED hist
    BY <1>6, CloseFields DEF ThreadCloseCancel, QuietInv, ClosedForGood, Running
  <2> QED
    BY <1>0, <2>1, StoppedKeeps DEF Counted
<1> QED
  BY <1>2, <1>3, <1>4, <1>5, <1>6

LEMMA RunTaskAttempts ==
  ASSUME TypeOK, QuietInv, AttemptsInv, RunTask, Head(queue).kind # "schedFail"
  PROVE  AttemptsInv'
<1> DEFINE x == Head(queue)
           q == Tail(queue)
<1>1. queue # <<>> /\ queue \in Seq(Tasks) /\ ctl \in Atomics
  BY DEF RunTask, TypeOK
<1>2. x \in Tasks /\ (NoLive(queue) => NoLive(q))
  BY <1>1, TailLive
<1>3. CASE x.kind = "retry"
  <2>1. retryOwner(x.epoch, x.locator, ctl, q, hist)
    BY <1>3 DEF RunTask
  <2> HIDE DEF x, q
  <2> QED
    BY <1>1, <1>2, <2>1, RetryAttempts, NumbersTyped
<1>4. CASE x.kind = "stop"
  <2>1. stopOwner(x.close, ctl, conn, q) /\ UNCHANGED hist
    BY <1>4 DEF RunTask
  <2> HIDE DEF x, q
  <2> QED
    BY <1>1, <2>1, StopAttempts
<1>5. CASE x.kind = "close"
  <2>1. chan' = closeOwner(chan) /\ UNCHANGED <<conn, hist>>
    BY <1>5 DEF RunTask
  <2> QED
    BY <2>1, CloseFields, StoppedKeeps DEF Counted, Running
<1>6. CASE x.kind = "reconnect"
  <2>1. CASE queue' = q /\ UNCHANGED <<chan, ctl, conn, op, timer, late, frame, hist>>
    BY <1>2, <2>1, RestKeeps DEF Counted, Following, LiveOp, LiveTimer, Running
  <2>2. CASE requestRetryOwner(Same, q, hist)
    <3> HIDE DEF q
    <3> QED
      BY <1>2, <2>2, RequestRetryAttempts, NumbersTyped
  <2> QED
    BY <1>6, <2>1, <2>2 DEF RunTask
<1> QED
  <2>1. x.kind \in {"retry", "stop", "close", "reconnect"}
    BY <1>2 DEF Tasks
  <2> HIDE DEF x
  <2> QED
    BY <2>1, <1>3, <1>4, <1>5, <1>6

-----------------------------------------------------------------------------
(* Handlers                                                                *)

\* A handler that ends there, with what was current no more current than it was.
Faded ==
  /\ UNCHANGED <<chan, ctl, conn, hist>> /\ frame'.at = "idle"
  /\ op' \in {op, NoOp}
  /\ timer' \in {timer, NoTimer, RequestBumped(timer)}
  /\ NoLive(queue) => NoLive(queue')

LEMMA FadedKeeps == ASSUME TypeOK, AttemptsInv, Faded PROVE AttemptsInv'
<1>1. ~RequestBumped(timer).r /\ ~NoTimer.r
  BY DEF RequestBumped, NoTimer, TypeOK, Timers
<1>2. (LiveOp' => LiveOp) /\ (LiveTimer' => LiveTimer) /\ (Following' => Following)
  BY <1>1, NoOpIdle DEF Faded, LiveOp, LiveTimer, Following
<1>3. Counted /\ (Running' => Running)
  BY DEF Faded, Counted, Running
<1> QED
  BY <1>2, <1>3, RestKeeps DEF Faded

\* Whatever a handler was at when a stop or a retry overtook it, it counts nothing.
LEMMA OvertakenFades ==
  ASSUME TypeOK, Handler, ~InEpoch \/ ~ctl.gate \/ ctl.stopRequested \/ conn.stopped
  PROVE  Faded
<1>0. queue \in Seq(Tasks) /\ UNCHANGED ctl
  BY DEF TypeOK, Handler, StartResolve, RunTask, Answer, StreamEvents, Continue, Fire,
         normalizeExplicitRetry, AnswerDropped, ResolvedOffline, ResolvedLive,
         ResolvedInvalid, ResolveFailed, CatalogAnswered, StreamOffline, StreamEnded,
         StreamFailed, Abandon, Finish, ContinueNormBackoff, ContinueNormUnresolved,
         ContinueInterrupt, ContinueUnresolved, ContinueMetadata, ContinueConnecting,
         ContinueCleared, ContinueCatalog, ContinueOpening, ContinueConnected,
         ContinuePublished, ContinueBackoff, ContinueFailStage
<1>1. /\ \A l, r : ~current(l, r)
      /\ \A tm : ~currentTimer(tm)
      /\ \A kind : ~Answered(kind)
      /\ \A at : ~StillCurrent(at) /\ ~Published(at)
  BY DEF current, currentTimer, Answered, StillCurrent, Published, InEpoch
<1>2. NoLive(BumpedQueue(queue))
  BY <1>0, AgedLive
<1>3. CASE StartResolve
  <2>1. Done /\ Keep(timer, queue) /\ UNCHANGED <<conn, op, hist>>
    BY <1>3 DEF StartResolve, InEpoch, beginResolve, mayBegin
  <2> QED
    BY <1>0, <2>1, DoneIdle DEF Faded, Keep
<1>4. CASE RunTask /\ Head(queue).kind = "schedFail"
  <2>1. /\ Done /\ Keep(timer, Tail(queue)) /\ UNCHANGED <<conn, op, hist>>
        /\ queue # <<>>
    BY <1>1, <1>4 DEF RunTask, normalizeExplicitRetry
  <2>2. NoLive(queue) => NoLive(Tail(queue))
    BY <1>0, <2>1, TailLive
  <2> QED
    BY <1>0, <2>1, <2>2, DoneIdle DEF Faded, Keep
<1>5. CASE Answer \/ \E batch \in Batches : StreamEvents(batch)
  <2>1. AnswerDropped
    BY <1>1, <1>5
       DEF Answer, ResolvedOffline, ResolvedLive, ResolvedInvalid, ResolveFailed,
           CatalogAnswered, StreamOffline, StreamEnded, StreamFailed, StreamEvents
  <2> QED
    BY <2>1 DEF AnswerDropped, Faded, OwnerFree, Idle
<1>6. CASE Continue /\ ~SignalsDone
  <2>1. Abandon \/ Finish \/ ContinueCleared
    BY <1>1, <1>6
       DEF Continue, ContinueNormBackoff, ContinueNormUnresolved,
           ContinueInterrupt, ContinueUnresolved, ContinueMetadata, ContinueConnecting,
           ContinueCatalog, ContinueOpening, ContinueConnected, ContinuePublished,
           ContinueBackoff, ContinueFailStage
  <2>2. /\ UNCHANGED <<chan, conn, hist, op>> /\ frame' = Idle
        /\ \/ UNCHANGED <<timer, queue>>
           \/ timer' = RequestBumped(timer) /\ queue' = BumpedQueue(queue)
    BY <1>1, <2>1 DEF Abandon, Finish, ContinueCleared, BumpRequest, Done
  <2> QED
    BY <1>0, <1>2, <2>2 DEF Faded, Idle
<1>7. CASE \E tm \in {timer} \cup late : Fire(tm)
  <2>1. /\ Done /\ UNCHANGED <<conn, op, hist, queue>> /\ timer' \in {timer, NoTimer}
    BY <1>1, <1>7 DEF Fire
  <2> QED
    BY <1>0, <2>1, DoneIdle DEF Faded
<1> QED
  BY <1>3, <1>4, <1>5, <1>6, <1>7 DEF Handler

\* What is current is neither at the maximum, nor beside a stream that is joined.
LEMMA CurrentUnspent ==
  ASSUME Busy, AttemptsInv
  PROVE  /\ LiveTimer \/ ~NoLive(queue) => Unspent
         /\ LiveOp => conn.failures # MaxFailures /\ conn.ends # MaxFailures
         /\ conn.connectedAt => Joined
         /\ frame.at \notin {"idle", "connected", "published", "failStage", "failed"}
              => Unspent
         /\ Following => conn.connectedAt
         /\ Tried
<1>1. Placed /\ Tried
  BY DEF AttemptsInv, Busy, Here
<1> QED
  BY <1>1 DEF Placed, Unspent, Joined, Spent, Nothing

\* A handler that changes neither the counts nor the request, where none is spent.
LEMMA UnspentHandler ==
  ASSUME Busy, AttemptsInv, Handler, Unspent, Counted, Following' => Following
  PROVE  AttemptsInv'
  BY UnspentKeeps DEF Busy, Here

\* One more failure: at the maximum nothing but the failure is left.
LEMMA FailKeeps ==
  ASSUME Tried', op' = NoOp, UNCHANGED <<timer, queue>>, ~LiveTimer, NoLive(queue),
         ~conn'.connectedAt, conn'.started,
         conn'.failures = MaxFailures \/ conn'.ends = MaxFailures =>
           frame'.at \in {"failStage", "failed"}
  PROVE  AttemptsInv'
<1>1. ~LiveOp' /\ ~LiveTimer' /\ NoLive(queue')
  BY NoOpIdle DEF LiveOp, LiveTimer, NoLive
<1> QED
  BY <1>1 DEF AttemptsInv, Placed, Spent, Nothing, Following

LEMMA FailureShown ==
  ASSUME NEW n \in Nat, NEW retryable, NEW target, handleFailure(n, retryable, target),
         n + 1 >= MaxFailures
  PROVE  frame'.at \in {"failStage", "failed"}
<1>1. ~(n + 1 < MaxFailures)
  BY ConnectionAssumption
<1>2. failInternal(n + 1)
  BY <1>1 DEF handleFailure
<1>3. ASSUME NEW at, NEW s, NEW m, NEW then, NEW rest, PublishLifecycle(at, s, m, then, rest)
      PROVE  frame'.at = at
  BY <1>3 DEF PublishLifecycle
<1>4. ASSUME NEW m, publishFailed(m) PROVE frame'.at \in {"failStage", "failed"}
  BY <1>3, <1>4 DEF publishFailed
<1> QED
  BY <1>2, <1>4 DEF failInternal

LEMMA OneMoreFailure ==
  ASSUME Busy, Tried, conn.failures # MaxFailures, conn.ends # MaxFailures,
         conn'.failures = conn.failures + 1, hist'.streak = hist.streak + 1,
         conn'.started = conn.started, ~conn'.connectedAt,
         \/ conn'.ends = conn.ends
         \/ conn'.ends = 0 /\ conn.failures = 0 /\ hist.streak = 0,
         op' = NoOp, UNCHANGED <<timer, queue>>, ~LiveTimer, NoLive(queue),
         NEW retryable, NEW target, handleFailure(conn.failures, retryable, target)
  PROVE  AttemptsInv'
<1>1. /\ conn.failures \in Nat /\ conn.ends \in Nat /\ hist.streak \in Nat
      /\ MaxFailures \in Nat \ {0} /\ conn'.started
  BY NumbersTyped, ConnectionAssumption DEF Busy, Here, Running
<1>2. Tried'
  <2>0. conn.failures <= MaxFailures /\ conn.ends <= MaxFailures
    BY DEF Tried
  <2>1. conn'.failures <= MaxFailures /\ conn'.ends <= MaxFailures
    BY <1>1, <2>0
  <2>2. CASE conn'.ends = conn.ends
    <3> DEFINE x == conn.ends * conn.ends
               y == conn.ends * MaxFailures
    <3>1. x \in Nat /\ y \in Nat /\ 2 * hist.streak + x + conn.ends <= 2 * conn.failures + 2 * y
      BY <1>1 DEF Tried
    <3>2. conn'.ends * conn'.ends = x /\ conn'.ends * MaxFailures = y
      BY <2>2
    <3> HIDE DEF x, y
    <3>3. 2 * hist'.streak + x + conn'.ends <= 2 * conn'.failures + 2 * y
      BY <1>1, <2>2, <3>1
    <3> QED
      BY <2>1, <3>2, <3>3 DEF Tried
  <2>3. CASE conn'.ends = 0 /\ conn.failures = 0 /\ hist.streak = 0
    BY <1>1, <2>1, <2>3 DEF Tried
  <2> QED
    BY <2>2, <2>3
<1>3. conn'.ends # MaxFailures
  BY <1>1
<1>4. conn'.failures = MaxFailures => frame'.at \in {"failStage", "failed"}
  BY <1>1, FailureShown
<1> QED
  BY <1>1, <1>2, <1>3, <1>4, FailKeeps

\* Handlers that begin a resolution or a catalog request.
LEMMA BeginAttempts ==
  ASSUME QuietInv, Busy, AttemptsInv, Handler,
         \/ StartResolve
         \/ RunTask /\ Head(queue).kind = "schedFail"
         \/ \E tm \in {timer} \cup late : Fire(tm)
  PROVE  AttemptsInv'
<1>0. TypeOK /\ queue \in Seq(Tasks) /\ UNCHANGED <<conn, op, hist>>
  BY DEF Busy, TypeOK, StartResolve, RunTask, Fire
<1>1. Counted /\ (Following' => Following)
  BY <1>0 DEF Counted, Following, LiveOp
<1>2. UNCHANGED ctl
  BY HandlerLeaves, <1>0 DEF Keeps
<1>3. CASE StartResolve
  <2>1. Unspent
    BY <1>3, CurrentUnspent DEF StartResolve
  <2> QED
    BY <1>1, <2>1, UnspentHandler
<1>4. CASE RunTask /\ Head(queue).kind = "schedFail"
  <2> DEFINE x == Head(queue)
  <2>1. normalizeExplicitRetry(x.l, x.r, "fail", timer, Tail(queue)) /\ queue # <<>>
    BY <1>4 DEF RunTask
  <2>2. CASE current(x.l, x.r)
    <3>1. ~NoLive(queue)
      BY <1>0, <1>4, <2>1, <2>2, TailLive DEF current, Live
    <3> QED
      BY <1>1, <3>1, CurrentUnspent, UnspentHandler
  <2>3. CASE ~current(x.l, x.r)
    <3>1. Done /\ Keep(timer, Tail(queue))
      BY <2>1, <2>3 DEF normalizeExplicitRetry
    <3>2. NoLive(queue) => NoLive(Tail(queue))
      BY <1>0, <2>1, TailLive
    <3>3. Faded
      BY <1>0, <1>2, <3>1, <3>2, DoneIdle DEF Faded, Keep
    <3> QED
      BY <1>0, <3>3, FadedKeeps
  <2> QED
    BY <2>2, <2>3
<1>5. ASSUME NEW tm \in {timer} \cup late, Fire(tm) PROVE AttemptsInv'
  <2>1. CASE currentTimer(tm)
    <3>1. LiveTimer
      BY <1>5, <2>1 DEF currentTimer, current, Busy, LateInert, LiveTimer
    <3> QED
      BY <1>1, <3>1, CurrentUnspent, UnspentHandler
  <2>2. CASE ~currentTimer(tm)
    <3>1. Done /\ UNCHANGED queue /\ timer' \in {timer, NoTimer}
      BY <1>5, <2>2 DEF Fire
    <3>2. Faded
      BY <1>0, <1>2, <3>1, DoneIdle DEF Faded
    <3> QED
      BY <1>0, <3>2, FadedKeeps
  <2> QED
    BY <2>1, <2>2
<1> QED
  BY <1>3, <1>4, <1>5

\* The answers to a resolution and to the request of a catalog.
LEMMA ResolveAttempts ==
  ASSUME QuietInv, Busy, AttemptsInv, Handler,
         \/ ResolvedOffline \/ ResolvedLive \/ ResolvedInvalid \/ CatalogAnswered
         \/ \E retryable \in BOOLEAN : ResolveFailed(retryable)
  PROVE  AttemptsInv'
<1>0. TypeOK /\ op' = NoOp /\ ~Following'
  BY NoOpIdle DEF Busy, ResolvedOffline, ResolvedLive, ResolvedInvalid, CatalogAnswered,
                  ResolveFailed, Following, LiveOp
<1>1. PICK kind \in {"resolve", "catalog"} : Answered(kind)
  BY DEF ResolvedOffline, ResolvedLive, ResolvedInvalid, CatalogAnswered, ResolveFailed
<1>2. LiveOp /\ op.kind = kind /\ ~LiveTimer /\ NoLive(queue) /\ OpFits
  BY <1>1, AnsweredFacts DEF Busy
<1>3. chan.state # "Connected"
  BY <1>2 DEF OpFits, Waiting
<1>4. Unspent /\ Tried
  BY <1>2, <1>3, CurrentUnspent DEF Unspent, Joined
<1>5. CASE ResolvedOffline
  <2>1. /\ conn' = [conn EXCEPT !.failures = 0, !.ends = 0, !.connectedAt = FALSE,
                                !.hasStream = FALSE]
        /\ hist' = [hist EXCEPT !.streak = 0]
    BY <1>5 DEF ResolvedOffline
  <2>2. conn'.failures = 0 /\ conn'.ends = 0 /\ ~conn'.connectedAt /\ hist'.streak = 0
    BY <1>0, <2>1, NumbersTyped DEF Connections
  <2> QED
    BY <1>0, <2>2, ResetKeeps
<1>6. CASE ResolvedLive \/ ResolvedInvalid \/ CatalogAnswered
  <2>1. /\ hist' = hist
        /\ conn' = conn \/ conn' = [conn EXCEPT !.hasStream = TRUE]
    BY <1>6 DEF ResolvedLive, ResolvedInvalid, CatalogAnswered
  <2>2. Counted
    BY <1>0, <2>1, NumbersTyped DEF Counted, Connections
  <2> QED
    BY <1>0, <1>4, <2>2, UnspentHandler
<1>7. ASSUME NEW retryable \in BOOLEAN, ResolveFailed(retryable) PROVE AttemptsInv'
  <2>1. /\ conn' = [conn EXCEPT !.failures = @ + 1]
        /\ hist' = [hist EXCEPT !.streak = @ + 1]
        /\ handleFailure(conn.failures, retryable, "resolve") /\ UNCHANGED <<timer, queue>>
    BY <1>7 DEF ResolveFailed, Fail
  <2>2. /\ conn'.failures = conn.failures + 1 /\ hist'.streak = hist.streak + 1
        /\ conn'.ends = conn.ends /\ conn'.started = conn.started
        /\ conn'.connectedAt = conn.connectedAt
    BY <1>0, <2>1, NumbersTyped DEF Connections
  <2> QED
    BY <1>0, <1>2, <1>4, <2>1, <2>2, OneMoreFailure DEF Unspent
<1> QED
  BY <1>5, <1>6, <1>7

-----------------------------------------------------------------------------
(* The stream                                                              *)

\* An init joins the stream, and a failure before it counts.
LEMMA EventsAttempts ==
  ASSUME Busy, AttemptsInv, NEW batch, processEvents(batch), UNCHANGED <<ctl, timer, queue>>,
         LiveOp, ~LiveTimer, NoLive(queue), op.kind = "stream",
         ~conn.seenInit => chan.state = "Connecting",
         conn.failures # MaxFailures, conn.ends # MaxFailures
  PROVE  AttemptsInv'
<1>0. /\ TypeOK /\ ~chan.closing /\ conn.started /\ MaxFailures \in Nat \ {0}
      /\ conn \in Connections /\ hist \in [streak : Nat, wanted : Locators]
      /\ conn.failures \in Nat /\ conn.ends \in Nat /\ hist.streak \in Nat
  BY NumbersTyped, ConnectionAssumption DEF Busy, Here, Running
<1>1. Tried /\ (conn.connectedAt => Joined) /\ (conn.seenInit => conn.connectedAt)
  BY CurrentUnspent DEF Following
<1>a. conn.failures <= MaxFailures /\ conn.ends <= MaxFailures
  BY <1>1 DEF Tried
<1>2. CASE batch = <<>>
  <2>1. Done /\ UNCHANGED <<conn, op, hist>>
    BY <1>2 DEF processEvents
  <2>2. Faded
    BY <2>1, DoneIdle DEF Faded, NoLive
  <2> QED
    BY <1>0, <2>2, FadedKeeps
<1>3. CASE batch # <<>> /\ Head(batch) = "init" /\ ~conn.seenInit
  <2>1. /\ conn' = [conn EXCEPT !.seenInit = TRUE, !.failures = 0, !.connectedAt = TRUE]
        /\ hist' = [hist EXCEPT !.streak = 0]
        /\ PublishLifecycle("connected", "Connected", Clean, "none", batch)
    BY <1>3 DEF processEvents
  <2>2. /\ conn'.seenInit /\ conn'.failures = 0 /\ conn'.connectedAt
        /\ conn'.ends = conn.ends /\ conn'.started /\ hist'.streak = 0
    BY <1>0, <2>1 DEF Connections
  <2>3. chan'.state = "Connected" /\ frame'.at = "connected"
    BY <1>0, <1>3, <2>1, Allowed, PublishGoes
  <2>4. ~LiveTimer' /\ NoLive(queue')
    BY DEF LiveTimer, NoLive
  <2>5. Joined'
    BY <2>2, <2>3, <2>4 DEF Joined
  <2>6. conn.ends * conn.ends + conn.ends <= 2 * (conn.ends * MaxFailures)
    BY <1>0, <1>a, NoneInARow
  <2>7. Tried'
    <3> DEFINE x == conn.ends * conn.ends
               y == conn.ends * MaxFailures
    <3>1. x \in Nat /\ y \in Nat /\ x + conn.ends <= 2 * y
      BY <1>0, <2>6
    <3>2. conn'.ends * conn'.ends = x /\ conn'.ends * MaxFailures = y
      BY <2>2
    <3> HIDE DEF x, y
    <3>3. 2 * hist'.streak + x + conn'.ends <= 2 * conn'.failures + 2 * y
      BY <1>0, <2>2, <3>1
    <3>4. conn'.failures <= MaxFailures /\ conn'.ends <= MaxFailures
      BY <1>0, <1>a, <2>2
    <3> QED
      BY <3>2, <3>3, <3>4 DEF Tried
  <2>8. conn'.failures # MaxFailures /\ conn'.ends # MaxFailures
    BY <1>0, <2>2
  <2> QED
    BY <2>2, <2>5, <2>7, <2>8 DEF AttemptsInv, Placed
<1>4. CASE batch # <<>> /\ conn.seenInit
  <2>1. /\ hist' = hist /\ op' = op
        /\ conn' = conn \/ conn' = [conn EXCEPT !.ends = 0]
        /\ PublishData("published", Tail(batch))
    BY <1>4 DEF processEvents
  <2>2. /\ conn'.seenInit /\ conn'.failures = conn.failures
        /\ conn'.connectedAt = conn.connectedAt
        /\ conn'.ends \in {conn.ends, 0} /\ conn'.started
        /\ hist'.streak = hist.streak
    BY <1>0, <1>4, <2>1 DEF Connections
  <2>3. chan' = chan /\ frame'.at = "published" /\ ~LiveTimer' /\ NoLive(queue')
    BY <2>1, DataGoes DEF LiveTimer, NoLive
  <2>4. Joined /\ Joined' /\ conn'.connectedAt
    BY <1>1, <1>4, <2>2, <2>3 DEF Joined
  <2>5. Tried'
    <3>1. CASE conn'.ends = conn.ends
      BY <1>1, <2>2, <3>1 DEF Tried
    <3>2. CASE conn'.ends = 0
      <4>1. conn'.failures = 0 /\ hist'.streak = 0
        BY <2>2, <2>4 DEF Joined
      <4> QED
        BY <1>0, <3>2, <4>1 DEF Tried
    <3> QED
      BY <2>2, <3>1, <3>2
  <2>6. conn'.failures # MaxFailures /\ conn'.ends # MaxFailures
    BY <1>0, <2>2
  <2> QED
    BY <2>2, <2>4, <2>5, <2>6 DEF AttemptsInv, Placed
<1>5. CASE batch # <<>> /\ Head(batch) # "init" /\ ~conn.seenInit
  <2>1. /\ op' = NoOp
        /\ conn' = [conn EXCEPT !.failures = @ + 1]
        /\ hist' = [hist EXCEPT !.streak = @ + 1]
        /\ handleFailure(conn.failures, FALSE, "stream")
    BY <1>5 DEF processEvents, Fail
  <2>2. /\ conn'.failures = conn.failures + 1 /\ hist'.streak = hist.streak + 1
        /\ conn'.ends = conn.ends /\ conn'.started = conn.started
        /\ conn'.connectedAt = conn.connectedAt
    BY <1>0, <2>1 DEF Connections
  <2>3. ~conn.connectedAt
    BY <1>1, <1>5 DEF Joined
  <2> QED
    BY <1>1, <2>1, <2>2, <2>3, OneMoreFailure
<1> QED
  BY <1>2, <1>3, <1>4, <1>5

\* A stream that ends makes the failures those of the streams that ended.
LEMMA EndedAttempts ==
  ASSUME Busy, AttemptsInv, NEW stable \in BOOLEAN, StreamEnded(stable),
         ~LiveTimer, NoLive(queue), conn.failures # MaxFailures, conn.ends # MaxFailures
  PROVE  AttemptsInv'
<1> DEFINE e == endsBefore(stable)
<1>0. /\ TypeOK /\ conn.started /\ MaxFailures \in Nat \ {0}
      /\ conn \in Connections /\ hist \in [streak : Nat, wanted : Locators]
      /\ conn.failures \in Nat /\ conn.ends \in Nat /\ hist.streak \in Nat
  BY NumbersTyped, ConnectionAssumption DEF Busy, Here, Running
<1>1. Tried /\ (conn.connectedAt => Joined)
  BY CurrentUnspent
<1>2. conn.failures + 1 <= MaxFailures /\ conn.ends + 1 <= MaxFailures
  <2>1. conn.failures <= MaxFailures /\ conn.ends <= MaxFailures
    BY <1>1 DEF Tried
  <2> QED
    BY <1>0, <2>1
<1>3. e \in Nat /\ e + 1 <= MaxFailures
  BY <1>0, <1>2 DEF endsBefore
<1>4. /\ op' = NoOp /\ (stable => conn.connectedAt)
      /\ conn' = [conn EXCEPT !.ends = e + 1, !.failures = e + 1, !.connectedAt = FALSE]
      /\ hist' = [hist EXCEPT !.streak = @ + 1]
      /\ handleFailure(e, TRUE, "resolve") /\ UNCHANGED <<timer, queue>>
  BY DEF StreamEnded, Fail
<1>c. (~stable => e = conn.ends) /\ (stable => e = 0)
  BY DEF endsBefore
<1> HIDE DEF e
<1>5. /\ conn'.ends = e + 1 /\ conn'.failures = e + 1 /\ ~conn'.connectedAt
      /\ conn'.started /\ hist'.streak = hist.streak + 1
  BY <1>0, <1>4 DEF Connections
<1>6. 2 * (hist.streak + 1) + (e + 1) * (e + 1) + (e + 1)
        <= 2 * (e + 1) + 2 * ((e + 1) * MaxFailures)
  <2>1. CASE ~stable
    <3>1. e = conn.ends
      BY <1>c, <2>1
    <3>2. 2 * hist.streak + e * e + e <= 2 * conn.failures + 2 * (e * MaxFailures)
      BY <1>1, <3>1 DEF Tried
    <3> QED
      BY <1>0, <1>2, <1>3, <3>2, OneMoreEnd
  <2>2. CASE stable
    <3>1. e = 0 /\ hist.streak = 0
      BY <1>1, <1>4, <1>c, <2>2 DEF Joined
    <3> QED
      BY <1>0, <3>1
  <2> QED
    BY <2>1, <2>2
<1>7. Tried'
  <2>1. (e + 1) * (e + 1) = conn'.ends * conn'.ends
    BY <1>5
  <2>2. (e + 1) * MaxFailures = conn'.ends * MaxFailures
    BY <1>5
  <2> QED
    BY <1>3, <1>5, <1>6, <2>1, <2>2 DEF Tried
<1>8. e + 1 = MaxFailures => frame'.at \in {"failStage", "failed"}
  BY <1>0, <1>3, <1>4, FailureShown
<1> QED
  BY <1>4, <1>5, <1>7, <1>8, FailKeeps

LEMMA StreamAttempts ==
  ASSUME QuietInv, Busy, AttemptsInv,
         \/ StreamOffline \/ \E batch \in Batches : StreamEvents(batch)
         \/ \E stable \in BOOLEAN : StreamEnded(stable)
         \/ \E stable, retryable \in BOOLEAN : StreamFailed(retryable, stable)
  PROVE  AttemptsInv'
<1>0. TypeOK /\ conn \in Connections /\ hist \in [streak : Nat, wanted : Locators]
  BY NumbersTyped DEF Busy
<1>1. Answered("stream")
  BY DEF StreamOffline, StreamEvents, StreamEnded, StreamFailed
<1>2. LiveOp /\ op.kind = "stream" /\ ~LiveTimer /\ NoLive(queue) /\ OpFits
  BY <1>1, AnsweredFacts DEF Busy
<1>3. /\ conn.failures # MaxFailures /\ conn.ends # MaxFailures
      /\ Tried /\ (conn.connectedAt => Joined)
  BY <1>2, CurrentUnspent
<1>4. CASE StreamOffline
  <2>1. /\ conn' = [conn EXCEPT !.failures = 0, !.ends = 0, !.connectedAt = FALSE]
        /\ hist' = [hist EXCEPT !.streak = 0] /\ op' = NoOp
    BY <1>4 DEF StreamOffline
  <2>2. conn'.failures = 0 /\ conn'.ends = 0 /\ ~conn'.connectedAt /\ hist'.streak = 0
    BY <1>0, <2>1 DEF Connections
  <2>3. ~Following'
    BY <2>1, NoOpIdle DEF Following, LiveOp
  <2> QED
    BY <2>2, <2>3, ResetKeeps
<1>5. ASSUME NEW batch \in Batches, StreamEvents(batch) PROVE AttemptsInv'
  <2>1. processEvents(batch) /\ UNCHANGED <<ctl, timer, queue>>
    BY <1>5 DEF StreamEvents
  <2>2. ~conn.seenInit => chan.state = "Connecting"
    BY <1>2 DEF OpFits
  <2> QED
    BY <1>2, <1>3, <2>1, <2>2, EventsAttempts
<1>6. ASSUME NEW stable \in BOOLEAN, StreamEnded(stable) PROVE AttemptsInv'
  BY <1>2, <1>3, <1>6, EndedAttempts
<1>7. ASSUME NEW stable \in BOOLEAN, NEW retryable \in BOOLEAN,
             StreamFailed(retryable, stable)
      PROVE  AttemptsInv'
  <2>1. /\ op' = NoOp /\ (stable => conn.connectedAt)
        /\ conn' = [conn EXCEPT !.ends = endsBefore(stable), !.failures = @ + 1,
                                !.connectedAt = FALSE]
        /\ hist' = [hist EXCEPT !.streak = @ + 1]
        /\ handleFailure(conn.failures, retryable, "stream") /\ UNCHANGED <<timer, queue>>
    BY <1>7 DEF StreamFailed, Fail
  <2>2. /\ conn'.failures = conn.failures + 1 /\ hist'.streak = hist.streak + 1
        /\ conn'.ends = endsBefore(stable) /\ conn'.started = conn.started
        /\ ~conn'.connectedAt
    BY <1>0, <2>1 DEF Connections
  <2>3. \/ conn'.ends = conn.ends
        \/ conn'.ends = 0 /\ conn.failures = 0 /\ hist.streak = 0
    BY <1>3, <2>1, <2>2 DEF endsBefore, Joined
  <2> QED
    BY <1>2, <1>3, <2>1, <2>2, <2>3, OneMoreFailure
<1> QED
  BY <1>4, <1>5, <1>6, <1>7

-----------------------------------------------------------------------------
(* Every step                                                              *)

\* Only what is joined goes on where it was; all else begins, or is at its end.
LEMMA ContinueAttempts ==
  ASSUME QuietInv, Busy, AttemptsInv, Handler, Continue, ~SignalsDone
  PROVE  AttemptsInv'
<1>0. /\ TypeOK /\ Activity /\ UNCHANGED ctl
      /\ conn \in Connections /\ hist \in [streak : Nat, wanted : Locators]
  BY NumbersTyped, HandlerLeaves DEF Busy, Keeps
<1>1. CASE Abandon \/ Finish
  <2>1. /\ UNCHANGED <<chan, conn, op, queue, hist>> /\ frame'.at = "idle"
        /\ timer' \in {timer, NoTimer}
    BY <1>1 DEF Abandon, Finish, Idle
  <2>2. Faded
    BY <1>0, <2>1 DEF Faded, NoLive
  <2> QED
    BY <1>0, <2>2, FadedKeeps
<1>2. CASE ContinueConnected
  <2>1. /\ UNCHANGED <<ctl, conn, op, timer, queue, hist>> /\ frame.at = "connected"
        /\ PublishData("published", Tail(frame.rest))
    BY <1>2 DEF ContinueConnected, Published, StillCurrent, Suspended
  <2>2. chan' = chan /\ frame'.at = "published"
    BY <2>1, DataGoes
  <2>3. (Joined => Joined') /\ ~Spent
    BY <2>1, <2>2 DEF Joined, Spent, LiveTimer, NoLive
  <2>4. Placed => Placed'
    BY <2>1, <2>3 DEF Placed, Following, LiveOp
  <2> QED
    BY <2>1, <2>4 DEF AttemptsInv, Tried, Busy, Here, Running, Unspent
<1>3. CASE ContinuePublished
  <2>1. StillCurrent("published") /\ processEvents(frame.rest)
        /\ UNCHANGED <<ctl, timer, queue>>
    BY <1>3 DEF ContinuePublished
  <2>2. "published" \in PublishedAt \cup CheckedAt
    BY DEF CheckedAt
  <2>3. frame.at = "published" /\ Installed
    BY <1>0, <2>1, <2>2, Resumed
  <2>4. LiveOp /\ ~LiveTimer /\ NoLive(queue) /\ op.kind = "stream" /\ conn.seenInit
    BY <2>3 DEF Installed, Streaming
  <2>5. conn.failures # MaxFailures /\ conn.ends # MaxFailures
    BY <2>4, CurrentUnspent
  <2> QED
    BY <2>1, <2>4, <2>5, EventsAttempts
<1>4. CASE ContinueFailStage
  <2>1. /\ UNCHANGED <<ctl, conn, op, timer, queue, hist>> /\ frame.at = "failStage"
        /\ frame'.at = "failed"
    BY <1>4 DEF ContinueFailStage, Published, StillCurrent, Suspended, PublishLifecycle
  <2>2. (Spent => Spent') /\ ~Joined
    BY <2>1 DEF Spent, Joined, Nothing, LiveOp, LiveTimer, NoLive
  <2>3. Placed => Placed'
    BY <2>1, <2>2 DEF Placed, Following, LiveOp
  <2> QED
    BY <2>1, <2>3 DEF AttemptsInv, Tried, Busy, Here, Running, Unspent
<1>5. CASE \/ ContinueNormBackoff \/ ContinueNormUnresolved \/ ContinueInterrupt
           \/ ContinueUnresolved \/ ContinueMetadata \/ ContinueConnecting
           \/ ContinueCleared \/ ContinueCatalog \/ ContinueOpening \/ ContinueBackoff
  <2>1. frame.at \notin {"idle", "connected", "published", "failStage", "failed"}
    BY <1>5
       DEF ContinueNormBackoff, ContinueNormUnresolved, ContinueInterrupt,
           ContinueUnresolved, ContinueMetadata, ContinueConnecting, ContinueCleared,
           ContinueCatalog, ContinueOpening, ContinueBackoff, Published, StillCurrent,
           Suspended
  <2>2. Unspent
    BY <2>1, CurrentUnspent
  <2>3. CASE ContinueCatalog
    <3>1. /\ conn' = [conn EXCEPT !.seenInit = FALSE, !.connectedAt = FALSE]
          /\ hist' = hist
      BY <2>3 DEF ContinueCatalog
    <3>2. Counted /\ ~Following'
      BY <1>0, <2>2, <3>1 DEF Counted, Connections, Unspent, Following
    <3> QED
      BY <2>2, <3>2, UnspentHandler
  <2>4. CASE ContinueOpening
    <3>1. StillCurrent("opening") /\ UNCHANGED <<conn, hist>>
      BY <2>4 DEF ContinueOpening, Published
    <3>2. "opening" \in PublishedAt
      BY DEF PublishedAt
    <3>3. ~conn.seenInit
      BY <1>0, <3>1, <3>2, Resumed DEF Installed
    <3>4. Counted /\ ~Following'
      BY <3>1, <3>3 DEF Counted, Following
    <3> QED
      BY <2>2, <3>4, UnspentHandler
  <2>5. CASE ~ContinueCatalog /\ ~ContinueOpening
    <3>1. UNCHANGED <<conn, hist>> /\ op' \in {op, Request("resolve"), Request("catalog")}
      BY <1>5, <2>5
         DEF ContinueNormBackoff, ContinueNormUnresolved, ContinueInterrupt,
             ContinueUnresolved, ContinueMetadata, ContinueConnecting, ContinueCleared,
             ContinueBackoff
    <3>2. op' = op \/ op'.kind \in {"resolve", "catalog"}
      BY <3>1 DEF Request
    <3>3. Counted /\ (Following' => Following)
      BY <3>1, <3>2 DEF Counted, Following, LiveOp
    <3> QED
      BY <2>2, <3>3, UnspentHandler
  <2> QED
    BY <2>3, <2>4, <2>5
<1> QED
  BY <1>1, <1>2, <1>3, <1>4, <1>5 DEF Continue

\* start() and the end of the signals count nothing.
LEMMA StartAttempts ==
  ASSUME TypeOK, QuietInv, AttemptsInv, StartAttach \/ StartGate \/ StartDelegate
  PROVE  AttemptsInv'
<1>0. conn \in Connections
  BY DEF TypeOK
<1>1. /\ UNCHANGED <<op, timer, queue, hist>>
      /\ \/ conn' = conn
         \/ conn' = [conn EXCEPT !.started = TRUE]
         \/ conn' = [conn EXCEPT !.activeEpoch = ctl.requestedEpoch]
         \/ conn' = [conn EXCEPT !.activeEpoch = ctl.requestedEpoch, !.stopped = TRUE]
  BY DEF StartAttach, StartGate, StartDelegate
<1>2. /\ conn'.failures = conn.failures /\ conn'.ends = conn.ends
      /\ conn'.connectedAt = conn.connectedAt /\ conn'.seenInit = conn.seenInit
      /\ hist'.streak = hist.streak
  BY <1>0, <1>1 DEF Connections
<1>3. CASE StartAttach
  <2>1. Unspent /\ conn'.started
    BY <1>0, <1>3 DEF StartAttach, AttemptsInv, Connections
  <2>2. ~Following'
    BY <1>1, <1>3, NoOpIdle DEF StartAttach, QuietInv, Unstarted, Following, LiveOp
  <2> QED
    BY <1>2, <2>1, <2>2 DEF AttemptsInv, Tried, Placed, Unspent
<1>4. CASE StartGate \/ StartDelegate
  <2>1. frame.at \in {"attached", "gated"} /\ conn'.started = conn.started
    BY <1>0, <1>4 DEF StartGate, StartDelegate, Connections
  <2>2. Counted /\ (Following' => Following)
    BY <1>1, <1>2, <2>1 DEF Counted, Following, LiveOp
  <2>3. Running => Unspent
    BY <2>1 DEF AttemptsInv, Placed, Joined, Spent, Unspent
  <2>4. Running' => Running
    <3>1. conn'.stopped = conn.stopped \/ conn'.stopped
      BY <1>0, <1>1 DEF Connections
    <3>2. chan'.closing = chan.closing /\ ctl'.stopRequested = ctl.stopRequested
      BY <1>4 DEF StartGate, StartDelegate, TypeOK, Channels, Atomics
    <3> QED
      BY <2>1, <3>1, <3>2 DEF Running
  <2> QED
    BY <2>2, <2>3, <2>4, UnspentKeeps
<1> QED
  BY <1>3, <1>4

LEMMA SignalsDoneAttempts ==
  ASSUME TypeOK, AttemptsInv, SignalsDone, ~chan.closing PROVE AttemptsInv'
<1>1. /\ UNCHANGED <<chan, ctl, conn, op, timer, queue, hist>>
      /\ frame' = [frame EXCEPT !.signal = "none"]
  BY DEF SignalsDone
<1>2. frame'.at = frame.at
  BY <1>1 DEF TypeOK, Frames, FrameRecords
<1> QED
  BY <1>1, <1>2, RestKeeps DEF Counted, Following, LiveOp, LiveTimer, Running, NoLive

\* Every step keeps it, until the channel begins to close.
LEMMA AttemptsStep ==
  ASSUME TypeOK, QuietInv, ActivityInv, AttemptsInv, ~chan.closing, [Next]_vars
  PROVE  AttemptsInv'
<1>1. CASE UNCHANGED vars
  BY <1>1, RestKeeps
     DEF vars, Counted, Following, LiveOp, LiveTimer, Running, NoLive
<1>2. CASE Handler
  <2>1. CASE ~InEpoch \/ ~ctl.gate \/ ctl.stopRequested \/ conn.stopped
    BY <1>2, <2>1, OvertakenFades, FadedKeeps
  <2>2. CASE InEpoch /\ ctl.gate /\ ~ctl.stopRequested /\ ~conn.stopped
    <3>1. Here
      BY <1>2, <2>2, HandlerLeaves DEF Keeps, Here, Running, QuietInv, Unstarted
    <3>2. Busy
      BY <2>2, <3>1 DEF Busy, Here, ActivityInv, QuietInv, ClosedForGood
    <3>3. CASE \/ StartResolve
               \/ RunTask /\ Head(queue).kind = "schedFail"
               \/ \E tm \in {timer} \cup late : Fire(tm)
      BY <1>2, <3>2, <3>3, BeginAttempts
    <3>4. CASE Answer \/ \E batch \in Batches : StreamEvents(batch)
      <4>1. CASE AnswerDropped
        <5>1. Faded
          BY <4>1 DEF AnswerDropped, Faded, OwnerFree, Idle, NoLive
        <5> QED
          BY <5>1, FadedKeeps
      <4>2. CASE ~AnswerDropped
        BY <1>2, <3>2, <3>4, <4>2, ResolveAttempts, StreamAttempts DEF Answer
      <4> QED
        BY <4>1, <4>2
    <3>5. CASE Continue /\ ~SignalsDone
      BY <1>2, <3>2, <3>5, ContinueAttempts
    <3> QED
      BY <1>2, <3>3, <3>4, <3>5 DEF Handler
  <2> QED
    BY <2>1, <2>2
<1>3. CASE Start
  BY <1>2, <1>3, StartAttempts DEF Start, Handler
<1>4. CASE ApplicationCalls \/ ThreadCloseCancel
  BY <1>4, OwnerCallsAttempts, ThreadCallsAttempts DEF ApplicationCalls
<1>5. CASE RunTask
  BY <1>2, <1>5, RunTaskAttempts DEF Handler
<1>6. CASE Continue
  BY <1>2, <1>6, SignalsDoneAttempts DEF Handler
<1> QED
  BY <1>1, <1>2, <1>3, <1>4, <1>5, <1>6 DEF Next, Handler

LEMMA AttemptsInit == Init => AttemptsInv
<1> SUFFICES ASSUME Init PROVE AttemptsInv
  OBVIOUS
<1>1. /\ conn.failures = 0 /\ conn.ends = 0 /\ ~conn.connectedAt /\ ~conn.started
      /\ hist.streak = 0
  BY DEF Init
<1>2. MaxFailures \in Nat \ {0}
  BY ConnectionAssumption
<1> QED
  BY <1>1, <1>2 DEF AttemptsInv, Tried, Unspent, Running

\* A closing is for good.
LEMMA ClosingStays ==
  ASSUME TypeOK, QuietInv, [Next]_vars, chan.closing PROVE chan'.closing
<1> DEFINE Kept(c) == c \in {chan, closeOwner(chan), [chan EXCEPT !.closing = TRUE],
                            [chan EXCEPT !.delegate = TRUE], [chan EXCEPT !.delegate = FALSE]}
<1>1. ASSUME Kept(chan') PROVE chan'.closing
  BY <1>1, CloseFields DEF TypeOK, Channels
<1>2. ASSUME NEW close, NEW a, NEW c, NEW q, stopOwner(close, a, c, q) PROVE Kept(chan')
  BY <1>2 DEF stopOwner
<1>3. ASSUME NEW e, NEW loc, NEW a, NEW q, NEW h, retryOwner(e, loc, a, q, h)
      PROVE  Kept(chan')
  BY <1>2, <1>3 DEF retryOwner
<1>4. ASSUME NEW loc, NEW q, NEW h, requestRetryOwner(loc, q, h) PROVE Kept(chan')
  BY <1>3, <1>4 DEF requestRetryOwner
<1> HIDE DEF Kept
<1>5. CASE Handler
  BY <1>5, HandlerLeaves DEF Keeps, Shows
<1>6. CASE UNCHANGED vars
  BY <1>6 DEF vars
<1>7. CASE StartAttach \/ StartGate \/ StartDelegate
  BY <1>1, <1>7 DEF StartAttach, StartGate, StartDelegate, Kept
<1>8. CASE \/ \E loc \in Locators \cup {Same} : OwnerRetry(loc)
           \/ \E close \in BOOLEAN : OwnerStop(close)
           \/ OwnerClose
  BY <1>1, <1>2, <1>4, <1>8 DEF OwnerRetry, OwnerStop, OwnerClose
<1>9. CASE \/ ThreadReconnect \/ ThreadCloseGate \/ ThreadCloseCancel
           \/ \E loc \in Locators \cup {Same} : ThreadRetry(loc)
           \/ \E close \in BOOLEAN : ThreadStop(close)
  BY <1>1, <1>9 DEF ThreadReconnect, ThreadCloseGate, ThreadCloseCancel, ThreadRetry,
                    ThreadStop, Kept
<1>10. CASE RunTask /\ Head(queue).kind # "schedFail"
  <2> DEFINE x == Head(queue)
             q == Tail(queue)
  <2>1. \/ retryOwner(x.epoch, x.locator, ctl, q, hist)
        \/ stopOwner(x.close, ctl, conn, q)
        \/ chan' = closeOwner(chan) \/ chan' = chan
        \/ requestRetryOwner(Same, q, hist)
    <3>1. queue \in Seq(Tasks) /\ queue # <<>>
      BY <1>10 DEF RunTask, TypeOK
    <3>2. x \in Tasks
      BY <3>1
    <3>3. x.kind \in {"retry", "stop", "close", "reconnect"}
      BY <1>10, <3>2 DEF Tasks
    <3>4. CASE x.kind = "retry"
      BY <1>10, <3>4 DEF RunTask
    <3>5. CASE x.kind = "stop"
      BY <1>10, <3>5 DEF RunTask
    <3>6. CASE x.kind = "close"
      BY <1>10, <3>6 DEF RunTask
    <3>7. CASE x.kind = "reconnect"
      BY <1>10, <3>7 DEF RunTask
    <3> QED
      BY <3>3, <3>4, <3>5, <3>6, <3>7
  <2> HIDE DEF x, q
  <2> QED
    BY <1>1, <1>2, <1>3, <1>4, <2>1 DEF Kept
<1>11. CASE SignalsDone
  BY <1>1, <1>11 DEF SignalsDone, Kept
<1> QED
  BY <1>5, <1>6, <1>7, <1>8, <1>9, <1>10, <1>11
     DEF Next, Handler, Start, ApplicationCalls, Continue

\* However the failures mix with streams that end, at most M(M + 1)/2 attempts fail
\* in a row before the connection enters Failed, although an ended stream sets the
\* failure counter back (consecutiveStreamEndRevalidations, terminal), until the
\* channel begins to close.
THEOREM FewInARow ==
  "cleared" \notin ReentrantAt => (Spec => [](~chan.closing => AttemptsBounded))
<1> SUFFICES ASSUME "cleared" \notin ReentrantAt
             PROVE  Spec => [](~chan.closing => AttemptsBounded)
  OBVIOUS
<1> DEFINE I == TypeOK /\ QuietInv /\ ActivityInv /\ Ordered
           J == chan.closing \/ AttemptsInv
<1>1. Init => I /\ J
  BY InitTypes, QuietInit, ActivityInit, OrderedInit, AttemptsInit
<1>2. I /\ [Next]_vars => I'
  BY StepTypes, QuietStep, ActivityStep, OrderedStep DEF vars
<1>3. I /\ J /\ [Next]_vars => J'
  BY AttemptsStep, ClosingStays
<1>4. I /\ J => (~chan.closing => AttemptsBounded)
  <2> SUFFICES ASSUME TypeOK, AttemptsInv PROVE AttemptsBounded
    OBVIOUS
  <2>1. /\ MaxFailures \in Nat /\ conn.failures <= MaxFailures /\ conn.ends <= MaxFailures
        /\ conn.failures \in Nat /\ conn.ends \in Nat /\ hist.streak \in Nat
    BY NumbersTyped, ConnectionAssumption DEF AttemptsInv, Tried
  <2>2. 2 * hist.streak + conn.ends * conn.ends + conn.ends
          <= 2 * conn.failures + 2 * (conn.ends * MaxFailures)
    BY DEF AttemptsInv, Tried
  <2> QED
    BY <2>1, <2>2, AllInARow DEF AttemptsBounded
<1> QED
  BY <1>1, <1>2, <1>3, <1>4, PTL DEF Spec

(***************************************************************************)
(* The locator asked for last is the one in use, as long as the owner's    *)
(* thread is the only one to call: a restart of another thread may be      *)
(* overtaken by a retry on its way to the owner.                           *)
(***************************************************************************)

Aimed == conn.locator = hist.wanted
Unretried(q) == ~Has(q, "retry")
LocatorInv ==
  /\ Unretried(queue)
  /\ ~conn.started => Aimed
  /\ Running => Gated /\ Aimed

\* A step aims at nothing else, and leaves what ran running in its epoch's gate.
SameAim == conn'.locator = conn.locator /\ hist'.wanted = hist.wanted

LEMMA AimKept ==
  ASSUME LocatorInv, SameAim, conn'.started = conn.started, Unretried(queue'),
         Running' => Running /\ frame.at # "attached" /\ (ctl.gate => ctl'.gate)
  PROVE  LocatorInv'
  BY DEF LocatorInv, SameAim, Aimed, Gated

\* Neither a new generation nor the running of a task queues a retry.
LEMMA QueueUnretried ==
  ASSUME NEW q \in Seq(Tasks), Unretried(q)
  PROVE  /\ Unretried(BumpedQueue(q)) /\ Unretried(InertQueue(q))
         /\ Unretried(InertQueue(q) \o <<>>)
         /\ \A x \in Tasks : x.kind # "retry" =>
              Unretried(Append(q, x)) /\ Unretried(InertQueue(q) \o <<x>>)
         /\ q # <<>> => Unretried(Tail(q)) /\ Head(q).kind # "retry"
                         /\ Tail(q) \in Seq(Tasks) /\ Head(q) \in Tasks
<1>1. Task("stop") \in Tasks
  BY DEF Task, Tasks
<1>2. q # <<>> => Tail(q) \in Seq(Tasks) /\ Head(q) \in Tasks
  OBVIOUS
<1> QED
  BY <1>1, <1>2, QueueHas DEF Unretried

\* A handler aims at nothing else.
LEMMA HandlerAims ==
  ASSUME TypeOK, QuietInv, Handler
  PROVE  SameAim /\ (Unretried(queue) => Unretried(queue'))
<1>0. /\ conn \in Connections /\ hist \in [streak : Nat, wanted : Locators]
      /\ queue \in Seq(Tasks)
  BY DEF TypeOK
<1>1. CASE Answer \/ \E batch \in Batches : StreamEvents(batch)
  <2>1. \/ conn' = conn
        \/ \E b \in BOOLEAN : conn' = [conn EXCEPT !.hasStream = b]
        \/ conn' = [conn EXCEPT !.failures = @ + 1]
        \/ conn' = [conn EXCEPT !.ends = 0]
        \/ conn' = [conn EXCEPT !.failures = 0, !.ends = 0, !.connectedAt = FALSE]
        \/ conn' = [conn EXCEPT !.failures = 0, !.ends = 0, !.connectedAt = FALSE,
                                !.hasStream = FALSE]
        \/ conn' = [conn EXCEPT !.seenInit = TRUE, !.failures = 0, !.connectedAt = TRUE]
        \/ \E n, m : conn' = [conn EXCEPT !.ends = n, !.failures = m, !.connectedAt = FALSE]
    BY <1>1
       DEF Answer, AnswerDropped, ResolvedOffline, ResolvedLive, ResolvedInvalid,
           ResolveFailed, CatalogAnswered, StreamOffline, StreamEnded, StreamFailed,
           StreamEvents, processEvents
  <2>2. \/ hist' = hist
        \/ \E n : hist' = [hist EXCEPT !.streak = n]
    BY <1>1
       DEF Answer, AnswerDropped, ResolvedOffline, ResolvedLive, ResolvedInvalid,
           ResolveFailed, CatalogAnswered, StreamOffline, StreamEnded, StreamFailed,
           StreamEvents, processEvents, Fail
  <2> QED
    BY <1>0, <1>1, <2>1, <2>2, AnswerEpoch DEF SameAim, Connections
<1>2. CASE Continue /\ ~SignalsDone
  <2>1. \/ conn' = conn
        \/ conn' = [conn EXCEPT !.seenInit = FALSE, !.connectedAt = FALSE]
        \/ conn' = [conn EXCEPT !.failures = @ + 1]
        \/ conn' = [conn EXCEPT !.ends = 0]
        \/ conn' = [conn EXCEPT !.seenInit = TRUE, !.failures = 0, !.connectedAt = TRUE]
    BY <1>2
       DEF Continue, Abandon, Finish, ContinueNormBackoff, ContinueNormUnresolved,
           ContinueInterrupt, ContinueUnresolved, ContinueMetadata, ContinueConnecting,
           ContinueCleared, ContinueCatalog, ContinueOpening, ContinueConnected,
           ContinuePublished, ContinueBackoff, ContinueFailStage, processEvents
  <2>2. \/ hist' = hist
        \/ \E n : hist' = [hist EXCEPT !.streak = n]
    BY <1>2
       DEF Continue, Abandon, Finish, ContinueNormBackoff, ContinueNormUnresolved,
           ContinueInterrupt, ContinueUnresolved, ContinueMetadata, ContinueConnecting,
           ContinueCleared, ContinueCatalog, ContinueOpening, ContinueConnected,
           ContinuePublished, ContinueBackoff, ContinueFailStage, processEvents, Fail
  <2>3. queue' \in {queue, BumpedQueue(queue)}
    BY <1>2, ContinueEpoch
  <2> QED
    BY <1>0, <2>1, <2>2, <2>3, QueueUnretried DEF SameAim, Connections
<1>3. CASE \/ StartResolve
           \/ RunTask /\ Head(queue).kind = "schedFail"
           \/ \E tm \in {timer} \cup late : Fire(tm)
  <2>1. UNCHANGED <<conn, hist>>
    BY <1>3 DEF StartResolve, RunTask, Fire
  <2>2. queue' \in {queue, BumpedQueue(queue)} \/ (queue # <<>> /\
          queue' \in {Tail(queue), BumpedQueue(Tail(queue))})
    BY <1>3, ResolveShows DEF StartResolve, RunTask, Fire, Left, Keep
  <2> QED
    BY <1>0, <2>1, <2>2, QueueUnretried DEF SameAim
<1> QED
  BY <1>1, <1>2, <1>3 DEF Handler

\* What a handler leaves keeps what the connection aims at.
LEMMA HandlerLocator ==
  ASSUME TypeOK, QuietInv, LocatorInv, Handler PROVE LocatorInv'
<1>1. SameAim /\ Unretried(queue')
  BY HandlerAims DEF LocatorInv
<1>2. /\ ctl' = ctl /\ conn'.started = conn.started /\ conn'.stopped = conn.stopped
      /\ chan'.closing = chan.closing /\ frame.at # "attached"
  BY HandlerLeaves DEF Keeps, Shows, Starting
<1> QED
  BY <1>1, <1>2, AimKept DEF Running

\* start() takes the locator it was made with, or the last one asked for.
LEMMA StartLocator ==
  ASSUME TypeOK, QuietInv, LocatorInv, StartAttach \/ StartGate \/ StartDelegate
  PROVE  LocatorInv'
<1>0. conn \in Connections /\ chan \in Channels /\ ctl \in Atomics
  BY DEF TypeOK
<1>1. /\ UNCHANGED <<queue, hist>>
      /\ \/ conn' = conn
         \/ conn' = [conn EXCEPT !.started = TRUE]
         \/ conn' = [conn EXCEPT !.activeEpoch = ctl.requestedEpoch]
         \/ conn' = [conn EXCEPT !.activeEpoch = ctl.requestedEpoch, !.stopped = TRUE]
  BY DEF StartAttach, StartGate, StartDelegate
<1>2. SameAim /\ Unretried(queue')
  BY <1>0, <1>1 DEF SameAim, Connections, LocatorInv
<1>3. CASE StartAttach
  BY <1>0, <1>2, <1>3 DEF StartAttach, LocatorInv, SameAim, Aimed, Gated, Connections
<1>4. CASE StartGate
  BY <1>0, <1>2, <1>4
     DEF StartGate, LocatorInv, SameAim, Aimed, Gated, Running, Atomics, QuietInv,
         Unstarted, Starting
<1>5. CASE StartDelegate
  <2>1. /\ frame.at = "gated" /\ conn'.started = conn.started
        /\ ctl'.stopRequested = ctl.stopRequested /\ chan'.closing = chan.closing
    BY <1>0, <1>1, <1>5 DEF StartDelegate, Connections, Channels, Atomics
  <2>2. Running' => Running /\ ctl' = ctl
    BY <1>0, <1>5, <2>1 DEF StartDelegate, Running, Connections
  <2> QED
    BY <1>2, <2>1, <2>2, AimKept
<1> QED
  BY <1>3, <1>4, <1>5

\* A stop leaves the locator.
LEMMA StopLocator ==
  ASSUME TypeOK, LocatorInv, hist' = hist, NEW close, NEW a \in Atomics,
         NEW q \in Seq(Tasks), Unretried(q), stopOwner(close, a, conn, q)
  PROVE  LocatorInv'
<1>1. conn' = conn \/ conn' = [conn EXCEPT !.stopped = TRUE]
  BY DEF stopOwner
<1>2. SameAim /\ conn'.started = conn.started
  BY <1>1 DEF SameAim, TypeOK, Connections
<1>3. ctl'.stopRequested
  BY DEF stopOwner, Atomics
<1>4. Unretried(queue')
  BY QueueUnretried DEF stopOwner, invalidateOwner
<1> QED
  BY <1>2, <1>3, <1>4, AimKept DEF Running

\* A retry that the owner asks for itself is the newest: it is dropped only by a
\* connection that does not run, and otherwise aims at what was asked for.
LEMMA RetryLocator ==
  ASSUME TypeOK, LocatorInv, frame.at # "attached",
         NEW loc \in Locators \cup {Same}, NEW q \in Seq(Tasks), Unretried(q), NEW h,
         h \in [streak : Nat, wanted : Locators],
         h.wanted = IF loc # Same /\ conn.started THEN loc ELSE hist.wanted,
         requestRetryOwner(loc, q, h)
  PROVE  LocatorInv'
<1> DEFINE e == ctl.requestedEpoch + 1
           a == [ctl EXCEPT !.requestedEpoch = e]
           c == Retried(e, loc)
           x == [Task("schedFail") EXCEPT !.l = TRUE, !.r = TRUE]
<1>0. conn \in Connections
  BY DEF TypeOK
<1>1. /\ a.requestedEpoch = e /\ a.gate = ctl.gate
      /\ a.stopRequested = ctl.stopRequested /\ a \in Atomics
  BY DEF TypeOK, Atomics
<1>2. retryOwner(e, loc, a, q, h)
  BY DEF requestRetryOwner
<1>3. /\ c.locator = IF loc = Same THEN conn.locator ELSE loc
      /\ c.started = conn.started /\ c.stopped = conn.stopped /\ DOMAIN c = DOMAIN conn
  BY <1>0 DEF Retried, Connections
<1>4. [h EXCEPT !.streak = 0].wanted = h.wanted
  OBVIOUS
<1>5. x \in Tasks /\ x.kind # "retry"
  BY DEF Task, Tasks
<1> HIDE DEF e, a, c, x
<1>6. CASE /\ a.stopRequested \/ ~a.gate \/ conn.stopped \/ ~conn.started
           /\ ctl' = a /\ queue' = q /\ hist' = h
           /\ UNCHANGED <<chan, conn, op, timer, late, frame>>
  <2>1. ~Running'
    BY <1>1, <1>6 DEF Running, LocatorInv, Gated
  <2> QED
    BY <1>6, <2>1 DEF LocatorInv, Aimed
<1>7. CASE /\ ~(a.stopRequested \/ ~a.gate \/ conn.stopped \/ ~conn.started)
           /\ hist' = [h EXCEPT !.streak = 0]
           /\ \/ invalidateOwner(Fresh("explicit"), q, <<>>)
              \/ invalidateOwner(NoTimer, q, <<x>>)
           /\ ctl' = a /\ conn' = c /\ UNCHANGED chan
  <2>1. Unretried(queue')
    BY <1>5, <1>7, QueueUnretried DEF invalidateOwner
  <2>2. Running' => Running /\ ctl'.gate
    BY <1>1, <1>3, <1>7 DEF Running
  <2>3. Aimed => Aimed'
    BY <1>3, <1>4, <1>7 DEF Aimed
  <2> QED
    BY <1>3, <1>7, <2>1, <2>2, <2>3 DEF LocatorInv, Gated
<1>8. CASE /\ ~(a.stopRequested \/ ~a.gate \/ conn.stopped \/ ~conn.started)
           /\ stopOwner(TRUE, a, c, q)
  <2>1. conn' = [c EXCEPT !.stopped = TRUE] /\ ctl'.stopRequested
    BY <1>1, <1>3, <1>8 DEF stopOwner, Atomics
  <2>2. conn'.started /\ ~Running'
    BY <1>0, <1>3, <1>8, <2>1 DEF Running, Connections
  <2>3. Unretried(queue')
    BY <1>3, <1>8, QueueUnretried DEF stopOwner, invalidateOwner
  <2> QED
    BY <2>2, <2>3 DEF LocatorInv
<1> QED
  BY <1>1, <1>2, <1>6, <1>7, <1>8 DEF retryOwner, c, x

\* The calls of the owner, from its event loop or from an observer.
LEMMA OwnerCallsLocator ==
  ASSUME TypeOK, QuietInv, LocatorInv,
         \/ \E loc \in Locators \cup {Same} : OwnerRetry(loc)
         \/ \E close \in BOOLEAN : OwnerStop(close)
         \/ OwnerClose
  PROVE  LocatorInv'
<1>0. queue \in Seq(Tasks) /\ ctl \in Atomics /\ Unretried(queue)
  BY DEF TypeOK, LocatorInv
<1>1. ASSUME NEW loc \in Locators \cup {Same}, OwnerRetry(loc) PROVE LocatorInv'
  <2> DEFINE h == Wanting(loc)
  <2>1. /\ h \in [streak : Nat, wanted : Locators]
        /\ h.wanted = IF loc # Same /\ conn.started THEN loc ELSE hist.wanted
    BY NumbersTyped DEF Wanting
  <2>2. requestRetryOwner(loc, queue, h)
    BY <1>1 DEF OwnerRetry
  <2>3. frame.at # "attached"
    BY <1>1 DEF OwnerRetry, OwnerCalls, OwnerFree, Idle, QuietInv, Unstarted, Starting
  <2> HIDE DEF h
  <2> QED
    BY <1>0, <2>1, <2>2, <2>3, RetryLocator
<1>2. ASSUME NEW close \in BOOLEAN, OwnerStop(close) PROVE LocatorInv'
  BY <1>0, <1>2, StopLocator DEF OwnerStop
<1>3. CASE OwnerClose
  <2>1. CASE conn.started /\ ~ctl.stopRequested
    BY <1>0, <1>3, <2>1, StopLocator DEF OwnerClose
  <2>2. CASE ~(conn.started /\ ~ctl.stopRequested)
    BY <1>0, <1>3, <2>2, AimKept DEF OwnerClose, Running, SameAim
  <2> QED
    BY <2>1, <2>2
<1> QED
  BY <1>1, <1>2, <1>3

\* The tasks the owner runs are stops, closes and reconnects.
LEMMA RunTaskLocator ==
  ASSUME TypeOK, QuietInv, LocatorInv, RunTask, Head(queue).kind # "schedFail"
  PROVE  LocatorInv'
<1> DEFINE x == Head(queue)
           q == Tail(queue)
<1>1. queue # <<>> /\ queue \in Seq(Tasks) /\ ctl \in Atomics /\ frame.at # "attached"
  BY DEF RunTask, TypeOK, OwnerFree, Idle
<1>2. x \in Tasks /\ q \in Seq(Tasks) /\ Unretried(q) /\ x.kind # "retry"
  BY <1>1, QueueUnretried DEF LocatorInv
<1>3. x.kind \in {"stop", "close", "reconnect"}
  BY <1>2 DEF Tasks
<1>4. CASE x.kind = "stop"
  <2>1. stopOwner(x.close, ctl, conn, q) /\ UNCHANGED hist
    BY <1>4 DEF RunTask
  <2> HIDE DEF x, q
  <2> QED
    BY <1>1, <1>2, <2>1, StopLocator
<1>5. CASE x.kind = "close"
  <2>1. chan' = closeOwner(chan) /\ queue' = q /\ UNCHANGED <<conn, hist>>
    BY <1>5 DEF RunTask
  <2>2. ~Running'
    BY <2>1, CloseFields DEF Running
  <2> QED
    BY <1>2, <2>1, <2>2, AimKept DEF SameAim
<1>6. CASE x.kind = "reconnect"
  <2>1. CASE queue' = q /\ UNCHANGED <<chan, ctl, conn, op, timer, late, frame, hist>>
    BY <1>1, <1>2, <2>1, AimKept DEF Running, SameAim
  <2>2. CASE requestRetryOwner(Same, q, hist)
    <3> HIDE DEF q
    <3> QED
      BY <1>1, <1>2, <2>2, RetryLocator, NumbersTyped
  <2> QED
    BY <1>6, <2>1, <2>2 DEF RunTask
<1> HIDE DEF x
<1> QED
  BY <1>3, <1>4, <1>5, <1>6

\* A close that another thread began, and the end of the signals.
LEMMA RestLocator ==
  ASSUME TypeOK, QuietInv, LocatorInv, ThreadCloseCancel \/ SignalsDone
  PROVE  LocatorInv'
<1>0. queue \in Seq(Tasks) /\ conn \in Connections /\ chan \in Channels
  BY DEF TypeOK
<1>1. CASE ThreadCloseCancel
  <2>1. UNCHANGED <<conn, hist>> /\ ~Running'
    BY <1>1, CloseFields DEF ThreadCloseCancel, QuietInv, ClosedForGood, Running
  <2>2. Unretried(queue')
    <3>1. /\ Task("stop") \in Tasks /\ Task("stop").kind = "stop"
          /\ Task("close") \in Tasks /\ Task("close").kind = "close"
      BY DEF Task, Tasks
    <3>2. Unretried(queue) /\ Unretried(Append(queue, Task("stop")))
      BY <1>0, <3>1, QueueUnretried DEF LocatorInv
    <3>3. Append(queue, Task("stop")) \in Seq(Tasks)
      BY <1>0, <3>1
    <3>4. \/ queue' \in {queue, Append(queue, Task("stop"))}
          \/ queue' = Append(queue, Task("close"))
          \/ queue' = Append(Append(queue, Task("stop")), Task("close"))
      BY <1>1 DEF ThreadCloseCancel
    <3> QED
      BY <1>0, <3>1, <3>2, <3>3, <3>4, QueueUnretried
  <2> QED
    BY <2>1, <2>2, AimKept DEF SameAim
<1>2. CASE SignalsDone
  <2>1. CASE ~chan.closing
    <3>1. /\ UNCHANGED <<chan, ctl, conn, queue, hist>>
          /\ frame' = [frame EXCEPT !.signal = "none"] /\ frame.signal = "state"
      BY <1>2, <2>1 DEF SignalsDone
    <3>2. frame.at # "attached"
      BY <3>1 DEF QuietInv, Unstarted, Starting
    <3> QED
      BY <3>1, <3>2, AimKept DEF SameAim, Running, LocatorInv
  <2>2. CASE chan.closing
    <3>1. chan' = closeOwner(chan) /\ UNCHANGED hist
      BY <1>2, <2>2 DEF SignalsDone
    <3>2. conn' = conn \/ conn' = [conn EXCEPT !.stopped = TRUE]
      BY <1>2, <2>2 DEF SignalsDone
    <3>3. queue' \in {queue, InertQueue(queue)}
      BY <1>2, <2>2 DEF SignalsDone
    <3>4. SameAim /\ conn'.started = conn.started
      BY <1>0, <3>1, <3>2 DEF SameAim, Connections
    <3>5. Unretried(queue') /\ ~Running'
      BY <1>0, <3>1, <3>3, CloseFields, QueueUnretried DEF LocatorInv, Running
    <3> QED
      BY <3>4, <3>5, AimKept
  <2> QED
    BY <2>1, <2>2
<1> QED
  BY <1>1, <1>2

LEMMA LocatorStep ==
  ASSUME ~OffOwnerCalls, TypeOK, QuietInv, LocatorInv, [Next]_vars
  PROVE  LocatorInv'
<1>1. CASE UNCHANGED vars
  BY <1>1 DEF vars, LocatorInv, Aimed, Running, Gated, Unretried, Has
<1>2. CASE Handler
  BY <1>2, HandlerLocator
<1>3. CASE Start
  BY <1>2, <1>3, StartLocator DEF Start, Handler
<1>4. CASE ApplicationCalls
  BY <1>4, OwnerCallsLocator
     DEF ApplicationCalls, ThreadRetry, ThreadStop, ThreadReconnect, ThreadCloseGate,
         ThreadCalls
<1>5. CASE RunTask
  BY <1>2, <1>5, RunTaskLocator DEF Handler
<1>6. CASE ThreadCloseCancel \/ SignalsDone
  BY <1>6, RestLocator
<1> QED
  BY <1>1, <1>2, <1>3, <1>4, <1>5, <1>6 DEF Next, Handler, Continue

LEMMA LocatorInit == Init => LocatorInv
<1> SUFFICES ASSUME Init PROVE LocatorInv
  OBVIOUS
<1>1. queue = <<>> /\ ~conn.started /\ Aimed
  BY DEF Init, Aimed
<1> QED
  BY <1>1 DEF LocatorInv, Unretried, Has, Running

\* Whenever the connection runs it uses the locator of the last restart, as long as
\* only the owner's thread calls retry and restart, as RumbleApplicationController
\* does: a retry of the owner is the newest there is, so it is never dropped for a
\* newer one, and no handler that was suspended sets the locator back.
THEOREM LastLocatorUsed ==
  ~OffOwnerCalls => (Spec => [](LocatorHonoured /\ (Running => conn.locator = hist.wanted)))
<1> SUFFICES ASSUME ~OffOwnerCalls
             PROVE  Spec => [](LocatorHonoured /\ (Running => conn.locator = hist.wanted))
  OBVIOUS
<1> DEFINE I == TypeOK /\ QuietInv /\ LocatorInv
<1>1. Init => I
  BY InitTypes, QuietInit, LocatorInit
<1>2. I /\ [Next]_vars => I'
  BY StepTypes, QuietStep, LocatorStep DEF vars
<1>3. I => LocatorHonoured /\ (Running => conn.locator = hist.wanted)
  BY DEF LocatorInv, LocatorHonoured, Aimed
<1> QED
  BY <1>1, <1>2, <1>3, PTL DEF Spec
=============================================================================
