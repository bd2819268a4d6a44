# Klatterino: a TLA+ verification development

Klatterino is a fork of Chatterino 7 with a native Rumble chat provider
(`deps/chatterino7/src/providers/rumble/`) and a set of programs that let a
stream player follow the selected chat tab (`tab-emit/`,
`chatterino-streamlink-follow*.py`, `streamlink-plugins/`). The modules here
model the parts of it that keep state across callbacks, threads, processes and
servers. TLC checks them on small instances; TLAPS proves the most important
facts for every value of the constants. Paths below are relative to the
repository.

    tlc -workers 4 -config MC_Session.cfg MC_RumbleSession.tla
    tlapm RumbleSessionProofs.tla

`PROJECT.json` lists the components, the runs, for each definition the lines of
code it stands for, the hazards of the code and the properties that watch them,
and for each property a mutation of the code that breaks it (the definitions
whose comment begins "Mutant of").

## 1. Inventory

### The Rumble provider

Rumble's chat of one stream is a server-sent-event stream, found by resolving a
public page. Everything the provider does to a channel happens on the owner
thread, the GUI thread of Chatterino; what makes it hard is that owner-thread
handlers are neither atomic (a publication runs observers, which may call back)
nor alone (close, stop, retry and reconnect may be called from any thread).

| part | state | operations | talks to |
| --- | --- | --- | --- |
| `RumbleConnection` | three generations, the request and the timer in hand, failure counters, the retry epoch; atomics `callbackGate`, `stopRequested`, `requestedEpoch` | start, retry, restart(locator), stop, retire; answers to resolve, catalog and stream; timers | channel (publications), scheduler, dispatcher, `RumbleApi` |
| `RumbleChannel` | lifecycle snapshot, `closing_`, the reconnect delegate, `sendGeneration_`, optimistic message IDs, metadata | publish lifecycle, metadata, bootstrap and realtime messages; close; send | connection, session, widgets |
| `RumbleDispatcher`, `RumbleScheduler` | a queue of tasks; timers | dispatch, scheduleAfter, cancel | Qt's event loop |
| `SessionController` | bearer, state, two generations, handles of the requests, identity, eligibilities, `deniedStream`, `blocked` | import, clear, validate, send, eligibility | `AuthTransport`, every channel (notify) |
| `RumbleAccountManager`, credential store | accounts, their credentials in memory, the selected ID; the keyring | load, select, add, remove; read, write, erase | settings, QKeychain, application controller |
| `RumbleApplicationController` | the registry of channel lifecycles, resolve requests, the session, the sign-in | restore, resolve, retry, loginInBrowser, activateSelectedAccount, shutdown | all of the above |
| browser sign-in | a WebDriver session, its processes and deadlines | prepare, start, cancel | a browser |
| events, emotes, moderation, builders | catalogs of users, badges, emotes, IDs already seen; moderation of one account and channel | parse, process, apply | channel |

What makes them correct:

* **Connection and lifecycle.** The visible state tells what the connection is
  doing; there is one way on at a time and always one, unless it failed; a
  callback of an earlier attempt changes nothing; after a stop, from whichever
  thread, nothing is shown but Closed and nothing is installed; a close, a stop
  and a retry are carried out.
* **Session and accounts.** Nobody sends as an account that is not selected;
  answers about one account are never taken for another's; a removed credential
  leaves the keyring; no busy flag outlives its request.
* **Sending.** A message of one's own is shown once, in whatever order the
  answer, the event and a reconnect bring it; an outcome reaches the user.
* **Application controller, browser sign-in, events, moderation.** Lifecycles
  that are retired let go of their channel; a sign-in calls back once; an event
  replayed by a reconnect is applied once. Not modelled (section 7).

### Following the selected tab

| part | state | operations | talks to |
| --- | --- | --- | --- |
| `tab-emit/init.lua` | `ws`, `connected`, `reconnect_scheduled`, `last_identity` | sends the tab on change, on the server's ticks and checks, on commands; reconnects | Chatterino's plugin API, the server |
| plugin WebSockets | callbacks posted to the GUI thread | open, text, close | the plugin, the network threads |
| the server in `chatterino-streamlink-follow.py` | clients and their tickers | handshake, check, tick, frames to the follower | plugin, follower |
| the follower (`MpvStreamlinkFollower`, `ApiStreamWorker`) | the stream followed, `current_fifo`, `api_worker`, `_channel_urls`, `stream_lock`, threads of workers, reapers and catch-up | switch, reload, offline, shutdown | Streamlink, mpv, the file system |
| `tabemit-listener.py` | `CLIENTS`, `CLIENT_TASKS`, a ticker per client | the same server, with lines of stdin broadcast to the clients | plugin, terminal |
| `streamlink-plugins/rumble.py` | none; the fields of one parse | a page to an embed, its metadata to playlists, playlists to streams | Rumble, Streamlink |

What makes them correct: no reader or FIFO is lost when a load fails or two
threads replace streams; the player reads what the follower names; a stream that
went offline stays so until a live event; a shutdown leaves nothing running; the
tab the user stays on is heard of, and followed; a client of the server that is
served is one that is broadcast to, and one that ended is forgotten; a stream
offered can be played.

### Tools

| part | state | operations | talks to |
| --- | --- | --- | --- |
| `tools/rumble_validation.py` | one run: stage, request, rows, overall result; the page parser's fields | public, diagnose, authenticated (which may post one message) | Rumble's site and chat |
| `tools/pr_integration.py` | snapshots of a pull request, its base and its parent | report, report-open, merge | GitHub through `gh`, a call at a time |
| `tools/user_facing_string_audit.py`, `tools/ui/` | none | scan a diff; a sandboxed X session | |

What makes them correct: what a report says of a message is true and no second
message is posted; exit code 0 is proof; a prefix of a page decides only what
the rest cannot take back; the two page parsers come to one verdict on the tags
they read alike; nothing is merged on
evidence about another head or a base that moved. The audits, `nix/`,
`modules/`, CI and the rest of Chatterino 7 are left out, for the reasons given
in `PROJECT.json`.

## 2. Plan

In order of what matters most to the program; what is done, and what is left:

1. `RumbleConnection`, with `RumbleLifecycle`, the lifecycle of
   `deps/chatterino7/docs/rumble-lifecycle.md` as a specification that it
   implements, and `RumbleConnectionProofs`: the safety of both is proved.
2. `StreamFollow` with `ReaderHandoff`, the abstract specification it
   implements, and `StreamFollowProofs`; `TabEmit` with `TabEmitProofs`;
   `ListenerServer`, the server at the grain of its awaits, with
   `ListenerServerProofs`. Their safety is proved.
3. `RumbleSession` with `RumbleSessionProofs`: all of its properties are proved.
   Left: settings and keyring over a restart.
4. `RumbleValidation` with `RumbleValidationProofs`; `RumblePages`, which it
   shares with the Streamlink plugin, with `RumblePagesProofs`. All of their
   properties but the validator's liveness are proved.
5. `PrIntegration` with `PrIntegrationProofs`: all of its properties are proved.
6. Not begun: the application controller's lifecycles over an abstract
   connection; the browser sign-in and its callback; EventState and moderation
   over reconnects; the composer's draft; the plugin's WebSocket pool.

## 3. Modules

### RumbleConnection and RumbleLifecycle

One channel and its connection: `RumbleConnection.cpp`, the lifecycle part of
`RumbleChannel.cpp`, and what they need of dispatcher and scheduler.

* **Handlers in pieces.** A handler is cut wherever it publishes. `frame` is the
  suspended rest of one (where it is, whether its generations are still current,
  the events not yet handled); `Continue` resumes it. While it is suspended an
  observer may call retry, restart, stop, close or reconnect on the owner
  thread (`ReentrantAt` says at which publications), and other threads may at
  any time. The signals of a lifecycle change end with `SignalsDone`, which
  carries out a close asked for meanwhile. A publication is one step with the
  check of the generations that comes before it.
* **Generations** only grow, so that a captured value that is stale stays stale.
  The model keeps the outcome of the comparison: the fields `l`, `r`, `t`
  (lifecycle, request, timer) of the request, the timer, each queued task and
  the frame. `invalidateOwner` clears them.
* **Other threads** move the atomics and queue tasks. `ThreadClose` is split as
  the code is: `closing_` first, the callback gate, then the cancelling of
  operations, then the queued `closeOwner`.
* **Timers.** `LateTimers` lets a timer that was cancelled fire, as
  `docs/rumble-lifecycle.md` (Ownership) asks the connection to bear;
  `QtScheduledTask` itself does not do it.
* `InheritedStates` is what a connection that was retired may have left visible.

`RumbleLifecycle` is what the documentation promises of the visible state: what
the connection is at (`work`: new, moving, one of the requests, a recheck or a
retry, restarted, failed, ended) and for each change of what is shown the cause
it must have. `Doing` derives `work` from the detailed state: the request or the
timer that is current, a suspended handler that is still current, a retry that
was accepted and overtakes the rest. `LifecycleKept` is the refinement.

Not obvious in the code, and kept: a queued stop lets Closed be visible while
the request is still held; Backoff lasts during the catalog request of a
stream's retry; `enterOffline` cancels its timer without a new timer generation;
a `dispose` that is refused twice is taken for a stop that stays queued.

### StreamFollow and ReaderHandoff

`chatterino-streamlink-follow.py` as `chatterino-streamlink-follow-fixed.py`
patches it, which is what the home-manager module installs. The main thread
(`main`) and the catch-up thread (`catchup`) take `stream_lock` (`lock`) and
load in steps (`load`): resolve, ensure the player, start the reader, tell mpv,
commit; each may fail, as in the code, and leaves what the code leaves. A reader
is numbered by `switch_seq` and goes through the stages of its worker thread;
its reaper is a thread of its own. `mpv` has a file it plays and one it was told
to load; it may die at any step. `ReaderHandoff` is what `--handoff` says to a
user: with "single" one uncancelled reader at a time, with "overlap" two while
one takes over. `HandoffKept` is the refinement.

mpv is modelled from how the code drives it: a pending load may be superseded
before it is opened, what it plays is drained, `shutdown_mpv` ends it.

### TabEmit

`tab-emit/init.lua` with its closures, one per socket; `WebSocket.cpp`'s posting
of callbacks to the GUI thread (`gui`), dropped when Lua has collected the
socket (`Collect`; `Kept` is what remains of a queue, in its order); the server's event loop, blocked while the follower loads. The follower
is reduced to the stream it decides for and its debounce. The server runs on
this host: a connection it does not listen for is refused at once.

### RumbleSession

`RumbleSession.cpp`, `RumbleAccountManager.cpp`, `RumbleCredentialStore.cpp`,
the sign-in and `activateSelectedAccount` of `RumbleApplicationController.cpp`,
and sending in `RumbleChannel.cpp`. All of it runs on the GUI thread: an action
is one handler with everything it calls (so does `Notified`, the changed callback
that asks every channel for its eligibility). What interleaves are answers.

* `ses` holds the requests of the current generation, `late` those of earlier
  ones. `RumbleQtAuthTransport` drops the answer to a request that was
  cancelled; the `AuthTransport` interface does not promise it, so the model
  lets it come and the generations refuse it. A message may reach Rumble
  (`Take`) although nobody waits for the answer any more.
* A credential is named by its account. A probe's answer is about the account
  whose bearer it was sent with; that is the one thing taken from the server.
* `jobs` is QKeychain's queue, which runs one job at a time in order.
* A channel is a stream, connected or not, and the rows of one's own messages.
  `fresh` of a message on its way is the comparison of `sendGeneration_`, which
  changes when the channel connects, leaves Connected or changes its stream.
* `Connect` is a whole connection, from `beginOperation` to the init batch, which
  may bring back any messages that were sent, in any order; `Realtime` may bring one again:
  EventState's de-duplication is not relied on.

### ListenerServer

`tabemit-listener.py` as asyncio runs it: `task` is where a client's handler
awaits, `tick` its ticker, `broadcasts` the copies of `CLIENTS` that broadcast
tasks still have to serve, `main` and `closing` the end of the program. An action
is what a task does between two awaits. `conn`, `stalled` and `eof` are the
transport and the peer: a drain returns when the peer reads, raises when the
connection is lost. With no line of stdin and one server, `main` "serving" from
the start, it is the follower's. The listener opens a first server and closes it
again before the one whose handlers it tracks; who was accepted by the first
(`early`) is served like the rest, but `close_all_clients` does not cancel it.
`waits` chooses whether `server.wait_closed` waits for the connections, as it
does since Python 3.12.1.

### RumbleValidation

`rumble_validation.py`, command by command. `at` is the scenario and the stage,
`req` the request in hand with its redirects and whether its deadline has
passed, `got` the reply as far as it was read, `rows` and `outcomes` the two
records of the run that `OverallIsWorst` compares. A reply is read in steps, an
event stream line by line, and the deadline's signal may come at each
(`DeadlinePasses`, then `Expire`). `post` is Rumble's side of the message: made,
taken, refused. What a page or an embed document says is an input here.

### RumblePages

`_PageHtmlParser` of the validator, with `parse_channel_page_prefix` after each
chunk and `parse_page_contract` at the end, and beside it `_PageParser` of the
plugin. The state is the two parsers' fields, so a page may be of any length.
`plugin` is the resolution after the page: metadata, playlists, the expansion of
masters.

Both parsers are `html.parser`'s and get the same tags, but they do not read the
same of them. A tag therefore carries two readings, `page` and `scan`, from the
pairs that one text can have (`Titles`, `Cards`, `Forms`, `Frames`, `Scripts`):
a card whose class is in capitals or split by other white space, or that breaks
the validator's grammar; a title that is a challenge once white space is joined,
or once references are decoded; an embed in capitals; a script beyond the 4096
values the plugin reads. `Grammars` is what the attributes do: "odd" ones break
the validator's grammar, those that name "twice" what the plugin looks at are
malformed to it. What else a tag does differently follows from the fields: the
validator skips what is inside an iframe or a title and takes a self-closing
slash for none, the plugin does neither. `unlike` counts the tags that were not
the same to both (`StartsAlike`, `SlashedAlike`, `EndsAlike`); it is history and
guards nothing but the bound `MaxUnlike`. A page is not continued once a parser
has refused it for good.

### PrIntegration

`pr_integration.py` in one piece with the repository it looks at. A call of `gh`
is a step, and open pull requests are listed in any order; anything of GitHub may change between two, as far as `MaxChanges`
allows: pushes and rebases, merges and deletions of the parent, reviews and
their dismissal, checks, rulesets, retargeting. `snap` is what was read. A commit
is a branch and a number; `has` says which of each branch a head contains, from
which the comparison's merge base follows. The request carries the expected head,
which GitHub checks, and its answer may be lost. `moved` and `ever` are history.

## 4. Runs

| run | module, specification | what it asks | distinct states |
| --- | --- | --- | --- |
| connection | RumbleConnection, FairSpec | safety and liveness together: observers that call back at each publication the code checks after, calls of other threads at every point, 3 failures to Failed, 2 calls, batches of 2, refusals and late timers; `LifecycleKept` is the refinement | 198 000 |
| connection_cleared | violation | an observer at the one publication the code does not check after | |
| follow_single | StreamFollow, Spec | 2 events, 1 reload, 1 crash of mpv, Rumble and other channels; `HandoffKept` is the refinement | 1 534 000 |
| follow_overlap | StreamFollow, FairSpec | liveness, with the other handoff and `--leave-mpv` | 172 000 |
| tab | TabEmit, FairSpec | 2 sockets alive at once, a tab change, a command, a crash of the server | 107 000 |
| listener | ListenerServer, Spec | 2 connections to either server, a broadcast, the shutdown, with peers that stall, hang up and reset | 1 072 000 |
| session | RumbleSession, Spec | 2 accounts, a sign-in, 2 selections or removals, a message, 3 connections or disconnections over 2 streams | 2 060 000 |
| validation | RumbleValidation, FairSpec | every command; 3 redirects, event streams of 3 lines | 309 000 |
| validation_attempts | violation | an exception after the message was posted | |
| pages | RumblePages, Spec | pages of any length with 2 embeds, nested twice, one tag of which the parsers take differently | 923 000 |
| pages_masters | violation | playlists of which no stream can be fetched | |
| merge | PrIntegration, Spec | 2 pull requests, a ruleset of 6 kinds, 2 changes anywhere between the calls | 4 280 000 |

Beside the listed runs there are configurations that answer a question of their
own and are run by hand: `MC_Connection_owner` and `MC_Connection_threads` take
two locators, or three calls, with safety or liveness alone (`OneActivity`,
`CancelledTimersInert`, `AttemptsBounded`, `LocatorHonoured`, `TypeOK`); those
ending in `_overtaken`, `_stale`, `_closed`, `_already`, `_followed`,
`_ambiguous`, `_retarget`, `_differ` and `_stop` are ended by TLC with a counterexample (section 5).

**Bounds, and why they are enough.** In RumbleConnection, MaxFailures is an
option of the code, and 3 is its default; two events in a batch are an init and
a message, between which the handler is cut; calls are bounded because each may
set everything back, and two let one land in the handler of the other. In
StreamFollow, two events and a reload are a load of each thread and one that
replaces either. Two sockets of TabEmit are the one in use and one whose
callbacks come late. Two connections of ListenerServer are one that is served
and one that stalls or fails while a broadcast visits both. In RumbleSession,
what goes wrong needs two accounts (one selected, one signing in), one message
in flight (the session allows no second) and three changes of a channel
(connected, lost, connected again). Three redirects are the code's limit; three
lines make an event, an event cut off and a comment between. RumblePages needs
two embeds to be ambiguous and two templates to be nested; `PagesAgree` says
something of pages without a tag that is taken differently, so that one such tag
reaches all of its boundary. Two changes on GitHub
are one that breaks what was read and one that hides it again, or a push with
the review that follows it. `Locators`, `Accounts`, `Streams` and `Embeds` are
symmetric sets, in runs without liveness. `CHECK_DEADLOCK FALSE` everywhere: a
closed channel, an exited follower, an idle plugin, a finished run of a tool do
nothing more.

**Fairness.** RumbleConnection: the owner thread goes on with a handler it began,
a timer in hand fires, resolve and catalog requests are answered (the API ends
each within its deadline; a stream need not end), a thread inside `close()` comes
out, and, strongly, a queued task is run, because Qt's loop is a FIFO that no
stream batch can overtake for ever. No fairness for calls of the application.
StreamFollow: threads that can run do, a worker's open ends or fails, mpv does
what it was told while it lives. TabEmit: timers fire, posted callbacks run and
connections are accepted (strongly, since a plugin that retries every second
disables and enables them), tickers tick, the service manager restarts the
server (`Restart=on-failure`). ListenerServer: asyncio runs a task that is ready
and closes a transport it can; nothing of the peers, so `StopEndsOncePeersLeave`
says that they leave. RumbleValidation: time passes, and the alarm interrupts;
nothing of the remote. RumbleSession claims no liveness: `BusyIsWaiting`
shows that a busy flag always has its request, and a request its 20-second
timer. PrIntegration and RumblePages claim none: `gh` may wait for ever.

## 5. Where the code and its documents disagree

The first three are runs that TLC ends with the counterexample, and
`PROJECT.json` quotes the lines; the others are the configurations above.

* **connection_cleared** `beginEmoteCatalog` publishes an empty catalog and then
  takes a new request generation without looking: an observer that reconnects in
  that publication leaves the connection with nothing to wait for.
* **validation_attempts** an exception that only `main` catches makes a report of
  no mutation attempts, also after the message was posted.
* **pages_masters** a master playlist of which no stream could be fetched is taken
  for a media playlist and offered as a stream.
* **MC_Follow_stale** a cancelled worker that blocks in opening its FIFO is never
  freed: its reaper waits, and FIFO and thread stay.
* **MC_Follow_closed** the catch-up thread may outlive the second it is joined
  for, and starts the player again after the shutdown.
* **MC_Follow_already** `switch_to` says "already following" of a destination that
  the reader does not read, after a switch that failed and a reload.
* **MC_Tab_followed** the second of two quick tab changes is dropped within the
  debounce and never repeated.
* **MC_Session_ambiguous** the outcome of a message is dropped when its channel
  has left Connected meanwhile, also when the documents ask to show it as "may
  have sent".
* **MC_Merge_retarget** a pull request that is retargeted after the query is
  merged into a base the user did not name; the request has no field for it.
* **MC_Listener_stop** with Python 3.12.1 and later, the server waits for its
  clients' connections before it closes them: it ends only when they leave.
* **MC_Pages_differ** (`AnyPageAgrees`) the validator and the plugin do not agree
  on every page. No document says that they do; the model shows one of these,
  and all of them were tried on the two parsers themselves. A first card of class
  "VideoStream" with a duration is offline to the plugin and no card to the
  validator, which then calls the channel live. The title "Just  a moment", with
  two spaces, is a challenge to the validator only. An embed in capitals, and one
  beyond the 4096th JSON value, is seen by one only. A card or an iframe inside an
  iframe is read by the plugin and skipped by the validator; a self-closed
  template or noscript ends for the plugin only.

Two smaller ones. An ended stream sets `consecutiveFailures` back
(`RumbleConnection.cpp:889`), so that the third failure in a row need not be the
one that enters Failed; `AttemptsBounded` says how many there can be, and
`FewInARow` proves it. A `restart(locator)` of another thread waits in the queue
with its epoch, and a `retry()` that the owner makes before it is run has it
dropped as the older one, with its locator (`RumbleConnection.cpp:405`,
**MC_Connection_overtaken**), although `RumbleConnection.hpp:56` says that a
replacement "then resolves the new locator". Both callers of `restart` are on the
owner's thread, where `LastLocatorUsed` proves the header right.

## 6. Proofs

**RumbleConnectionProofs.** `TypeCorrect`: `TypeOK` is inductive by itself; one
lemma for each operator that builds a state, then one for each handler. It is
worth a proof since the types hold the continuation of every suspended handler:
a frame is always one that `Continue` knows how to resume. `StopFinal`: once
`stopRequested` is set, on whichever thread, no step shows another state than
Closed or installs a request or timer. Its invariant is `TypeOK` with
`GateShut`: after a stop the callback gate is open only while `start()` is
between storing it and looking at the stop again. `QuietOnceClosed`
(`ClosedIsQuiet`) needs more of the state, `QuietInv`: a close that is queued, or
begun by another thread, already has the channel closing and its connection told
to stop (`ClosedForGood`); the stop is carried out or in the queue
(`StopOnItsWay`); what stopped holds nothing (`Released`); and a connection that
is not past the gate of `start()` has nothing to cancel, which is why its early
returns need not (`Unstarted`). Handlers that only publish are one case
(`Works`, `WorksKeeps`); starts, stops, retries and the calls of either thread
are each their own.

*Activity.* `AlwaysGoesOn` (`NeverStranded`), `StateTellsActivity`
(`StateMatchesActivity`) and `OneWayOn` (a request and a timer are never current
together, a cancelled timer never is) hold under one hypothesis, that no observer
calls back while the empty emote catalog is published (`"cleared" \notin
ReentrantAt`): it is the defect that connection_cleared shows, and nothing else
had to be excluded. `ActivityInv` says of a connection that runs what its handlers
rely on. Between handlers it is `Resting`: exactly one request, timer or queued
retry is current, and the visible state suits it. A suspended handler is either
still current, and then nothing else is and the state is the one it published
(`Going`), or it was `Superseded`, and then something else goes on. `Epochs` says
that an epoch which is not the active one is that of a start not yet over or of a
retry in the queue. The lemmas about the queue (`NoLive`, `OneLive`, `RetryIn`)
say what new generations, new tasks and the running of a task do to these.

*Lifecycle.* `LifecycleIsKept` is the refinement, with the same hypothesis, over
`TypeOK`, `QuietInv`, `ActivityInv`, `GateShut` and the order of the epochs. A
step that is no handler's leaves what is shown and is a stutter, a restart or an
end (`Calm`, `CalmSteps`); a handler that was overtaken shows nothing (`Overtaken`);
for each handler that is current, one lemma names the step of `RumbleLifecycle` it
is (`AnswerSteps`, `ContinueSteps`, `FireSteps`, ...), from where it was (`Causes`)
and what it leaves under way (`GoingDoes`, `NextSteps`).

*Attempts.* `FewInARow` bounds the attempts that fail in a row, for any
`MaxFailures` M. What is inductive is an inequality between three counters
(`Tried`): twice the streak plus e² + e is at most twice the failures plus 2eM,
for e streams that ended. An ended stream sets the failures to e, and pays for it
by raising e; `OneMoreEnd` is the arithmetic of that. `Joined` says
that a stream which sent its init has set everything back, `Spent` that at M
nothing is tried any more, only the failure still shown. The theorem holds until the
channel begins to close: a close has the handler that is under way show nothing,
so that the counter may pass M then, when nothing is tried any more.

*Locator.* `LastLocatorUsed` (`LocatorHonoured`): if only the owner's thread
calls, there never is a retry in the queue, and a retry that is refused finds the
gate closed, hence a connection that does not run.

**RumbleSessionProofs.** `NobodyElse`, `SelectedOnly` and `NothingStaysBusy`
(`IdentityOfBearer`, `SessionIsSelected`, `BusyIsWaiting`). The invariant `IInv`
adds to the three: a session is a record of the right fields (`IsSession`), a
bearer being probed is an account's, a message on its way has a number other
than 0 (so that outdating it does not make it look like no message), and the
types of accounts, jobs and bounds. `SessionIsSelected` is not inductive without
the jobs: a sign-in that is validated stays in the session until its write is
run, and `RunKeeps` and `OwnedAfterRun` say that only its own write ends that.
`RemovedAreErased` (`RemovedIsErased`) rests on `Erasing`: for every stored
credential whose account is off the list and whose erasure the keyring has not
refused, an *erase* job is queued, not merely some job of that account's; a job
leaves the queue only by being run. `OwnRowsOnce` (`OwnMessagesOnce`) is about the
channels: the rows of one are of different messages, and a row is authoritative
just when its message is no longer awaited (`Once`), so that an event upgrades the
row it finds and adds none; what is on its way or with Rumble was sent
(`Numbered`), so that the next message is new. It covers any batch of messages
that a connection brings, in any order. The lemmas are grouped by what a step may
do to the session: build a new one (`ProbingSound`, `SelectedSound`,
`ActivateSound`), keep whose it is (`Kept`), or answer a probe (`ProbeSound`).

**RumbleValidationProofs.** `PostsOnce` (`OnePost`) and `NeverDenied`
(`SendRowTrue`), for any limit on redirects and streams of any length. Neither is
inductive. `Posted` says that once a POST was made it is the request in hand and
sent, so that whatever follows is its reply or a failure, and `Place` that nothing
leads from there to another request; `Judged` says what Rumble has done by the
time the reply is judged, and of each row for the message that its observation
fits. `Types` is only as much typing as these need. The lemmas follow the code:
one for each way a stage concludes (`ConcludeStep`, `ValidationStep`), one for a
failure, one for a body.

*Verdicts.* `WorstRowCounts` (`OverallIsWorst`), `ZeroIsProof`
(`PassIsProven`) and `LateIsNoProof` (`LateProvesNothing`), over the invariant
above. `VInv` says that rows and results agree one for one (`Tally`) and, while
every result is PASS, which rows a stage has behind it when it is reached
(`Route`), so that the last return has all of them (`Shown`). What a reply comes
to is treated once, for every stage (`VerdictFits`): a verdict goes on only when
it passes, and a PASS that does not go on is an offline channel that was asked
for. `NextKinds` reduces the steps to those that judge a reply; after the
deadline that reply is a failure, which never passes (`FailureNeverPasses`).
`OneJudgement` (`ResolversAgree`) is a fact about every reply (`DiagnosedFits`),
with `DInv` for the reply that a diagnosis ends on.

**PrIntegrationProofs.** `MergesOnlyUnmoved` (`StaleIsBlocked`), for any reviewers,
checks, rulesets and number of changes. The invariant says why two guards of
different kinds are enough: a head that moved is greater than the expected one
and never comes back (`HeadSeen`), so that GitHub's own check of it, when it
merges, covers all of the run; a base that moved differs from the expected one
for good, since a branch only advances and one that is deleted stays so
(`BaseSeen`), so that the tool's last reading covers all until then. One lemma,
`ChangeKeeps`, says what a change must do; each kind of change then only has to
show it. The same lemma carries `ReportsOnlyLiveParents` (`ReadyOnLiveParent`):
`ParentSeen` says of a report that, once the child was read, its base has moved
just when the parent's branch is gone or further on, and that the parent's own
reading then shows it closed or with another head.

*Evidence.* `MergesOnlyProven` (`EvidenceOfMergedHead`), over the
invariant above. All evidence names the head it is about: what a snapshot holds
once happened to that head (`Backed`, from the `Ledger` of reviews and runs), the
snapshot that is decided on is of the expected head, `verify` makes of it what the
property says (`VerifiedIsProven`), and GitHub merges no other head. That
`RequiredApprovals` is a maximum is part of the invariant (`Bounded`, kept by
`OneMoreRule`), since rulesets are read one by one. `WellTyped` (`TypeOK`) needs that a head, a
base or a parent is never newer than the changes made so far (`Counted`), and what
is left to read at each call (`Working`).

**StreamFollowProofs.** The five properties of `follow_single`, for either
handoff, any destinations and any number of events, reloads and deaths of mpv:
`NoReaderLost`, `NoFifoLost`, `ReaderFollows`, `ShutdownIsClean` and the
refinement, `HandoffIsKept`; also `PlayerFollows` (between loads mpv is on the
current reader) and `ReloadFollows`, which no run checks by itself. None is
inductive. `Locked` says that a load is run by the thread that holds
`stream_lock`, so that nobody else changes what it holds; `Newest` that an event
or a reload pays for each reader, that the reader in a load is the last one made,
and that "single" has no other then; `Routed` that the URL recorded for a channel
is of that channel from the event to the commit, which is what makes a reload
that reads it late harmless; `Playing` and `Down` where the player and a shutdown
are. `KeptStep` treats a reader's cancellation, its progress (`Progress`) and its
end once, for both invariants. For the refinement, `LoadReader` is
`ReaderHandoff`'s `Start`: what it keeps is what `NoOrphanReader` says was held
before; every other step wakes no reader (`NoneWakes`).

**ListenerServerProofs.** `ServedAreListed` and `EndedAreForgotten`
(`ServedIsListed`, `EndedIsForgotten`), for any number of connections and of
lines, whatever `server.wait_closed` waits for. `ConnOK` relates one connection's
socket, handler, ticker and entry in `CLIENTS`: a handler past its `finally` is
out of `CLIENTS` and its ticker has ended, it is dropped only once `amain` gathers,
and a ticker fails only when its connection is lost. This is why an entry that
stays in `CLIENTS`, which happens when `await tick_task` raises and skips the
discard, is always of a lost connection: `EndedIsForgotten` allows this one entry,
which the next broadcast drops, and no other. `DropsLost` says why a
broadcast that suspends between two clients may discard what it found: what it
has put down as dead is lost, and a lost connection never comes back. Each step
is that of one connection (`Fine`), so there is a lemma for each task and
`FineKeeps` once for the others.

**TabEmitProofs.** `PluginTriesAgain` (`NeverGivesUp`) and `NothingSentInVain`
(`SendsGoSomewhere`), for any finite number of sockets, destinations, tab changes
and crashes of the server. The plugin reconnects only if the *close* of the socket
it names comes last. `Followup` says so of what is queued: once that socket is
gone, every *open* still queued, of whichever socket, is followed by that close.
`Gone` is why no other can come later: the socket the plugin names is the newest,
and what ended it left none alive. Collecting a socket takes its callbacks out of
the queue; that the others keep their order is proved from their ranks
(`RankOrder`, through cardinalities).

**RumblePagesProofs.** `NeverTakenBack` (`PrefixNeverFlips`): the fields of the
validator's parser only grow in what they can show (`Grows`), and a verdict that
the prefix gave still stands after each tag (`Standing`). `ParsersAgree`
(`PagesAgree`): on every page, of any length and depth, whose tags both parsers
take for the same, they come to the same verdict unless one refuses it: LIVE and
the same embed, or offline, or no single embed. The premise is needed: without it
the statement is false, and MC_Pages_differ shows it. What is left of it is what
the two parsers keep and decide: their states are related mode by mode
(`Together`, under `unlike = 0`): outside of everything both have read the same
(`Same`); in plaintext, a noscript or a template either both are inside, or the
plugin's stack of inert tags says how it got there; within a script neither sees a
tag. `PagesAssumption` asks that no embed be named like one of the parsers' errors.

Assumptions: `ConnectionAssumption`, `SessionAssumption` (a finite set of
accounts, bounds that are naturals, `None` none of the rest),
`ValidationAssumption` (the limits are naturals), `IntegrationAssumption` (finitely
many reviewers, rulesets that ask for a number of approvals), `ListenerAssumption`,
`FollowAssumption` (each URL has a channel, `None` is neither), `TabAssumption`
(finitely many sockets, `None` no destination), `PagesAssumption`, and the models'
own: handlers are cut at publications or awaits only, an answer to a probe is
about its bearer, the keyring runs jobs in order, GitHub merges only the head the
request names.

**Model-checked only:** the liveness properties, whose proofs need ENABLED
(`StopCompletes`, `WaitsEnd`, `RetryLeadsOn`, `CloseCompletes`, `LoopComesBack`,
`OpenedReaped`, `TabIsHeard`, `RunEnds`, `StopEndsOncePeersLeave`), and of course
the violations. Every invariant and every action property of a passing run is
proved, those of the connection's activity under the hypothesis above, which its
run satisfies (`CheckedPublications`).

## 7. Not modelled

Delays and their jitter; the grammar of URLs, JSON and attributes; the contents
of messages; the status, media type and timing of the validator's rows; the limit
of 256 streams that a session asks the eligibility of (a stream past it is not
asked for); a signal before asyncio handles it; Streamlink's and mpv's own behaviour beyond the above; the
follower's subprocess backend, URL mode, speed adjustment and lag scores;
shutdown of the application; settings on disk; the application controller's
registry, the browser sign-in, EventState, moderation, the composer. The string
audit and the closure audit are filters over text that run once. Of pages: a
script names one embed at most, raw elements other than noscript (style, textarea,
xmp and the like) are noscript, `html.parser` is that of Python 3.11, which still
delivers tags inside titles and iframes, and an end tag has no quotes, in which the
validator's own scan for the end of a tag would read on. Hazards without
a property are in `PROJECT.json` with the reason.

## 8. What is next

Point 6 of the plan: above all the application controller's lifecycles over
`RumbleLifecycle`. To prove: a bound on the attempts while a channel is closing,
and the same locator when other threads call, with the epoch of the last restart
in place of the locator itself.
