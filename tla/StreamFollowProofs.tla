-------------------------- MODULE StreamFollowProofs --------------------------
(***************************************************************************)
(* Proofs about StreamFollow, for any destinations, either handoff, and any  *)
(* number of events, reloads and deaths of the player: no reader and no FIFO *)
(* is lost, the reader, the player and the follower agree, a shutdown leaves *)
(* nothing, and the readers are those of ReaderHandoff.                      *)
(***************************************************************************)
EXTENDS StreamFollow, FiniteSetTheorems, TLAPS

\* Who holds stream_lock, and that a load is run by its holder.
Locked ==
  /\ lock = "main" <=> main.pc \in {"load", "offjoin", "downjoin"}
  /\ lock = "catchup" <=> catchup = "load"
  /\ load.step # "none" <=> main.pc = "load" \/ catchup = "load"

\* The readers that the events and reloads so far may still make.
Early == load.step \in {"resolve", "player", "reader"}
Owed ==
  (IF main.pc = "lock" \/ (main.pc = "load" /\ Early) THEN 1 ELSE 0) +
  (IF catchup = "decided" \/ (catchup = "load" /\ Early) THEN 1 ELSE 0)

\* Readers are made one after the other, and the newest is the one a load holds.
Counted == made + Owed <= env.events + env.reloads
Fresher == \A g \in Readers : g > made => reader[g] = Unborn
Current ==
  /\ fol.worker <= made
  /\ load.step \in {"file", "commit"} => load.g = made /\ made > 0
  /\ Handoff = "single" /\ load.step \in {"file", "commit"} => fol.worker = 0
Newest == Counted /\ Fresher /\ Current

\* A channel that an event, the follower or a load names has a URL, of that
\* channel; so the stream that was resolved is of the channel it is loaded for.
Routed ==
  /\ \A c \in Channels : fol.urls[c] # None => ChannelOf[fol.urls[c]] = c
  /\ main.pc = "lock" => main.dest \in Dests /\ fol.urls[ChannelOf[main.dest]] # None
  /\ fol.channel # None => fol.urls[fol.channel] # None
  /\ load.step # "none" => load.ch \in Channels /\ fol.urls[load.ch] # None
  /\ load.step \in {"player", "reader", "file", "commit"} =>
       load.url \in Dests /\ ChannelOf[load.url] = load.ch
  /\ fol.worker # 0 => fol.channel # None /\ ChannelOf[fol.plays] = fol.channel
  /\ catchup = "load" => fol.channel # None /\ load.ch = fol.channel

\* The player is on reader g, on its way to it, or idle.
PlayerOn(g) == mpv.pending = g \/ (mpv.pending = 0 /\ mpv.file \in {g, 0})
Playing ==
  /\ mpv.pending # 0 => mpv.file = 0
  /\ load.step = "commit" => PlayerOn(load.g)
  /\ load.step # "commit" /\ fol.worker # 0 => PlayerOn(fol.worker)

\* What a shutdown has done by where it is.
Down ==
  /\ main.joined => catchup = "gone"
  /\ main.pc = "exited" => catchup = "gone"
  /\ main.pc \in {"offjoin", "downjoin"} => fol.worker = 0
  /\ main.pc = "drain" /\ catchup \in {"decided", "load"} => fol.worker = 0
  /\ main.pc \in {"drain", "exited"} /\ main.joined =>
       fol.worker = 0 /\ (LeaveMpv \/ ~mpv.up)

IInv ==
  /\ TypeOK /\ Locked /\ Newest /\ Routed /\ Playing /\ Down
  /\ NoOrphanReader /\ FifoTracked

-----------------------------------------------------------------------------
(* The type invariant, by the type of each variable. *)

PCs == {"idle", "lock", "offlock", "offjoin", "load", "join", "downlock",
        "downjoin", "drain", "exited"}
MainType == [pc : PCs, dest : Dests \cup {None}, joined : BOOLEAN]
LoadType == [step : {"none", "resolve", "player", "reader", "file", "commit"},
             ch : Channels \cup {None}, dest : Dests \cup {None},
             url : Dests \cup {None}, g : Readers \cup {0}]
FolType == [channel : Channels \cup {None}, url : Dests \cup {None},
            worker : Readers \cup {0}, plays : Dests \cup {None},
            urls : [Channels -> Dests \cup {None}],
            debounce : BOOLEAN, cooldown : BOOLEAN]
OneReader == [stage : Stages, stop : BOOLEAN, fifo : BOOLEAN, reaping : BOOLEAN]
MpvType == [up : BOOLEAN, pending : Readers \cup {0}, file : Readers \cup {0}]
EnvType == [events : 0 .. MaxEvents, reloads : 0 .. MaxReloads,
            crashes : 0 .. MaxCrashes]

Typed ==
  /\ main \in MainType
  /\ catchup \in {"idle", "decided", "load", "gone"}
  /\ lock \in {"free", "main", "catchup"}
  /\ load \in LoadType
  /\ fol \in FolType
  /\ reader \in [Readers -> OneReader]
  /\ made \in 0 .. (MaxEvents + MaxReloads)
  /\ mpv \in MpvType
  /\ env \in EnvType

\* TypeOK, with the record sets named.
LEMMA TypeParts == (TypeOK <=> Typed) /\ (TypeOK <=> Typed)'
  BY Zenon DEF TypeOK, Typed, MainType, PCs, LoadType, FolType, OneReader, MpvType, EnvType

\* The updates the actions make stay in those sets.
LEMMA MainUpdates ==
  ASSUME NEW m \in MainType, NEW p \in PCs
  PROVE  /\ [m EXCEPT !.pc = p] \in MainType
         /\ \A d \in Dests \cup {None} : [m EXCEPT !.pc = p, !.dest = d] \in MainType
         /\ \A j \in BOOLEAN : [m EXCEPT !.pc = p, !.joined = j] \in MainType
  BY DEF MainType

LEMMA FolUpdates ==
  ASSUME NEW f \in FolType
  PROVE  /\ \A u \in [Channels -> Dests \cup {None}] : [f EXCEPT !.urls = u] \in FolType
         /\ \A b \in BOOLEAN : [f EXCEPT !.debounce = b] \in FolType
         /\ \A b \in BOOLEAN : [f EXCEPT !.cooldown = b] \in FolType
         /\ [f EXCEPT !.worker = 0, !.plays = None] \in FolType
         /\ [f EXCEPT !.channel = None, !.url = None, !.cooldown = FALSE] \in FolType
         /\ \A g \in Readers \cup {0}, p \in Dests \cup {None},
               c \in Channels \cup {None}, d \in Dests \cup {None} :
              /\ [f EXCEPT !.worker = g, !.plays = p, !.channel = c] \in FolType
              /\ [f EXCEPT !.worker = g, !.plays = p, !.channel = c, !.url = d,
                           !.cooldown = FALSE] \in FolType
  BY DEF FolType

LEMMA LoadUpdates ==
  ASSUME NEW l \in LoadType
  PROVE  /\ NoLoad \in LoadType
         /\ \A d \in Dests \cup {None}, c \in Channels \cup {None} :
              /\ [NoLoad EXCEPT !.step = "resolve", !.dest = d, !.ch = c] \in LoadType
              /\ [NoLoad EXCEPT !.step = "resolve", !.ch = c] \in LoadType
         /\ \A u \in Dests \cup {None} :
              [l EXCEPT !.step = "player", !.url = u] \in LoadType
         /\ [l EXCEPT !.step = "reader"] \in LoadType
         /\ [l EXCEPT !.step = "commit"] \in LoadType
         /\ \A g \in Readers \cup {0} : [l EXCEPT !.step = "file", !.g = g] \in LoadType
  BY DEF LoadType, NoLoad

LEMMA ReaderUpdates ==
  ASSUME NEW rd \in [Readers -> OneReader]
  PROVE  /\ \A g \in Readers, s \in Stages : [rd EXCEPT ![g].stage = s] \in [Readers -> OneReader]
         /\ \A g \in Readers : [rd EXCEPT ![g].fifo = FALSE, ![g].reaping = FALSE]
                                 \in [Readers -> OneReader]
         /\ \A g \in Readers \cup {0} : Cancel(rd, g) \in [Readers -> OneReader]
         /\ \A g \in Readers : [rd EXCEPT ![g] = [Unborn EXCEPT !.stage = "starting",
                                                             !.fifo = TRUE]]
                                 \in [Readers -> OneReader]
<1>1. \A r \in OneReader, s \in Stages : [r EXCEPT !.stage = s] \in OneReader
  BY DEF OneReader
<1>2. \A r \in OneReader : /\ [r EXCEPT !.fifo = FALSE, !.reaping = FALSE] \in OneReader
                            /\ [r EXCEPT !.stop = TRUE, !.reaping = TRUE] \in OneReader
  BY DEF OneReader
<1>3. [Unborn EXCEPT !.stage = "starting", !.fifo = TRUE] \in OneReader
  BY DEF OneReader, Unborn, Stages
<1>4. \A g \in Readers, s \in Stages : [rd EXCEPT ![g].stage = s] \in [Readers -> OneReader]
  BY <1>1
<1>5. \A g \in Readers : [rd EXCEPT ![g].fifo = FALSE, ![g].reaping = FALSE]
                           \in [Readers -> OneReader]
  BY <1>2
<1>6. \A g \in Readers \cup {0} : Cancel(rd, g) \in [Readers -> OneReader]
  BY <1>2 DEF Cancel
<1>7. \A g \in Readers : [rd EXCEPT ![g] = [Unborn EXCEPT !.stage = "starting", !.fifo = TRUE]]
                           \in [Readers -> OneReader]
  BY <1>3
<1> QED BY <1>4, <1>5, <1>6, <1>7

LEMMA MpvUpdates ==
  ASSUME NEW m \in MpvType
  PROVE  /\ Fresh \in MpvType
         /\ \A u \in BOOLEAN : [Fresh EXCEPT !.up = u] \in MpvType
         /\ [m EXCEPT !.pending = 0] \in MpvType
         /\ [m EXCEPT !.file = 0] \in MpvType
         /\ [m EXCEPT !.pending = 0, !.file = 0] \in MpvType
         /\ \A g \in Readers : [m EXCEPT !.pending = 0, !.file = g] \in MpvType
         /\ \A g \in Readers \cup {0} : [m EXCEPT !.pending = g, !.file = 0] \in MpvType
  BY DEF MpvType, Fresh

\* A load has a URL to resolve, and a reader to number.
LEMMA LoadRoom ==
  ASSUME TypeOK, Locked, Newest, Routed
  PROVE  /\ load.step # "none" => load.ch \in Channels /\ fol.urls[load.ch] \in Dests
         /\ load.step = "reader" => made + 1 \in Readers
<1> USE FollowAssumption DEF FollowAssumption
<1>1. load.step # "none" => load.ch \in Channels /\ fol.urls[load.ch] \in Dests
  BY DEF TypeOK, Routed
<1>2. ASSUME load.step = "reader" PROVE made + 1 \in Readers
  <2>1. Early
    BY <1>2 DEF Early
  <2>2. main.pc = "load" \/ catchup = "load"
    BY <1>2 DEF Locked
  <2>3. Owed >= 1
    BY <2>1, <2>2, SMT DEF Owed
  <2>4. made \in Nat /\ Owed \in Nat /\ env.events \in 0 .. MaxEvents
        /\ env.reloads \in 0 .. MaxReloads
    BY SMT DEF TypeOK, Owed
  <2>5. made + Owed <= env.events + env.reloads
    BY DEF Newest, Counted
  <2> QED BY <2>3, <2>4, <2>5, SMT DEF Readers
<1> QED BY <1>1, <1>2

\* Each action keeps the types, given what it is given.
LEMMA TypeStep ==
  ASSUME TypeOK, Locked, Newest, Routed, [Next]_vars
  PROVE  TypeOK'
<1> USE FollowAssumption DEF FollowAssumption
<1>t. Typed
  BY TypeParts
<1>m. \A p \in PCs :
        /\ [main EXCEPT !.pc = p] \in MainType
        /\ \A d \in Dests \cup {None} : [main EXCEPT !.pc = p, !.dest = d] \in MainType
        /\ \A j \in BOOLEAN : [main EXCEPT !.pc = p, !.joined = j] \in MainType
  BY <1>t, MainUpdates DEF Typed
<1>f. /\ \A u \in [Channels -> Dests \cup {None}] : [fol EXCEPT !.urls = u] \in FolType
      /\ \A b \in BOOLEAN : [fol EXCEPT !.debounce = b] \in FolType
      /\ \A b \in BOOLEAN : [fol EXCEPT !.cooldown = b] \in FolType
      /\ Dropped \in FolType
      /\ [fol EXCEPT !.channel = None, !.url = None, !.cooldown = FALSE] \in FolType
      /\ \A g \in Readers \cup {0}, p \in Dests \cup {None},
            c \in Channels \cup {None}, d \in Dests \cup {None} :
           /\ [fol EXCEPT !.worker = g, !.plays = p, !.channel = c] \in FolType
           /\ [fol EXCEPT !.worker = g, !.plays = p, !.channel = c, !.url = d,
                          !.cooldown = FALSE] \in FolType
  BY <1>t, FolUpdates, Zenon DEF Typed, Dropped
<1>l. /\ NoLoad \in LoadType
      /\ \A d \in Dests \cup {None}, c \in Channels \cup {None} :
           /\ [NoLoad EXCEPT !.step = "resolve", !.dest = d, !.ch = c] \in LoadType
           /\ [NoLoad EXCEPT !.step = "resolve", !.ch = c] \in LoadType
      /\ \A u \in Dests \cup {None} :
           [load EXCEPT !.step = "player", !.url = u] \in LoadType
      /\ [load EXCEPT !.step = "reader"] \in LoadType
      /\ [load EXCEPT !.step = "commit"] \in LoadType
      /\ \A g \in Readers \cup {0} : [load EXCEPT !.step = "file", !.g = g] \in LoadType
  BY <1>t, LoadUpdates, Zenon DEF Typed
<1>r. /\ \A g \in Readers, s \in Stages : [reader EXCEPT ![g].stage = s] \in [Readers -> OneReader]
      /\ \A g \in Readers : [reader EXCEPT ![g].fifo = FALSE, ![g].reaping = FALSE]
                              \in [Readers -> OneReader]
      /\ \A g \in Readers \cup {0} : Cancel(reader, g) \in [Readers -> OneReader]
  BY <1>t, ReaderUpdates, Zenon DEF Typed
<1>p. /\ Fresh \in MpvType
      /\ \A u \in BOOLEAN : [Fresh EXCEPT !.up = u] \in MpvType
      /\ [mpv EXCEPT !.pending = 0] \in MpvType
      /\ [mpv EXCEPT !.file = 0] \in MpvType
      /\ [mpv EXCEPT !.pending = 0, !.file = 0] \in MpvType
      /\ \A g \in Readers : [mpv EXCEPT !.pending = 0, !.file = g] \in MpvType
      /\ \A g \in Readers \cup {0} : [mpv EXCEPT !.pending = g, !.file = 0] \in MpvType
  BY <1>t, MpvUpdates, Zenon DEF Typed
<1>s. /\ main.dest \in Dests \cup {None}
      /\ fol.channel \in Channels \cup {None}
      /\ fol.worker \in Readers \cup {0}
      /\ load.dest \in Dests \cup {None} /\ load.url \in Dests \cup {None}
      /\ load.ch \in Channels \cup {None} /\ load.g \in Readers \cup {0}
      /\ 0 \in Readers \cup {0}
  BY DEF TypeOK
<1>o. Return => load' \in LoadType /\ main' \in MainType
                /\ catchup' \in {"idle", "decided", "load", "gone"}
  BY <1>t, <1>m, <1>l, Zenon DEF Return, Typed, PCs
<1>e. Release => /\ load' \in LoadType /\ main' \in MainType
                 /\ catchup' \in {"idle", "decided", "load", "gone"}
                 /\ lock' \in {"free", "main", "catchup"}
  BY <1>o, Zenon DEF Release
<1>d. OldDropped \in FolType /\ OldCancelled \in [Readers -> OneReader]
  BY <1>f, <1>r, <1>s, <1>t, Zenon DEF OldDropped, OldCancelled, Typed
<1> SUFFICES Typed'
  BY TypeParts
<1>1. CASE \E d \in Dests : Event(d)
  <2>1. PICK d \in Dests : Event(d)
    BY <1>1
  <2>2. main' \in MainType
    BY <2>1, <1>m, Zenon DEF Event, PCs
  <2>3. fol' \in FolType
    <3>1. [fol.urls EXCEPT ![ChannelOf[d]] = d] \in [Channels -> Dests \cup {None}]
      BY DEF TypeOK
    <3>2. fol' = [fol EXCEPT !.urls = [fol.urls EXCEPT ![ChannelOf[d]] = d]]
      BY <2>1 DEF Event
    <3> QED BY <3>1, <3>2, <1>f, Zenon
  <2>4. env' \in EnvType
    BY <2>1 DEF Event, TypeOK, EnvType
  <2> QED BY <2>1, <2>2, <2>3, <2>4, <1>t, Zenon DEF Event, Typed
<1>2. CASE OfflineEvent \/ SigTerm
  <2>1. main' \in MainType
    BY <1>2, <1>m, Zenon DEF OfflineEvent, SigTerm, PCs
  <2>2. env' \in EnvType
    BY <1>2 DEF OfflineEvent, SigTerm, TypeOK, EnvType
  <2> QED BY <1>2, <2>1, <2>2, <1>t, Zenon DEF OfflineEvent, SigTerm, Typed
<1>3. CASE DebounceOver \/ CooldownOver
  BY <1>3, <1>f, <1>t, Zenon DEF DebounceOver, CooldownOver, Typed
<1>4. CASE SkipSwitch \/ OfflineIgnored
  <2>1. main' \in MainType
    <3>1. "idle" \in PCs /\ None \in Dests \cup {None}
      BY DEF PCs
    <3>2. CASE SkipSwitch
      BY <3>1, <3>2, <1>m, Zenon DEF SkipSwitch
    <3>3. CASE OfflineIgnored
      BY <3>1, <3>3, <1>m, Zenon DEF OfflineIgnored
    <3> QED BY <1>4, <3>2, <3>3
  <2> QED BY <1>4, <2>1, <1>t, Zenon DEF SkipSwitch, OfflineIgnored, Typed
<1>5. CASE BeginSwitch
  <2>1. main' \in MainType
    BY <1>5, <1>m, Zenon DEF BeginSwitch, PCs
  <2>2. ChannelOf[main.dest] \in Channels
    BY <1>5 DEF BeginSwitch, Routed
  <2>3. load' \in LoadType
    BY <1>5, <2>2, <1>s, <1>l, Zenon DEF BeginSwitch
  <2> QED BY <1>5, <2>1, <2>3, <1>f, <1>t, Zenon DEF BeginSwitch, Typed
<1>6. CASE OfflineStop \/ ShutdownStop
  <2>1. main' \in MainType
    BY <1>6, <1>m, Zenon DEF OfflineStop, ShutdownStop, PCs
  <2> QED BY <1>6, <2>1, <1>f, <1>r, <1>s, <1>t, Zenon DEF OfflineStop, ShutdownStop, Typed
<1>7. CASE OfflineDone
  <2>1. main' \in MainType
    BY <1>7, <1>m, Zenon DEF OfflineDone, PCs
  <2>2. mpv' \in MpvType
    <3>1. mpv' = mpv \/ mpv' = [mpv EXCEPT !.pending = 0, !.file = 0]
      BY <1>7, Zenon DEF OfflineDone
    <3> QED BY <3>1, <1>p, <1>s, <1>t, Zenon DEF Typed
  <2> QED BY <1>7, <2>1, <2>2, <1>f, <1>t, Zenon DEF OfflineDone, Typed
<1>8. CASE JoinCatchup
  <2>1. main' \in MainType
    BY <1>8, <1>m, Zenon DEF JoinCatchup, PCs
  <2> QED BY <1>8, <2>1, <1>t, Zenon DEF JoinCatchup, Typed
<1>9. CASE ShutdownPlayer
  <2>1. main' \in MainType
    BY <1>9, <1>m, Zenon DEF ShutdownPlayer, PCs
  <2>2. mpv' \in MpvType
    BY <1>9, <1>p, <1>t, Zenon DEF ShutdownPlayer, Typed
  <2> QED BY <1>9, <2>1, <2>2, <1>t, Zenon DEF ShutdownPlayer, Typed
<1>10. CASE Exit
  <2>1. main' \in MainType
    BY <1>10, <1>m, Zenon DEF Exit, PCs
  <2>2. reader' \in [Readers -> OneReader]
    BY <1>10, <1>t DEF Exit, Typed, OneReader, Stages
  <2> QED BY <1>10, <2>1, <2>2, <1>l, <1>t, Zenon DEF Exit, Typed
<1>11. CASE CatchupDecide
  <2>1. env' \in EnvType
    BY <1>11 DEF CatchupDecide, TypeOK, EnvType
  <2> QED BY <1>11, <2>1, <1>t, Zenon DEF CatchupDecide, Typed
<1>12. CASE CatchupStep
  BY <1>12, <1>s, <1>l, <1>f, <1>t, Zenon DEF CatchupStep, CatchupSkip, CatchupBegin, CatchupGone, Typed
<1>13. CASE LoadResolve
  <2>1. fol.urls[load.ch] \in Dests \cup {None}
    BY <1>13, LoadRoom DEF LoadResolve
  <2> QED BY <1>13, <2>1, <1>l, <1>t, Zenon DEF LoadResolve, Typed
<1>14. CASE ResolveFails
  BY <1>14, <1>e, <1>t, Zenon DEF ResolveFails, Typed
<1>15. CASE LoadPlayer
  BY <1>15, <1>l, <1>p, <1>t, Zenon DEF LoadPlayer, Typed
<1>16. CASE PlayerFails
  BY <1>16, <1>e, <1>p, <1>t, Zenon DEF PlayerFails, Typed
<1>17. CASE LoadReader
  <2>1. made + 1 \in Readers /\ made + 1 \in 0 .. (MaxEvents + MaxReloads)
    <3>1. made + 1 \in Readers
      BY <1>17, LoadRoom DEF LoadReader
    <3> QED BY <3>1 DEF Readers
  <2>2. made' \in 0 .. (MaxEvents + MaxReloads)
    BY <1>17, <2>1 DEF LoadReader
  <2>3. reader' \in [Readers -> OneReader]
    BY <1>17, <2>1, <1>d, ReaderUpdates, Zenon DEF LoadReader
  <2>4. load' \in LoadType
    BY <1>17, <2>1, <1>l, Zenon DEF LoadReader
  <2> QED BY <1>17, <2>2, <2>3, <2>4, <1>d, <1>t, Zenon DEF LoadReader, Typed
<1>18. CASE FifoFails
  BY <1>18, <1>e, <1>d, <1>t, Zenon DEF FifoFails, Typed
<1>19. CASE LoadFile
  <2>1. mpv' \in MpvType
    BY <1>19, <1>p, <1>s, Zenon DEF LoadFile
  <2> QED BY <1>19, <2>1, <1>l, <1>t, Zenon DEF LoadFile, Typed
<1>20. CASE FileFails
  BY <1>20, <1>e, <1>r, <1>s, <1>t, Zenon DEF FileFails, Typed
<1>21. CASE LoadCommit
  <2>1. reader' \in [Readers -> OneReader]
    BY <1>21, <1>r, <1>s, <1>t, Zenon DEF LoadCommit, Typed
  <2>2. fol' \in FolType
    BY <1>21, <1>f, <1>s, Zenon DEF LoadCommit
  <2> QED BY <1>21, <2>1, <2>2, <1>e, <1>t, Zenon DEF LoadCommit, Typed
<1>22. CASE \E g \in Readers : WorkerStep(g)
  <2>1. PICK g \in Readers : WorkerStep(g)
    BY <1>22
  <2>2. OthersUnchanged
    BY <2>1, Zenon DEF WorkerStep, WorkerChecks, WorkerOpens, WorkerFails, WorkerMustEnd, WorkerEnds, Reap
  <2>3. reader' \in [Readers -> OneReader]
    <3>1. CASE \E s \in Stages : Becomes(g, s)
      BY <2>1, <3>1, <1>r DEF Becomes
    <3>2. CASE Reap(g)
      BY <2>1, <3>2, <1>r, Zenon DEF Reap
    <3>3. {"opening", "fifo", "dead"} \subseteq Stages
      BY DEF Stages
    <3>4. WorkerChecks(g) => Becomes(g, "dead") \/ Becomes(g, "opening")
      BY Zenon DEF WorkerChecks
    <3>5. WorkerOpens(g) => Becomes(g, "fifo")
      BY Zenon DEF WorkerOpens
    <3>6. WorkerFails(g) \/ WorkerMustEnd(g) \/ WorkerEnds(g) => Becomes(g, "dead")
      BY Zenon DEF WorkerFails, WorkerMustEnd, WorkerEnds
    <3> QED BY <2>1, <3>1, <3>2, <3>3, <3>4, <3>5, <3>6, Zenon DEF WorkerStep
  <2> QED BY <2>2, <2>3, <1>t, Zenon DEF OthersUnchanged, Typed
<1>23. CASE \E g \in Readers : MpvStep(g)
  <2>1. PICK g \in Readers : MpvStep(g)
    BY <1>23
  <2>2. mpv' \in MpvType
    <3>1. MpvOpens(g) => mpv' \in MpvType
      BY <2>1, <1>p, Zenon DEF MpvOpens
    <3>2. MpvMisses(g) \/ MpvEnds(g) => mpv' \in MpvType
      BY <1>p, Zenon DEF MpvMisses, MpvEnds
    <3> QED BY <2>1, <3>1, <3>2, Zenon DEF MpvStep
  <2>3. reader' \in [Readers -> OneReader]
    <3>1. "pumping" \in Stages
      BY DEF Stages
    <3>2. MpvOpens(g) => reader' \in [Readers -> OneReader]
      BY <2>1, <3>1, <1>r DEF MpvOpens, Becomes
    <3>3. MpvMisses(g) \/ MpvEnds(g) => reader' = reader
      BY Zenon DEF MpvMisses, MpvEnds
    <3> QED BY <2>1, <3>2, <3>3, <1>t, Zenon DEF MpvStep, Typed
  <2> QED BY <2>1, <2>2, <2>3, <1>t, Zenon DEF MpvStep, MpvOpens, MpvMisses, MpvEnds, Typed
<1>24. CASE MpvDies
  <2>1. env' \in EnvType
    BY <1>24 DEF MpvDies, TypeOK, EnvType
  <2> QED BY <1>24, <2>1, <1>p, <1>t, Zenon DEF MpvDies, Typed
<1>25. CASE UNCHANGED vars
  BY <1>25, <1>t, Zenon DEF vars, Typed
<1> QED BY <1>1, <1>2, <1>3, <1>4, <1>5, <1>6, <1>7, <1>8, <1>9, <1>10, <1>11, <1>12, <1>13, <1>14, <1>15, <1>16, <1>17, <1>18, <1>19, <1>20, <1>21, <1>22, <1>23, <1>24, <1>25, Zenon DEF Next, MainStep, LoadStep
-----------------------------------------------------------------------------
(* stream_lock has one holder. *)

\* stream_lock passes between the threads with the work done under it.
LEMMA LockedStep ==
  ASSUME TypeOK, Locked, [Next]_vars
  PROVE  Locked'
<1>t. main \in MainType /\ load \in LoadType
  BY TypeParts, Zenon DEF Typed
<1>n. NoLoad.step = "none"
  BY DEF NoLoad
<1>o. ASSUME Release, load.step # "none"
      PROVE  Locked'
  BY <1>o, <1>t, <1>n DEF Release, Return, Locked, MainType
<1>1. CASE \E d \in Dests : Event(d)
  BY <1>1, <1>t DEF Event, Locked, MainType
<1>2. CASE OfflineEvent \/ SigTerm
  BY <1>2, <1>t DEF OfflineEvent, SigTerm, Locked, MainType
<1>3. CASE DebounceOver \/ CooldownOver
  BY <1>3 DEF DebounceOver, CooldownOver, Locked
<1>4. CASE SkipSwitch \/ OfflineIgnored
  BY <1>4, <1>t DEF SkipSwitch, OfflineIgnored, Locked, MainType
<1>5. CASE BeginSwitch
  BY <1>5, <1>t DEF BeginSwitch, Locked, MainType, NoLoad
<1>6. CASE OfflineStop \/ ShutdownStop
  BY <1>6, <1>t DEF OfflineStop, ShutdownStop, Locked, MainType
<1>7. CASE OfflineDone
  BY <1>7, <1>t DEF OfflineDone, Locked, MainType
<1>8. CASE JoinCatchup
  BY <1>8, <1>t DEF JoinCatchup, Locked, MainType
<1>9. CASE ShutdownPlayer
  BY <1>9, <1>t DEF ShutdownPlayer, Locked, MainType
<1>10. CASE Exit
  BY <1>10, <1>t, <1>n DEF Exit, Locked, MainType
<1>11. CASE CatchupDecide
  BY <1>11, <1>t DEF CatchupDecide, Locked
<1>12. CASE CatchupStep
  BY <1>12, <1>t DEF CatchupStep, CatchupSkip, CatchupBegin, CatchupGone, Locked, NoLoad
<1>13. CASE LoadResolve \/ LoadPlayer \/ LoadReader \/ LoadFile
  <2>1. load'.step # "none" /\ load.step # "none" /\ UNCHANGED <<main, catchup, lock>>
    BY <1>13, <1>t DEF LoadResolve, LoadPlayer, LoadReader, LoadFile, LoadType
  <2> QED BY <2>1 DEF Locked
<1>14. CASE ResolveFails \/ PlayerFails \/ FifoFails \/ FileFails \/ LoadCommit
  BY <1>14, <1>o DEF ResolveFails, PlayerFails, FifoFails, FileFails, LoadCommit
<1>15. CASE (\E g \in Readers : WorkerStep(g) \/ MpvStep(g)) \/ MpvDies \/ UNCHANGED vars
  <2>1. UNCHANGED <<main, catchup, lock, load>>
    BY <1>15, Zenon DEF WorkerStep, WorkerChecks, WorkerOpens, WorkerFails, WorkerMustEnd,
       WorkerEnds, Reap, OthersUnchanged, MpvStep, MpvOpens, MpvMisses, MpvEnds, MpvDies, vars
  <2> QED BY <2>1 DEF Locked
<1> QED BY <1>1, <1>2, <1>3, <1>4, <1>5, <1>6, <1>7, <1>8, <1>9, <1>10, <1>11, <1>12, <1>13,
           <1>14, <1>15, Zenon DEF Next, MainStep, LoadStep
-----------------------------------------------------------------------------
(* The player is where the follower thinks it is. *)

\* A load takes the player along, or leaves it where it was.
LEMMA PlayingStep ==
  ASSUME TypeOK, Locked, Current, Playing, Down, [Next]_vars
  PROVE  Playing'
<1> USE FollowAssumption DEF FollowAssumption
<1>t. main \in MainType /\ load \in LoadType /\ fol \in FolType /\ mpv \in MpvType
  BY TypeParts, Zenon DEF Typed
<1>n. NoLoad.step = "none"
  BY DEF NoLoad
<1>q. 0 \notin Readers
  BY DEF Readers
<1>i. /\ Fresh.pending = 0 /\ Fresh.file = 0
      /\ \A u : [Fresh EXCEPT !.up = u].pending = 0 /\ [Fresh EXCEPT !.up = u].file = 0
  BY DEF Fresh
<1>w. OldDropped.worker \in {fol.worker, 0} /\ Dropped.worker = 0
  BY <1>t DEF OldDropped, Dropped, FolType
\* A player that has been told nothing is on any reader.
<1>a. ASSUME mpv'.pending = 0, mpv'.file = 0
      PROVE  Playing'
  BY <1>a DEF Playing, PlayerOn
<1>1. CASE (\E d \in Dests : Event(d)) \/ DebounceOver \/ CooldownOver
  <2>1. mpv' = mpv /\ load' = load /\ fol'.worker = fol.worker
    BY <1>1, <1>t DEF Event, DebounceOver, CooldownOver, FolType
  <2> QED BY <2>1 DEF Playing, PlayerOn
<1>2. CASE OfflineEvent \/ SigTerm \/ SkipSwitch \/ OfflineIgnored \/ JoinCatchup
           \/ CatchupDecide \/ CatchupSkip \/ CatchupGone \/ UNCHANGED vars
  <2>1. UNCHANGED <<mpv, load, fol>>
    BY <1>2, Zenon DEF OfflineEvent, SigTerm, SkipSwitch, OfflineIgnored, JoinCatchup,
       CatchupDecide, CatchupSkip, CatchupGone, vars
  <2> QED BY <2>1 DEF Playing, PlayerOn
<1>3. CASE BeginSwitch \/ CatchupBegin
  <2>1. mpv' = mpv /\ load'.step = "resolve" /\ fol'.worker = fol.worker
    BY <1>3, <1>t DEF BeginSwitch, CatchupBegin, FolType, NoLoad
  <2>2. load.step = "none"
    BY <1>3 DEF BeginSwitch, CatchupBegin, Locked
  <2> QED BY <2>1, <2>2 DEF Playing, PlayerOn
<1>4. CASE OfflineStop \/ ShutdownStop
  <2>1. mpv' = mpv /\ load' = load /\ fol'.worker = 0
    BY <1>4, <1>w DEF OfflineStop, ShutdownStop
  <2> QED BY <2>1 DEF Playing, PlayerOn
<1>5. CASE OfflineDone
  <2>1. mpv' \in {mpv, [mpv EXCEPT !.pending = 0, !.file = 0]}
    BY <1>5 DEF OfflineDone
  <2>2. load' = load /\ fol'.worker = fol.worker
    BY <1>5, <1>t DEF OfflineDone, FolType
  <2>3. CASE mpv' = mpv
    BY <2>2, <2>3 DEF Playing, PlayerOn
  <2>4. CASE mpv' = [mpv EXCEPT !.pending = 0, !.file = 0]
    BY <2>4, <1>t, <1>a DEF MpvType
  <2> QED BY <2>1, <2>3, <2>4
<1>6. CASE ShutdownPlayer \/ MpvDies
  <2>1. mpv' = mpv \/ (mpv'.pending = 0 /\ mpv'.file = 0)
    BY <1>6, <1>i, Zenon DEF ShutdownPlayer, MpvDies
  <2>2. load' = load /\ fol' = fol
    BY <1>6 DEF ShutdownPlayer, MpvDies
  <2> QED BY <2>1, <2>2, <1>a DEF Playing, PlayerOn
<1>7. CASE Exit
  <2>1. mpv' = mpv /\ fol' = fol /\ load'.step = "none"
    BY <1>7, <1>n DEF Exit
  <2>2. load.step # "none" => fol.worker = 0
    BY <1>7 DEF Exit, Locked, Down
  <2> QED BY <2>1, <2>2 DEF Playing, PlayerOn
<1>8. CASE LoadResolve \/ LoadReader
  <2>1. mpv' = mpv /\ load'.step # "commit" /\ fol'.worker \in {fol.worker, 0}
    BY <1>8, <1>t, <1>w DEF LoadResolve, LoadReader, LoadType
  <2>2. load.step # "commit"
    BY <1>8 DEF LoadResolve, LoadReader
  <2> QED BY <2>1, <2>2 DEF Playing, PlayerOn
<1>9. CASE ResolveFails \/ FifoFails \/ FileFails
  <2>1. mpv' = mpv /\ fol'.worker \in {fol.worker, 0} /\ load'.step = "none"
    BY <1>9, <1>n, <1>w DEF ResolveFails, FifoFails, FileFails, Release, Return
  <2>2. load.step # "commit"
    BY <1>9 DEF ResolveFails, FifoFails, FileFails
  <2> QED BY <2>1, <2>2 DEF Playing, PlayerOn
<1>10. CASE LoadPlayer
  <2>1. mpv' = mpv \/ (mpv'.pending = 0 /\ mpv'.file = 0)
    BY <1>10, <1>i, Zenon DEF LoadPlayer
  <2>2. fol' = fol /\ load.step # "commit" /\ load'.step # "commit"
    BY <1>10, <1>t DEF LoadPlayer, LoadType
  <2> QED BY <2>1, <2>2, <1>a DEF Playing, PlayerOn
<1>11. CASE PlayerFails
  <2>1. mpv'.pending = 0 /\ mpv'.file = 0
    BY <1>11, <1>i, Zenon DEF PlayerFails
  <2> QED BY <2>1, <1>a
<1>12. CASE LoadFile
  <2>1. mpv'.pending = load.g /\ mpv'.file = 0 /\ load'.step = "commit" /\ load'.g = load.g
    BY <1>12, <1>t DEF LoadFile, MpvType, LoadType
  <2> QED BY <2>1 DEF Playing, PlayerOn
<1>13. CASE LoadCommit
  <2>1. mpv' = mpv /\ fol'.worker = load.g /\ load'.step = "none" /\ load.step = "commit"
    BY <1>13, <1>t, <1>n DEF LoadCommit, Release, Return, FolType
  <2> QED BY <2>1 DEF Playing, PlayerOn
<1>14. CASE \E g \in Readers : WorkerStep(g)
  <2>1. UNCHANGED <<fol, load, mpv>>
    BY <1>14, Zenon DEF WorkerStep, WorkerChecks, WorkerOpens, WorkerFails, WorkerMustEnd,
       WorkerEnds, Reap, OthersUnchanged
  <2> QED BY <2>1 DEF Playing, PlayerOn
<1>15. CASE \E g \in Readers : MpvStep(g)
  <2>1. PICK g \in Readers : MpvStep(g)
    BY <1>15
  <2>2. UNCHANGED <<fol, load>>
    BY <2>1, Zenon DEF MpvStep, MpvOpens, MpvMisses, MpvEnds
  <2>3. CASE MpvOpens(g)
    <3>1. mpv.pending = g /\ mpv'.pending = 0 /\ mpv'.file = g
      BY <2>3, <1>t DEF MpvOpens, MpvType
    <3> QED BY <3>1, <2>2, <1>q DEF Playing, PlayerOn
  <2>4. CASE MpvMisses(g)
    <3>1. mpv.pending = g /\ mpv'.pending = 0 /\ mpv'.file = mpv.file
      BY <2>4, <1>t DEF MpvMisses, MpvType
    <3> QED BY <3>1, <2>2, <1>q, <1>a DEF Playing
  <2>5. CASE MpvEnds(g)
    <3>1. mpv'.pending = mpv.pending /\ mpv'.file = 0
      BY <2>5, <1>t DEF MpvEnds, MpvType
    <3> QED BY <3>1, <2>2 DEF Playing, PlayerOn
  <2> QED BY <2>1, <2>3, <2>4, <2>5, Zenon DEF MpvStep
<1> QED BY <1>1, <1>2, <1>3, <1>4, <1>5, <1>6, <1>7, <1>8, <1>9, <1>10, <1>11, <1>12, <1>13,
           <1>14, <1>15, Zenon DEF Next, MainStep, LoadStep, CatchupStep

-----------------------------------------------------------------------------
(* A shutdown in progress. *)

\* What a shutdown has settled stays settled.
LEMMA DownStep ==
  ASSUME TypeOK, Locked, Down, [Next]_vars
  PROVE  Down'
<1>t. main \in MainType /\ fol \in FolType /\ mpv \in MpvType
  BY TypeParts, Zenon DEF Typed
<1>l. catchup \in {"idle", "decided", "load", "gone"}
  BY DEF TypeOK
<1>w. OldDropped.worker \in {fol.worker, 0} /\ Dropped.worker = 0
  BY <1>t DEF OldDropped, Dropped, FolType
<1>1. CASE (\E d \in Dests : Event(d)) \/ OfflineEvent \/ SigTerm
  <2>1. main.pc = "idle" /\ main'.pc \in {"lock", "offlock", "join"} /\ main'.joined = main.joined
        /\ catchup' = catchup
    BY <1>1, <1>t DEF Event, OfflineEvent, SigTerm, MainType
  <2> QED BY <2>1 DEF Down
<1>2. CASE DebounceOver \/ CooldownOver
  <2>1. UNCHANGED <<main, catchup, mpv>> /\ fol'.worker = fol.worker
    BY <1>2, <1>t DEF DebounceOver, CooldownOver, FolType
  <2> QED BY <2>1 DEF Down
<1>3. CASE SkipSwitch \/ OfflineIgnored \/ BeginSwitch
  <2>1. main'.pc \in {"idle", "load"} /\ main'.joined = main.joined /\ catchup' = catchup
    BY <1>3, <1>t DEF SkipSwitch, OfflineIgnored, BeginSwitch, MainType
  <2> QED BY <2>1 DEF Down
<1>4. CASE OfflineStop \/ ShutdownStop
  <2>1. main'.pc \in {"offjoin", "downjoin"} /\ main'.joined = main.joined /\ catchup' = catchup
        /\ fol'.worker = 0
    BY <1>4, <1>t, <1>w DEF OfflineStop, ShutdownStop, MainType
  <2> QED BY <2>1 DEF Down
<1>5. CASE OfflineDone
  <2>1. main'.pc = "idle" /\ main'.joined = main.joined /\ catchup' = catchup
    BY <1>5, <1>t DEF OfflineDone, MainType
  <2> QED BY <2>1 DEF Down
<1>6. CASE JoinCatchup
  <2>1. main'.pc = "downlock" /\ main'.joined = (catchup = "gone") /\ catchup' = catchup
    BY <1>6, <1>t DEF JoinCatchup, MainType
  <2> QED BY <2>1 DEF Down
<1>7. CASE ShutdownPlayer
  <2>1. main.pc = "downjoin" /\ main'.pc = "drain" /\ main'.joined = main.joined
        /\ catchup' = catchup /\ fol' = fol
    BY <1>7, <1>t DEF ShutdownPlayer, MainType
  <2>2. LeaveMpv \/ ~mpv'.up
    BY <1>7 DEF ShutdownPlayer, Fresh
  <2> QED BY <2>1, <2>2 DEF Down
<1>8. CASE Exit
  <2>1. main.pc = "drain" /\ main'.pc = "exited" /\ main'.joined = main.joined
        /\ catchup' = "gone" /\ UNCHANGED <<fol, mpv>>
    BY <1>8, <1>t DEF Exit, MainType
  <2> QED BY <2>1 DEF Down
<1>9. CASE CatchupDecide
  <2>1. ~Stopping /\ catchup = "idle" /\ catchup' = "decided" /\ main' = main
    BY <1>9 DEF CatchupDecide
  <2>2. main.pc \notin {"offjoin", "downjoin", "drain", "exited"} \/ main.pc = "offjoin"
    BY <2>1 DEF Stopping
  <2>3. fol' = fol
    BY <1>9 DEF CatchupDecide
  <2> QED BY <2>1, <2>2, <2>3 DEF Down
<1>10. CASE CatchupSkip \/ CatchupGone
  <2>1. catchup \in {"idle", "decided"} /\ catchup' \in {"idle", "gone"} /\ UNCHANGED <<main, fol, mpv>>
    BY <1>10 DEF CatchupSkip, CatchupGone
  <2> QED BY <2>1 DEF Down
<1>11. CASE CatchupBegin
  <2>1. catchup = "decided" /\ catchup' = "load" /\ UNCHANGED <<main, mpv>>
        /\ fol'.worker = fol.worker
    BY <1>11, <1>t DEF CatchupBegin, FolType
  <2> QED BY <2>1 DEF Down
<1>12. CASE LoadStep
  <2>1. load.step # "none"
    BY <1>12, Zenon DEF LoadStep, LoadResolve, ResolveFails, LoadPlayer, PlayerFails, LoadReader,
       FifoFails, LoadFile, FileFails, LoadCommit
  <2>2. \/ /\ UNCHANGED <<main, catchup>>
           /\ fol'.worker \in {fol.worker, 0}
        \/ Return
    <3>1. LoadResolve \/ LoadPlayer \/ LoadFile => UNCHANGED <<main, catchup, fol>>
      BY Zenon DEF LoadResolve, LoadPlayer, LoadFile
    <3>2. LoadReader => UNCHANGED <<main, catchup>> /\ fol'.worker \in {fol.worker, 0}
      BY <1>w, Zenon DEF LoadReader
    <3>3. ResolveFails \/ PlayerFails \/ FifoFails \/ FileFails \/ LoadCommit => Return
      BY Zenon DEF ResolveFails, PlayerFails, FifoFails, FileFails, LoadCommit, Release
    <3> QED BY <1>12, <3>1, <3>2, <3>3 DEF LoadStep
  <2>3. CASE main.pc = "load"
    <3>1. main'.pc \in {"load", "idle"} /\ main'.joined = main.joined /\ catchup' = catchup
      BY <2>2, <2>3, <1>t DEF Return, Locked, MainType
    <3> QED BY <3>1 DEF Down
  <2>4. CASE catchup = "load" /\ main.pc # "load"
    <3>1. main' = main /\ ~main.joined /\ main.pc \notin {"exited", "offjoin", "downjoin"}
      BY <2>2, <2>4, Zenon DEF Return, Locked, Down
    <3>2. catchup' = "idle" \/ (catchup' = "load" /\ fol'.worker \in {fol.worker, 0})
      BY <2>2, <2>4, Zenon DEF Return, Locked
    <3> QED BY <2>4, <3>1, <3>2 DEF Down
  <2> QED BY <2>1, <2>3, <2>4 DEF Locked
<1>13. CASE (\E g \in Readers : WorkerStep(g) \/ MpvStep(g)) \/ UNCHANGED vars
  <2>1. UNCHANGED <<main, catchup, fol>>
    BY <1>13, Zenon DEF WorkerStep, WorkerChecks, WorkerOpens, WorkerFails, WorkerMustEnd,
       WorkerEnds, Reap, OthersUnchanged, MpvStep, MpvOpens, MpvMisses, MpvEnds, vars
  <2>2. mpv'.up = mpv.up
    BY <1>13, <1>t DEF WorkerStep, WorkerChecks, WorkerOpens, WorkerFails, WorkerMustEnd,
       WorkerEnds, Reap, OthersUnchanged, MpvStep, MpvOpens, MpvMisses, MpvEnds, vars, MpvType
  <2> QED BY <2>1, <2>2 DEF Down
<1>14. CASE MpvDies
  <2>1. UNCHANGED <<main, catchup, fol>> /\ ~mpv'.up
    BY <1>14 DEF MpvDies, Fresh
  <2> QED BY <2>1 DEF Down
<1> QED BY <1>1, <1>2, <1>3, <1>4, <1>5, <1>6, <1>7, <1>8, <1>9, <1>10, <1>11, <1>12, <1>13,
           <1>14, Zenon DEF Next, MainStep, CatchupStep
-----------------------------------------------------------------------------
(* Readers are numbered in the order they are made. *)

\* Each event or reload pays for the reader its load makes.
LEMMA CountedStep ==
  ASSUME TypeOK, Locked, Newest, [Next]_vars
  PROVE  Counted'
<1>t. main \in MainType /\ load \in LoadType /\ env \in EnvType
  BY TypeParts, Zenon DEF Typed
<1>k. made \in Nat /\ env.events \in Nat /\ env.reloads \in Nat
  BY DEF TypeOK
<1>c. Counted
  BY DEF Newest
<1>o. Owed \in 0 .. 2
  BY DEF Owed
\* What is owed, thread by thread.
<1> DEFINE OfMain == IF main.pc = "lock" \/ (main.pc = "load" /\ Early) THEN 1 ELSE 0
           OfCatchup == IF catchup = "decided" \/ (catchup = "load" /\ Early) THEN 1 ELSE 0
<1>s. Owed = OfMain + OfCatchup /\ Owed' = OfMain' + OfCatchup'
  BY DEF Owed
<1>b. OfMain \in {0, 1} /\ OfCatchup \in {0, 1} /\ OfMain' \in {0, 1} /\ OfCatchup' \in {0, 1}
  OBVIOUS
\* A step after which no more is owed, and that makes no reader.
<1>u. ASSUME made' = made, env'.events = env.events, env'.reloads = env.reloads,
             OfMain' <= OfMain, OfCatchup' <= OfCatchup
      PROVE  Counted'
  <2> HIDE DEF OfMain, OfCatchup
  <2> QED BY <1>u, <1>k, <1>c, <1>s, <1>b DEF Counted
<1>e. load.step # "none" =>
        (main.pc = "load" /\ catchup # "load" /\ lock = "main")
        \/ (main.pc # "load" /\ catchup = "load" /\ lock = "catchup")
  BY DEF Locked
<1>1. CASE \E d \in Dests : Event(d)
  <2>1. main.pc = "idle" /\ main'.pc = "lock" /\ UNCHANGED <<catchup, load, made>>
        /\ env'.events = env.events + 1 /\ env'.reloads = env.reloads
    BY <1>1, <1>t DEF Event, MainType, EnvType
  <2>2. OfMain = 0 /\ OfCatchup' = OfCatchup
    BY <2>1 DEF Early
  <2> HIDE DEF OfMain, OfCatchup
  <2> QED BY <2>1, <2>2, <1>k, <1>c, <1>s, <1>b DEF Counted
<1>2. CASE CatchupDecide
  <2>1. catchup = "idle" /\ catchup' = "decided" /\ UNCHANGED <<main, load, made>>
        /\ env'.events = env.events /\ env'.reloads = env.reloads + 1
    BY <1>2, <1>t DEF CatchupDecide, EnvType
  <2>2. OfCatchup = 0 /\ OfMain' = OfMain
    BY <2>1 DEF Early
  <2> HIDE DEF OfMain, OfCatchup
  <2> QED BY <2>1, <2>2, <1>k, <1>c, <1>s, <1>b DEF Counted
<1>3. CASE OfflineEvent
  <2>1. main.pc = "idle" /\ main'.pc = "offlock" /\ UNCHANGED <<catchup, load, made>>
        /\ env'.events = env.events + 1 /\ env'.reloads = env.reloads
    BY <1>3, <1>t DEF OfflineEvent, MainType, EnvType
  <2>2. OfMain' = 0 /\ OfCatchup' = OfCatchup
    BY <2>1 DEF Early
  <2> HIDE DEF OfMain, OfCatchup
  <2> QED BY <2>1, <2>2, <1>k, <1>c, <1>s, <1>b DEF Counted
<1>4. CASE SigTerm \/ SkipSwitch \/ OfflineIgnored \/ OfflineStop \/ OfflineDone \/ JoinCatchup
           \/ ShutdownStop \/ ShutdownPlayer
  <2>1. main'.pc \notin {"lock", "load"} /\ UNCHANGED <<catchup, load, made, env>>
    BY <1>4, <1>t DEF SigTerm, SkipSwitch, OfflineIgnored, OfflineStop, OfflineDone, JoinCatchup,
       ShutdownStop, ShutdownPlayer, MainType
  <2>2. OfMain' = 0 /\ OfCatchup' = OfCatchup
    BY <2>1 DEF Early
  <2> QED BY <2>1, <2>2, <1>u, <1>b
<1>5. CASE BeginSwitch
  <2>1. main.pc = "lock" /\ main'.pc = "load" /\ lock = "free" /\ UNCHANGED <<catchup, made, env>>
    BY <1>5, <1>t DEF BeginSwitch, MainType
  <2>2. catchup # "load"
    BY <2>1 DEF Locked
  <2>3. OfMain = 1 /\ OfCatchup' = OfCatchup
    BY <2>1, <2>2
  <2> QED BY <2>1, <2>3, <1>u, <1>b
<1>6. CASE CatchupBegin
  <2>1. catchup = "decided" /\ lock = "free" /\ catchup' = "load" /\ UNCHANGED <<main, made, env>>
    BY <1>6 DEF CatchupBegin
  <2>2. main.pc # "load"
    BY <2>1 DEF Locked
  <2>3. OfCatchup = 1 /\ OfMain' = OfMain
    BY <2>1, <2>2
  <2> QED BY <2>1, <2>3, <1>u, <1>b
<1>7. CASE CatchupSkip \/ CatchupGone
  <2>1. catchup' \notin {"decided", "load"} /\ UNCHANGED <<main, load, made, env>>
    BY <1>7 DEF CatchupSkip, CatchupGone
  <2>2. OfCatchup' = 0 /\ OfMain' = OfMain
    BY <2>1 DEF Early
  <2> QED BY <2>1, <2>2, <1>u, <1>b
<1>8. CASE Exit
  <2>1. main'.pc = "exited" /\ catchup' = "gone" /\ UNCHANGED <<made, env>>
    BY <1>8, <1>t DEF Exit, MainType
  <2>2. OfMain' = 0 /\ OfCatchup' = 0
    BY <2>1
  <2> QED BY <2>1, <2>2, <1>u, <1>b
<1>9. CASE LoadResolve \/ LoadPlayer
  <2>1. Early /\ Early' /\ UNCHANGED <<main, catchup, made, env>>
    BY <1>9, <1>t DEF LoadResolve, LoadPlayer, LoadType, Early
  <2>2. OfMain' = OfMain /\ OfCatchup' = OfCatchup
    BY <2>1
  <2> QED BY <2>1, <2>2, <1>u, <1>b
<1>10. CASE LoadReader
  <2>1. Early /\ ~Early' /\ UNCHANGED <<main, catchup, env>> /\ made' = made + 1
        /\ load.step # "none"
    BY <1>10, <1>t DEF LoadReader, LoadType, Early
  <2>2. \/ OfMain = 1 /\ OfMain' = 0 /\ OfCatchup' = OfCatchup
        \/ OfCatchup = 1 /\ OfCatchup' = 0 /\ OfMain' = OfMain
    BY <2>1, <1>e
  <2> HIDE DEF OfMain, OfCatchup
  <2> QED BY <2>1, <2>2, <1>k, <1>c, <1>s, <1>b DEF Counted
<1>11. CASE LoadFile
  <2>1. ~Early /\ ~Early' /\ UNCHANGED <<main, catchup, made, env>>
    BY <1>11, <1>t DEF LoadFile, LoadType, Early
  <2>2. OfMain' = OfMain /\ OfCatchup' = OfCatchup
    BY <2>1
  <2> QED BY <2>1, <2>2, <1>u, <1>b
<1>12. CASE ResolveFails \/ PlayerFails \/ FifoFails \/ FileFails \/ LoadCommit
  <2>1. Return /\ load.step # "none" /\ UNCHANGED <<made, env>>
    BY <1>12 DEF ResolveFails, PlayerFails, FifoFails, FileFails, LoadCommit, Release
  <2>2. CASE main.pc = "load" /\ catchup # "load" /\ lock = "main"
    <3>1. main'.pc = "idle" /\ catchup' = catchup
      BY <2>1, <2>2, <1>t DEF Return, MainType
    <3>2. OfMain' = 0 /\ OfCatchup' = OfCatchup
      BY <3>1, <2>2
    <3> QED BY <2>1, <3>2, <1>u, <1>b
  <2>3. CASE main.pc # "load" /\ catchup = "load" /\ lock = "catchup"
    <3>1. main' = main /\ catchup' = "idle"
      BY <2>1, <2>3 DEF Return
    <3>2. OfCatchup' = 0 /\ OfMain' = OfMain
      BY <3>1, <2>3
    <3> QED BY <2>1, <3>2, <1>u, <1>b
  <2> QED BY <2>1, <2>2, <2>3, <1>e
<1>13. CASE DebounceOver \/ CooldownOver
            \/ (\E g \in Readers : WorkerStep(g) \/ MpvStep(g)) \/ MpvDies \/ UNCHANGED vars
  <2>1. UNCHANGED <<main, catchup, load, made>>
    BY <1>13, Zenon DEF DebounceOver, CooldownOver, WorkerStep, WorkerChecks, WorkerOpens,
       WorkerFails, WorkerMustEnd, WorkerEnds, Reap, OthersUnchanged, MpvStep, MpvOpens, MpvMisses,
       MpvEnds, MpvDies, vars
  <2>2. env'.events = env.events /\ env'.reloads = env.reloads
    BY <1>13, <1>t DEF DebounceOver, CooldownOver, WorkerStep, WorkerChecks, WorkerOpens,
       WorkerFails, WorkerMustEnd, WorkerEnds, Reap, OthersUnchanged, MpvStep, MpvOpens, MpvMisses,
       MpvEnds, MpvDies, vars, EnvType
  <2>3. OfMain' = OfMain /\ OfCatchup' = OfCatchup
    BY <2>1 DEF Early
  <2> QED BY <2>1, <2>2, <2>3, <1>u, <1>b
<1> QED BY <1>1, <1>2, <1>3, <1>4, <1>5, <1>6, <1>7, <1>8, <1>9, <1>10, <1>11, <1>12, <1>13,
           Zenon DEF Next, MainStep, LoadStep, CatchupStep

\* What a load holds is the newest reader.
LEMMA CurrentStep ==
  ASSUME TypeOK, Locked, Newest, [Next]_vars
  PROVE  Current'
<1> USE FollowAssumption DEF FollowAssumption
<1>t. load \in LoadType /\ fol \in FolType /\ made \in Nat
  BY TypeParts DEF Typed
<1>n. NoLoad.step = "none"
  BY DEF NoLoad
<1>k. fol.worker \in Nat /\ load.g \in Nat
  BY DEF TypeOK, Readers
<1>w. OldDropped.worker \in {fol.worker, 0} /\ Dropped.worker = 0
      /\ (Handoff = "single" => OldDropped.worker = 0)
  BY <1>t DEF OldDropped, Dropped, FolType
<1>c. Current
  BY DEF Newest
\* Nothing is loaded, and the worker is as it was, or dropped.
<1>o. ASSUME load'.step \notin {"file", "commit"}, made' = made, fol'.worker \in {fol.worker, 0}
      PROVE  Current'
  BY <1>o, <1>c, <1>t DEF Current
<1>1. CASE (\E d \in Dests : Event(d)) \/ DebounceOver \/ CooldownOver \/ OfflineDone
  <2>1. UNCHANGED <<load, made>> /\ fol'.worker = fol.worker
    BY <1>1, <1>t DEF Event, DebounceOver, CooldownOver, OfflineDone, FolType
  <2> QED BY <2>1, <1>c DEF Current
<1>2. CASE OfflineEvent \/ SigTerm \/ SkipSwitch \/ OfflineIgnored \/ JoinCatchup
           \/ ShutdownPlayer \/ CatchupDecide \/ CatchupSkip \/ CatchupGone
           \/ (\E g \in Readers : WorkerStep(g) \/ MpvStep(g)) \/ MpvDies \/ UNCHANGED vars
  <2>1. UNCHANGED <<load, made, fol>>
    BY <1>2, Zenon DEF OfflineEvent, SigTerm, SkipSwitch, OfflineIgnored, JoinCatchup,
       ShutdownPlayer, CatchupDecide, CatchupSkip, CatchupGone, WorkerStep, WorkerChecks,
       WorkerOpens, WorkerFails, WorkerMustEnd, WorkerEnds, Reap, OthersUnchanged, MpvStep,
       MpvOpens, MpvMisses, MpvEnds, MpvDies, vars
  <2> QED BY <2>1, <1>c DEF Current
<1>3. CASE OfflineStop \/ ShutdownStop
  <2>1. UNCHANGED <<load, made>> /\ fol'.worker = 0
    BY <1>3, <1>w DEF OfflineStop, ShutdownStop
  <2> QED BY <2>1, <1>c, <1>t DEF Current
<1>4. CASE BeginSwitch \/ CatchupBegin
  <2>1. load'.step = "resolve" /\ made' = made /\ fol'.worker = fol.worker
    BY <1>4, <1>t DEF BeginSwitch, CatchupBegin, FolType, NoLoad
  <2> QED BY <2>1, <1>o
<1>5. CASE Exit
  <2>1. load'.step = "none" /\ UNCHANGED <<fol, made>>
    BY <1>5, <1>n DEF Exit
  <2> QED BY <2>1, <1>o
<1>6. CASE LoadResolve \/ LoadPlayer
  <2>1. load'.step \in {"player", "reader"} /\ UNCHANGED <<fol, made>>
    BY <1>6, <1>t DEF LoadResolve, LoadPlayer, LoadType
  <2> QED BY <2>1, <1>o
<1>7. CASE ResolveFails \/ PlayerFails \/ FifoFails \/ FileFails
  <2>1. load'.step = "none" /\ made' = made /\ fol'.worker \in {fol.worker, 0}
    BY <1>7, <1>n, <1>w DEF ResolveFails, PlayerFails, FifoFails, FileFails, Release, Return
  <2> QED BY <2>1, <1>o
<1>8. CASE LoadReader
  <2>1. load'.step = "file" /\ load'.g = made' /\ made' = made + 1 /\ fol' = OldDropped
    BY <1>8, <1>t DEF LoadReader, LoadType
  <2> QED BY <2>1, <1>w, <1>c, <1>t, <1>k DEF Current
<1>9. CASE LoadFile
  <2>1. load.step = "file" /\ load'.g = load.g /\ UNCHANGED <<fol, made>>
    BY <1>9, <1>t DEF LoadFile, LoadType
  <2> QED BY <2>1, <1>c DEF Current
<1>10. CASE LoadCommit
  <2>1. load.step = "commit" /\ load'.step = "none" /\ made' = made /\ fol'.worker = load.g
    BY <1>10, <1>t, <1>n DEF LoadCommit, Release, Return, FolType
  <2> QED BY <2>1, <1>c, <1>t DEF Current
<1> QED BY <1>1, <1>2, <1>3, <1>4, <1>5, <1>6, <1>7, <1>8, <1>9, <1>10,
           Zenon DEF Next, MainStep, LoadStep, CatchupStep
\* What Cancel does to each reader.
LEMMA CancelAt ==
  ASSUME NEW rd \in [Readers -> OneReader], NEW w \in Readers \cup {0}, NEW g \in Readers
  PROVE  /\ Cancel(rd, w)[g] \in OneReader
         /\ g # w => Cancel(rd, w)[g] = rd[g]
         /\ g = w => /\ Cancel(rd, w)[g].stop = TRUE
                     /\ Cancel(rd, w)[g].reaping = TRUE
         /\ Cancel(rd, w)[g].stage = rd[g].stage
         /\ Cancel(rd, w)[g].fifo = rd[g].fifo
<1>1. Cancel(rd, w) \in [Readers -> OneReader]
  BY ReaderUpdates
<1>2. 0 \notin Readers
  BY DEF Readers
<1> QED BY <1>1, <1>2 DEF Cancel, OneReader

\* g, which runs or is reaped, gets further; the other readers are as they were.
Progress(g) ==
  /\ reader[g].stage # "none" \/ reader[g].reaping
  /\ \A h \in Readers : h # g => reader'[h] = reader[h]
  /\ Alive(g)' => Alive(g)
  /\ reader'[g].stop = reader[g].stop
  /\ \/ reader'[g].fifo = reader[g].fifo /\ reader'[g].reaping = reader[g].reaping
     \/ reader'[g].fifo = FALSE

\* A worker step, or mpv opening the FIFO, is the progress of that reader.
LEMMA ProgressStep ==
  ASSUME TypeOK, NEW g \in Readers, WorkerStep(g) \/ MpvOpens(g)
  PROVE  Progress(g)
<1>t. reader \in [Readers -> OneReader]
  BY TypeParts, Zenon DEF Typed
<1>1. ASSUME NEW s \in Stages, Becomes(g, s), reader[g].stage # "none",
             s \in {"starting", "opening", "fifo", "pumping"} => Alive(g)
      PROVE  Progress(g)
  <2>1. \A h \in Readers : h # g => reader'[h] = reader[h]
    BY <1>1, <1>t DEF Becomes
  <2>2. /\ reader'[g].stage = s /\ reader'[g].stop = reader[g].stop
        /\ reader'[g].fifo = reader[g].fifo /\ reader'[g].reaping = reader[g].reaping
    BY <1>1, <1>t DEF Becomes, OneReader
  <2>3. Alive(g)' => Alive(g)
    BY <1>1, <2>2 DEF Alive, Stages
  <2> QED BY <1>1, <2>1, <2>2, <2>3, Zenon DEF Progress
<1>2. CASE Reap(g)
  <2>1. reader[g].reaping /\ reader[g].stage = "dead"
    BY <1>2 DEF Reap
  <2>2. \A h \in Readers : h # g => reader'[h] = reader[h]
    BY <1>2, <1>t DEF Reap
  <2>3. reader'[g].stage = reader[g].stage /\ reader'[g].stop = reader[g].stop
        /\ reader'[g].fifo = FALSE
    BY <1>2, <1>t DEF Reap, OneReader
  <2>4. Alive(g)' => Alive(g)
    BY <2>3 DEF Alive
  <2> QED BY <2>1, <2>2, <2>3, <2>4, Zenon DEF Progress
<1>3. CASE WorkerChecks(g) \/ WorkerOpens(g) \/ WorkerFails(g) \/ WorkerMustEnd(g)
           \/ WorkerEnds(g) \/ MpvOpens(g)
  <2>1. PICK s \in {"opening", "fifo", "dead", "pumping"} : Becomes(g, s)
    BY <1>3, Zenon DEF WorkerChecks, WorkerOpens, WorkerFails, WorkerMustEnd, WorkerEnds, MpvOpens
  <2>2. Alive(g) /\ reader[g].stage # "none"
    BY <1>3 DEF WorkerChecks, WorkerOpens, WorkerFails, WorkerMustEnd, WorkerEnds, MpvOpens, Alive
  <2>3. s \in Stages
    BY DEF Stages
  <2> QED BY <2>1, <2>2, <2>3, <1>1, Zenon
<1> QED BY <1>2, <1>3, Zenon DEF WorkerStep

\* A number not given out yet is nobody's.
LEMMA FresherStep ==
  ASSUME TypeOK, Locked, Newest, Routed, [Next]_vars
  PROVE  Fresher'
<1>t. reader \in [Readers -> OneReader] /\ made \in Nat
      /\ fol.worker \in Readers \cup {0} /\ load.g \in Readers \cup {0}
  BY DEF TypeOK, OneReader
<1>c. Fresher /\ fol.worker <= made
      /\ (load.step \in {"file", "commit"} => load.g = made)
  BY DEF Newest, Current
<1>q. \A g \in Readers : g \in Nat
  BY DEF Readers
<1>1. ASSUME made' = made, NEW w \in Readers \cup {0}, w <= made, reader' = Cancel(reader, w)
      PROVE  Fresher'
  <2> SUFFICES ASSUME NEW g \in Readers, g > made PROVE reader'[g] = Unborn
    BY <1>1 DEF Fresher
  <2>1. g # w
    BY <1>1, <1>q, <1>t
  <2>2. reader'[g] = reader[g]
    BY <1>1, <2>1, <1>t, CancelAt
  <2> QED BY <2>2, <1>c DEF Fresher
<1>2. ASSUME UNCHANGED <<made, reader>>
      PROVE  Fresher'
  BY <1>2, <1>c DEF Fresher
<1>3. CASE OfflineStop \/ ShutdownStop
  BY <1>3, <1>1, <1>c, <1>t DEF OfflineStop, ShutdownStop
<1>4. CASE FifoFails
  BY <1>4, <1>1, <1>2, <1>c, <1>t DEF FifoFails, OldCancelled
<1>5. CASE FileFails
  <2>1. load.g = made
    BY <1>5, <1>c DEF FileFails
  <2> QED BY <1>5, <2>1, <1>1, <1>t DEF FileFails
<1>6. CASE LoadCommit
  BY <1>6, <1>1, <1>2, <1>c, <1>t DEF LoadCommit
<1>7. CASE LoadReader
  <2> SUFFICES ASSUME NEW g \in Readers, g > made' PROVE reader'[g] = Unborn
    BY DEF Fresher
  <2>1. g > made /\ g # made + 1 /\ g # fol.worker
    BY <1>7, <1>q, <1>t, <1>c DEF LoadReader
  <2>2. OldCancelled \in [Readers -> OneReader] /\ OldCancelled[g] = reader[g]
    <3>1. CASE Handoff = "single"
      <4>1. OldCancelled = Cancel(reader, fol.worker)
        BY <3>1 DEF OldCancelled
      <4>2. Cancel(reader, fol.worker)[g] = reader[g]
        BY <2>1, <1>t, CancelAt
      <4>3. Cancel(reader, fol.worker) \in [Readers -> OneReader]
        BY <1>t, ReaderUpdates
      <4> QED BY <4>1, <4>2, <4>3
    <3>2. CASE Handoff # "single"
      BY <3>2, <1>t DEF OldCancelled
    <3> QED BY <3>1, <3>2
  <2>3. reader'[g] = OldCancelled[g]
    BY <1>7, <2>1, <2>2 DEF LoadReader
  <2> QED BY <2>1, <2>2, <2>3, <1>c DEF Fresher
<1>8. CASE Exit
  <2> SUFFICES ASSUME NEW g \in Readers, g > made PROVE reader'[g] = Unborn
    BY <1>8 DEF Fresher, Exit
  <2>1. reader[g] = Unborn
    BY <1>c DEF Fresher
  <2>2. ~Alive(g)
    BY <2>1 DEF Alive, Unborn
  <2>3. reader'[g] = [Unborn EXCEPT !.reaping = FALSE]
    BY <1>8, <2>1, <2>2 DEF Exit
  <2> QED BY <2>3 DEF Unborn
<1>9. CASE \E g \in Readers : WorkerStep(g) \/ MpvOpens(g)
  <2>1. PICK h \in Readers : WorkerStep(h) \/ MpvOpens(h)
    BY <1>9
  <2>2. Progress(h)
    BY <2>1, ProgressStep, Zenon
  <2>3. made' = made
    BY <2>1, Zenon DEF WorkerStep, WorkerChecks, WorkerOpens, WorkerFails, WorkerMustEnd,
       WorkerEnds, Reap, OthersUnchanged, MpvOpens
  <2> SUFFICES ASSUME NEW g \in Readers, g > made PROVE reader'[g] = Unborn
    BY <2>3 DEF Fresher
  <2>4. reader[g] = Unborn
    BY <1>c DEF Fresher
  <2>5. reader[g].stage = "none" /\ reader[g].reaping = FALSE
    BY <2>4 DEF Unborn
  <2>6. g # h
    BY <2>2, <2>5 DEF Progress
  <2> QED BY <2>2, <2>4, <2>6 DEF Progress
<1>10. CASE UNCHANGED <<made, reader>>
  BY <1>10, <1>2
<1>11. \/ (\E d \in Dests : Event(d)) \/ OfflineEvent \/ SigTerm \/ DebounceOver \/ CooldownOver
       \/ SkipSwitch \/ BeginSwitch \/ OfflineIgnored \/ OfflineDone \/ JoinCatchup
       \/ ShutdownPlayer \/ CatchupDecide \/ CatchupStep \/ LoadResolve \/ ResolveFails
       \/ LoadPlayer \/ PlayerFails \/ LoadFile \/ MpvDies \/ UNCHANGED vars
       \/ (\E g \in Readers : MpvMisses(g) \/ MpvEnds(g))
       => UNCHANGED <<made, reader>>
  BY Zenon DEF Event, OfflineEvent, SigTerm, DebounceOver, CooldownOver, SkipSwitch, BeginSwitch,
     OfflineIgnored, OfflineDone, JoinCatchup, ShutdownPlayer, CatchupDecide, CatchupStep,
     CatchupSkip, CatchupBegin, CatchupGone, LoadResolve, ResolveFails, LoadPlayer, PlayerFails,
     LoadFile, MpvDies, vars, MpvMisses, MpvEnds
<1> QED BY <1>3, <1>4, <1>5, <1>6, <1>7, <1>8, <1>9, <1>10, <1>11,
           Zenon DEF Next, MainStep, LoadStep, MpvStep
-----------------------------------------------------------------------------
(* No reader is lost, and no FIFO. *)

\* Both for one reader: uncancelled only if held, on disk only if held or reaped.
Kept(g) ==
  /\ Active(g) => Held(g)
  /\ main.pc # "exited" => (reader[g].fifo => Held(g) \/ reader[g].reaping)

\* NoOrphanReader and FifoTracked are Kept of every reader.
LEMMA KeptParts ==
  (NoOrphanReader /\ FifoTracked <=> \A g \in Readers : Kept(g))
  /\ (NoOrphanReader /\ FifoTracked <=> \A g \in Readers : Kept(g))'
  BY Zenon DEF NoOrphanReader, FifoTracked, Kept

\* A reader is taken from the follower only with its stop event set and a reaper.
LEMMA KeptStep ==
  ASSUME TypeOK, Locked, Newest, Routed, [Next]_vars, NEW g \in Readers,
         \A h \in Readers : Kept(h)
  PROVE  Kept(g)'
<1>t. /\ reader \in [Readers -> OneReader] /\ made \in Nat
      /\ fol.worker \in Readers \cup {0} /\ load.g \in Readers \cup {0}
      /\ main \in MainType /\ load \in LoadType /\ fol \in FolType
  BY TypeParts DEF Typed, FolType, LoadType
<1>c. Current
  BY DEF Newest
<1>q. 0 \notin Readers /\ \A h \in Readers : h \in Nat
  BY DEF Readers
<1>n. NoLoad.step = "none"
  BY DEF NoLoad
<1>w. Dropped.worker = 0
  BY <1>t DEF Dropped, FolType
<1>r. Return => lock = "main" \/ main' = main
  BY DEF Return
<1>x. ASSUME main.pc = "exited"
      PROVE  main' = main
  <2>1. ~(\E d \in Dests : Event(d)) /\ ~OfflineEvent /\ ~SigTerm
    BY <1>x DEF Event, OfflineEvent, SigTerm
  <2>2. ~MainStep
    BY <1>x DEF MainStep, SkipSwitch, BeginSwitch, OfflineIgnored, OfflineStop, OfflineDone,
       JoinCatchup, ShutdownStop, ShutdownPlayer, Exit
  <2>3. lock # "main"
    BY <1>x DEF Locked
  <2>4. LoadStep => main' = main
    BY <2>3, <1>r, Zenon DEF LoadStep, LoadResolve, ResolveFails, LoadPlayer, PlayerFails,
       LoadReader, FifoFails, LoadFile, FileFails, LoadCommit, Release
  <2>5. DebounceOver \/ CooldownOver \/ CatchupDecide \/ CatchupStep \/ MpvDies \/ UNCHANGED vars
        => main' = main
    BY Zenon DEF DebounceOver, CooldownOver, CatchupDecide, CatchupStep, CatchupSkip,
       CatchupBegin, CatchupGone, MpvDies, vars
  <2>6. (\E h \in Readers : WorkerStep(h) \/ MpvStep(h)) => main' = main
    BY Zenon DEF WorkerStep, WorkerChecks, WorkerOpens, WorkerFails, WorkerMustEnd, WorkerEnds,
       Reap, OthersUnchanged, MpvStep, MpvOpens, MpvMisses, MpvEnds
  <2> QED BY <2>1, <2>2, <2>4, <2>5, <2>6, Zenon DEF Next
<1>k. Kept(g)
  OBVIOUS
\* g is as it was, and held if it was.
<1>s. ASSUME reader'[g] = reader[g], Held(g) => Held(g)'
      PROVE  Kept(g)'
  BY <1>s, <1>k, <1>x, Zenon DEF Kept, Active, Alive
\* g has been cancelled.
<1>z. ASSUME reader'[g].stop, reader'[g].reaping
      PROVE  Kept(g)'
  BY <1>z, Zenon DEF Kept, Active
\* Between loads, and early in one, the reader held is the current one.
<1>h. load.step \notin {"file", "commit"} => (Held(g) <=> g = fol.worker)
  BY DEF Held
<1>f. lock = "free" => load.step = "none"
  BY DEF Locked
<1>1. CASE (\E d \in Dests : Event(d)) \/ DebounceOver \/ CooldownOver \/ OfflineDone
  <2>1. UNCHANGED <<load, reader>> /\ fol'.worker = fol.worker
    BY <1>1, <1>t DEF Event, DebounceOver, CooldownOver, OfflineDone, FolType
  <2> QED BY <2>1, <1>s DEF Held
<1>2. CASE OfflineEvent \/ SigTerm \/ SkipSwitch \/ OfflineIgnored \/ JoinCatchup
           \/ ShutdownPlayer \/ CatchupDecide \/ CatchupSkip \/ CatchupGone
           \/ (\E h \in Readers : MpvMisses(h) \/ MpvEnds(h)) \/ MpvDies \/ UNCHANGED vars
  <2>1. UNCHANGED <<load, reader, fol>>
    BY <1>2, Zenon DEF OfflineEvent, SigTerm, SkipSwitch, OfflineIgnored, JoinCatchup,
       ShutdownPlayer, CatchupDecide, CatchupSkip, CatchupGone, MpvMisses, MpvEnds, MpvDies, vars
  <2> QED BY <2>1, <1>s DEF Held
<1>3. CASE BeginSwitch \/ CatchupBegin
  <2>1. lock = "free" /\ reader' = reader /\ fol'.worker = fol.worker
    BY <1>3, <1>t DEF BeginSwitch, CatchupBegin, FolType
  <2> QED BY <2>1, <1>s, <1>h, <1>f DEF Held
<1>4. CASE OfflineStop \/ ShutdownStop
  <2>1. lock = "free" /\ reader' = Cancel(reader, fol.worker)
    BY <1>4 DEF OfflineStop, ShutdownStop
  <2>2. CASE g = fol.worker
    BY <2>1, <2>2, <1>t, <1>z, CancelAt
  <2>3. CASE g # fol.worker
    BY <2>1, <2>3, <1>t, <1>s, <1>h, <1>f, CancelAt
  <2> QED BY <2>2, <2>3
<1>5. CASE LoadResolve \/ LoadPlayer \/ ResolveFails \/ PlayerFails
  <2>1. load.step \notin {"file", "commit"} /\ UNCHANGED <<fol, reader>>
    BY <1>5 DEF LoadResolve, LoadPlayer, ResolveFails, PlayerFails
  <2> QED BY <2>1, <1>s, <1>h DEF Held
<1>6. CASE LoadFile
  <2>1. load.step = "file" /\ load'.step = "commit" /\ load'.g = load.g /\ UNCHANGED <<fol, reader>>
    BY <1>6, <1>t DEF LoadFile, LoadType
  <2> QED BY <2>1, <1>s DEF Held
<1>7. CASE FifoFails \/ LoadReader
  <2>1. load.step = "reader" /\ fol' = OldDropped
    BY <1>7 DEF FifoFails, LoadReader
  <2>2. CASE g = made + 1 /\ LoadReader
    <3>1. load'.step = "file" /\ load'.g = made + 1
      BY <2>2, <1>t DEF LoadReader, LoadType
    <3> QED BY <3>1, <2>2 DEF Kept, Held
  <2>3. CASE ~(g = made + 1 /\ LoadReader)
    <3>1. OldCancelled \in [Readers -> OneReader]
      BY <1>t, ReaderUpdates DEF OldCancelled
    <3>2. reader'[g] = OldCancelled[g]
      BY <1>7, <2>3, <3>1 DEF FifoFails, LoadReader
    <3>3. CASE Handoff = "single"
      <4>1. reader'[g] = Cancel(reader, fol.worker)[g]
        BY <3>2, <3>3 DEF OldCancelled
      <4>2. CASE g = fol.worker
        BY <4>1, <4>2, <1>t, <1>z, CancelAt
      <4>3. CASE g # fol.worker
        BY <4>1, <4>3, <2>1, <1>t, <1>s, <1>h, CancelAt
      <4> QED BY <4>2, <4>3
    <3>4. CASE Handoff # "single"
      <4>1. reader'[g] = reader[g] /\ fol' = fol
        BY <2>1, <3>2, <3>4 DEF OldCancelled, OldDropped
      <4> QED BY <4>1, <2>1, <1>s, <1>h DEF Held
    <3> QED BY <3>3, <3>4
  <2> QED BY <1>7, <2>2, <2>3
<1>8. CASE FileFails
  <2>1. reader' = Cancel(reader, load.g) /\ fol' = fol
    BY <1>8 DEF FileFails
  <2>2. CASE g = load.g
    BY <2>1, <2>2, <1>t, <1>z, CancelAt
  <2>3. CASE g # load.g
    <3>1. reader'[g] = reader[g]
      BY <2>1, <2>3, <1>t, CancelAt
    <3> QED BY <3>1, <2>1, <2>3, <1>s DEF Held
  <2> QED BY <2>2, <2>3
<1>9. CASE LoadCommit
  <2>1. load.step = "commit" /\ fol'.worker = load.g
    BY <1>9, <1>t DEF LoadCommit, FolType
  <2>2. CASE g = load.g
    BY <2>1, <2>2, Zenon DEF Kept, Held
  <2>3. CASE g # load.g /\ g # fol.worker
    <3>1. reader'[g] = reader[g]
      BY <1>9, <2>3, <1>t, CancelAt DEF LoadCommit
    <3> QED BY <3>1, <2>3, <1>s DEF Held
  <2>4. CASE g = fol.worker
    <3>1. Handoff = "overlap"
      BY <2>1, <2>4, <1>c, <1>q, FollowAssumption DEF Current, FollowAssumption
    <3>2. reader' = Cancel(reader, fol.worker)
      BY <1>9, <3>1 DEF LoadCommit
    <3> QED BY <3>2, <2>4, <1>t, <1>z, CancelAt
  <2> QED BY <2>2, <2>3, <2>4
<1>10. CASE Exit
  <2>1. main'.pc = "exited"
    BY <1>10, <1>t DEF Exit, MainType
  <2>2. reader'[g].stage \notin {"starting", "opening", "fifo", "pumping"}
    BY <1>10, <1>t DEF Exit, Alive, OneReader
  <2> QED BY <2>1, <2>2 DEF Kept, Active, Alive
<1>11. CASE \E h \in Readers : WorkerStep(h) \/ MpvOpens(h)
  <2>1. PICK h \in Readers : WorkerStep(h) \/ MpvOpens(h)
    BY <1>11
  <2>2. Progress(h)
    BY <2>1, ProgressStep, Zenon
  <2>3. UNCHANGED <<main, load, fol>>
    BY <2>1, Zenon DEF WorkerStep, WorkerChecks, WorkerOpens, WorkerFails, WorkerMustEnd,
       WorkerEnds, Reap, OthersUnchanged, MpvOpens
  <2>4. CASE g # h
    <3>1. reader'[g] = reader[g]
      BY <2>2, <2>4, Zenon DEF Progress
    <3> QED BY <3>1, <2>3, <1>s DEF Held
  <2>5. CASE g = h
    <3>1. Active(g)' => Active(g)
      BY <2>2, <2>5, Zenon DEF Progress, Active
    <3>2. reader'[g].fifo => reader[g].fifo /\ reader'[g].reaping = reader[g].reaping
      BY <2>2, <2>5, Zenon DEF Progress
    <3>3. Held(g) => Held(g)'
      BY <2>3 DEF Held
    <3> QED BY <3>1, <3>2, <3>3, <2>3, <1>k, Zenon DEF Kept
  <2> QED BY <2>4, <2>5
<1> QED BY <1>1, <1>2, <1>3, <1>4, <1>5, <1>6, <1>7, <1>8, <1>9, <1>10, <1>11,
           Zenon DEF Next, MainStep, LoadStep, CatchupStep, MpvStep
-----------------------------------------------------------------------------
(* Streams are of the channel they are loaded for. *)

\* Events, loads and reloads agree on the URL of a channel.
LEMMA RoutedStep ==
  ASSUME TypeOK, Locked, Routed, Down, [Next]_vars
  PROVE  Routed'
<1> USE FollowAssumption DEF FollowAssumption
<1>t. main \in MainType /\ load \in LoadType /\ fol \in FolType
  BY TypeParts, Zenon DEF Typed
<1>n. NoLoad.step = "none"
  BY DEF NoLoad
<1>w. /\ Dropped.worker = 0 /\ Dropped.channel = fol.channel /\ Dropped.urls = fol.urls
      /\ OldDropped.channel = fol.channel /\ OldDropped.urls = fol.urls
      /\ OldDropped.worker = 0 \/ OldDropped = fol
  BY <1>t DEF Dropped, OldDropped, FolType
<1>f. lock = "free" => load.step = "none" /\ catchup # "load"
  BY DEF Locked
<1>1. CASE \E d \in Dests : Event(d)
  <2>1. PICK d \in Dests : Event(d)
    BY <1>1
  <2>2. /\ main'.pc = "lock" /\ main'.dest = d
        /\ fol'.urls = [fol.urls EXCEPT ![ChannelOf[d]] = d]
        /\ fol'.channel = fol.channel /\ fol'.worker = fol.worker /\ fol'.plays = fol.plays
        /\ UNCHANGED <<load, catchup>>
    BY <2>1, <1>t DEF Event, MainType, FolType
  <2>3. ChannelOf[d] \in Channels /\ fol.urls \in [Channels -> Dests \cup {None}]
    BY DEF TypeOK
  <2>4. /\ \A c \in Channels : fol.urls[c] # None => fol'.urls[c] # None
        /\ fol'.urls[ChannelOf[d]] = d /\ d # None
        /\ \A c \in Channels : c # ChannelOf[d] => fol'.urls[c] = fol.urls[c]
    BY <2>2, <2>3
  <2>5. \A c \in Channels : fol'.urls[c] # None => ChannelOf[fol'.urls[c]] = c
    BY <2>4 DEF Routed
  <2>6. fol.channel \in Channels \cup {None} /\ load.ch \in Channels \cup {None}
    BY <1>t DEF FolType, LoadType
  <2> QED BY <2>2, <2>4, <2>5, <2>6 DEF Routed
<1>2. CASE OfflineEvent \/ SigTerm \/ SkipSwitch \/ OfflineIgnored \/ JoinCatchup
           \/ ShutdownPlayer \/ CatchupDecide \/ CatchupSkip \/ CatchupGone
           \/ (\E h \in Readers : WorkerStep(h) \/ MpvStep(h)) \/ MpvDies \/ UNCHANGED vars
  <2>1. UNCHANGED <<load, fol>>
    BY <1>2, Zenon DEF OfflineEvent, SigTerm, SkipSwitch, OfflineIgnored, JoinCatchup,
       ShutdownPlayer, CatchupDecide, CatchupSkip, CatchupGone, WorkerStep, WorkerChecks,
       WorkerOpens, WorkerFails, WorkerMustEnd, WorkerEnds, Reap, OthersUnchanged, MpvStep,
       MpvOpens, MpvMisses, MpvEnds, MpvDies, vars
  <2>2. main' = main \/ main'.pc # "lock"
    BY <1>2, <1>t DEF OfflineEvent, SigTerm, SkipSwitch, OfflineIgnored, JoinCatchup,
       ShutdownPlayer, CatchupDecide, CatchupSkip, CatchupGone, WorkerStep, WorkerChecks,
       WorkerOpens, WorkerFails, WorkerMustEnd, WorkerEnds, Reap, OthersUnchanged, MpvStep,
       MpvOpens, MpvMisses, MpvEnds, MpvDies, vars, MainType
  <2>3. catchup' = catchup \/ catchup' # "load"
    BY <1>2 DEF OfflineEvent, SigTerm, SkipSwitch, OfflineIgnored, JoinCatchup,
       ShutdownPlayer, CatchupDecide, CatchupSkip, CatchupGone, WorkerStep, WorkerChecks,
       WorkerOpens, WorkerFails, WorkerMustEnd, WorkerEnds, Reap, OthersUnchanged, MpvStep,
       MpvOpens, MpvMisses, MpvEnds, MpvDies, vars
  <2> QED BY <2>1, <2>2, <2>3 DEF Routed
<1>3. CASE DebounceOver \/ CooldownOver
  <2>1. /\ UNCHANGED <<main, catchup, load>>
        /\ fol'.urls = fol.urls /\ fol'.channel = fol.channel
        /\ fol'.worker = fol.worker /\ fol'.plays = fol.plays
    BY <1>3, <1>t DEF DebounceOver, CooldownOver, FolType
  <2> QED BY <2>1 DEF Routed
<1>4. CASE BeginSwitch
  <2>1. /\ load'.step = "resolve" /\ load'.ch = ChannelOf[main.dest] /\ main'.pc = "load"
        /\ lock = "free" /\ main.pc = "lock"
    BY <1>4, <1>t DEF BeginSwitch, NoLoad, MainType
  <2>2. /\ catchup' = catchup /\ fol'.urls = fol.urls /\ fol'.channel = fol.channel
        /\ fol'.worker = fol.worker /\ fol'.plays = fol.plays
    BY <1>4, <1>t DEF BeginSwitch, FolType
  <2>3. main.dest \in Dests /\ fol.urls[ChannelOf[main.dest]] # None
    BY <2>1 DEF Routed
  <2> QED BY <2>1, <2>2, <2>3, <1>f DEF Routed
<1>5. CASE CatchupBegin
  <2>1. /\ load'.step = "resolve" /\ load'.ch = fol.channel /\ fol.channel # None
        /\ main' = main
    BY <1>5 DEF CatchupBegin, NoLoad
  <2>2. /\ fol'.urls = fol.urls /\ fol'.channel = fol.channel
        /\ fol'.worker = fol.worker /\ fol'.plays = fol.plays
    BY <1>5, <1>t DEF CatchupBegin, FolType
  <2>3. fol.channel \in Channels
    BY <2>1, <1>t DEF FolType
  <2> QED BY <2>1, <2>2, <2>3 DEF Routed
<1>6. CASE OfflineStop \/ ShutdownStop
  <2>1. main'.pc # "lock" /\ fol' = Dropped /\ UNCHANGED <<catchup, load>>
    BY <1>6, <1>t DEF OfflineStop, ShutdownStop, MainType
  <2> QED BY <2>1, <1>w DEF Routed
<1>7. CASE OfflineDone
  <2>1. main.pc = "offjoin" /\ main'.pc # "lock" /\ UNCHANGED <<catchup, load>>
    BY <1>7, <1>t DEF OfflineDone, MainType
  <2>2. fol'.channel = None /\ fol'.urls = fol.urls /\ fol'.worker = fol.worker
    BY <1>7, <1>t DEF OfflineDone, FolType
  <2>3. catchup # "load" /\ fol.worker = 0
    BY <2>1 DEF Locked, Down
  <2> QED BY <2>1, <2>2, <2>3 DEF Routed
<1>8. CASE Exit
  <2>1. main'.pc # "lock" /\ catchup' # "load" /\ load'.step = "none" /\ fol' = fol
    BY <1>8, <1>t, <1>n DEF Exit, MainType
  <2> QED BY <2>1 DEF Routed
<1>9. CASE LoadResolve
  <2>1. load.step = "resolve" /\ load'.step = "player" /\ load'.ch = load.ch
        /\ load'.url = fol.urls[load.ch] /\ UNCHANGED <<main, catchup, fol>>
    BY <1>9, <1>t DEF LoadResolve, LoadType
  <2>2. load.ch \in Channels /\ fol.urls[load.ch] # None
        /\ ChannelOf[fol.urls[load.ch]] = load.ch /\ fol.urls[load.ch] \in Dests
    BY <2>1, <1>t DEF Routed, FolType
  <2> QED BY <2>1, <2>2 DEF Routed
<1>10. CASE LoadPlayer \/ LoadReader \/ LoadFile
  <2>1. load.step \in {"player", "reader", "file"} /\ load'.step \in {"reader", "file", "commit"}
        /\ load'.ch = load.ch /\ load'.url = load.url /\ UNCHANGED <<main, catchup>>
    BY <1>10, <1>t DEF LoadPlayer, LoadReader, LoadFile, LoadType
  <2>2. fol' = fol \/ fol' = OldDropped
    BY <1>10 DEF LoadPlayer, LoadReader, LoadFile
  <2>3. fol'.channel = fol.channel /\ fol'.urls = fol.urls /\ (fol'.worker = 0 \/ fol' = fol)
    BY <2>2, <1>w
  <2> QED BY <2>1, <2>3 DEF Routed
<1>11. CASE ResolveFails \/ PlayerFails \/ FifoFails \/ FileFails
  <2>1. load.step # "none" /\ Release /\ (fol' = fol \/ fol' = OldDropped)
    BY <1>11 DEF ResolveFails, PlayerFails, FifoFails, FileFails
  <2>2. load'.step = "none" /\ (main' = main \/ main'.pc # "lock")
        /\ catchup' # "load"
    BY <2>1, <1>n, <1>t DEF Release, Return, MainType, Locked
  <2>3. fol'.channel = fol.channel /\ fol'.urls = fol.urls /\ (fol'.worker = 0 \/ fol' = fol)
    BY <2>1, <1>w
  <2> QED BY <2>2, <2>3 DEF Routed
<1>12. CASE LoadCommit
  <2>1. load.step = "commit" /\ Release
    BY <1>12 DEF LoadCommit
  <2>2. load'.step = "none" /\ (main' = main \/ main'.pc # "lock") /\ catchup' # "load"
    BY <2>1, <1>n, <1>t DEF Release, Return, MainType, Locked
  <2>3. fol'.channel = load.ch /\ fol'.urls = fol.urls /\ fol'.plays = load.url
    BY <1>12, <1>t DEF LoadCommit, FolType
  <2>4. load.ch \in Channels /\ fol.urls[load.ch] # None /\ ChannelOf[load.url] = load.ch
    BY <2>1 DEF Routed
  <2>5. load.ch # None
    BY <2>4
  <2> QED BY <2>2, <2>3, <2>4, <2>5 DEF Routed
<1> QED BY <1>1, <1>2, <1>3, <1>4, <1>5, <1>6, <1>7, <1>8, <1>9, <1>10, <1>11, <1>12,
           Zenon DEF Next, MainStep, LoadStep, CatchupStep
-----------------------------------------------------------------------------
(* The invariant, and what follows from it. *)

\* The follower as it starts.
LEMMA InitIInv == Init => IInv
<1> SUFFICES ASSUME Init PROVE IInv
  OBVIOUS
<1> USE FollowAssumption DEF FollowAssumption
<1>1. TypeOK
  BY DEF Init, TypeOK, NoLoad, Unborn, Stages
<1>2. Locked
  BY DEF Init, Locked, NoLoad
<1>3. Newest
  <2>1. Owed = 0
    BY DEF Init, Owed
  <2> QED BY <2>1 DEF Init, Newest, Counted, Fresher, Current, NoLoad
<1>4. Routed
  BY DEF Init, Routed, NoLoad
<1>5. Playing
  BY DEF Init, Playing, NoLoad
<1>6. Down
  BY DEF Init, Down
<1>7. NoOrphanReader /\ FifoTracked
  BY DEF Init, NoOrphanReader, FifoTracked, Active, Alive, Unborn
<1> QED BY <1>1, <1>2, <1>3, <1>4, <1>5, <1>6, <1>7 DEF IInv

\* The lemmas above, together.
LEMMA StepIInv == IInv /\ [Next]_vars => IInv'
<1> SUFFICES ASSUME IInv, [Next]_vars PROVE IInv'
  OBVIOUS
<1>i. TypeOK /\ Locked /\ Newest /\ Routed /\ Playing /\ Down /\ NoOrphanReader /\ FifoTracked
  BY Zenon DEF IInv
<1>c. Current
  BY <1>i, Zenon DEF Newest
<1>1. TypeOK'
  BY <1>i, TypeStep, Zenon
<1>2. Locked'
  BY <1>i, LockedStep, Zenon
<1>3. Newest'
  BY <1>i, CountedStep, CurrentStep, FresherStep, Zenon DEF Newest
<1>4. Routed'
  BY <1>i, RoutedStep, Zenon
<1>5. Playing' /\ Down'
  BY <1>i, <1>c, PlayingStep, DownStep, Zenon
<1>6. (NoOrphanReader /\ FifoTracked)'
  <2>1. \A g \in Readers : Kept(g)
    BY <1>i, KeptParts, Zenon
  <2>2. \A g \in Readers : Kept(g)'
    BY <1>i, <2>1, KeptStep, Zenon
  <2> QED BY <2>2, KeptParts, Zenon
<1> QED BY <1>1, <1>2, <1>3, <1>4, <1>5, <1>6, Zenon DEF IInv

\* IInv holds throughout: the state after any step follows from the one before it.
THEOREM Inductive == Spec => []IInv
  BY InitIInv, StepIInv, PTL DEF Spec

\* Every variable keeps its type, whatever the sizes of the instance.
THEOREM Typing == Spec => []TypeOK
<1>1. IInv => TypeOK
  BY Zenon DEF IInv
<1> QED BY <1>1, Inductive, PTL

\* A reader that nobody has cancelled is one the follower still holds, on every
\* path through a load, its failures, a stop and a shutdown.
THEOREM NoReaderLost == Spec => []NoOrphanReader
<1>1. IInv => NoOrphanReader
  BY Zenon DEF IInv
<1> QED BY <1>1, Inductive, PTL

\* A FIFO on disk has a holder, or a reaper that will unlink it.
THEOREM NoFifoLost == Spec => []FifoTracked
<1>1. IInv => FifoTracked
  BY Zenon DEF IInv
<1> QED BY <1>1, Inductive, PTL

\* Between loads, the current reader reads a stream of the channel recorded as
\* followed, whoever loaded it.
THEOREM ReaderFollows == Spec => []ReaderOnChannel
<1>1. IInv => ReaderOnChannel
  BY DEF IInv, Routed, ReaderOnChannel
<1> QED BY <1>1, Inductive, PTL

\* Between loads, the player is on the current reader, on its way to it, or idle.
THEOREM PlayerFollows == Spec => []PlayerOnCurrent
<1>1. IInv => PlayerOnCurrent
  BY DEF IInv, Locked, Playing, PlayerOn, PlayerOnCurrent
<1> QED BY <1>1, Inductive, PTL

\* A catch-up reload is of the channel followed when it has the lock.
THEOREM ReloadFollows == Spec => []CatchupFollows
<1>1. IInv => CatchupFollows
  BY DEF IInv, Locked, Routed, CatchupFollows
<1> QED BY <1>1, Inductive, PTL

\* A shutdown that joined the catch-up thread leaves no reader uncancelled, and no
\* player unless it was told to.
THEOREM ShutdownIsClean == Spec => []CleanShutdown
<1>1. IInv => CleanShutdown
  <2> SUFFICES ASSUME IInv, main.pc \in {"drain", "exited"}, main.joined
               PROVE  /\ fol.worker = 0 /\ \A g \in Readers : ~Active(g)
                      /\ LeaveMpv \/ ~mpv.up
    BY DEF CleanShutdown
  <2>1. fol.worker = 0 /\ (LeaveMpv \/ ~mpv.up) /\ catchup = "gone"
    BY DEF IInv, Down
  <2>2. load.step = "none"
    BY <2>1 DEF IInv, Locked
  <2>3. \A g \in Readers : ~Held(g)
    BY <2>1, <2>2 DEF Held, Readers
  <2> QED BY <2>1, <2>3, Zenon DEF IInv, NoOrphanReader
<1> QED BY <1>1, Inductive, PTL

-----------------------------------------------------------------------------
(* The readers are those of ReaderHandoff. *)

\* A step that makes no reader wakes none up.
LEMMA NoneWakes ==
  ASSUME IInv, [Next]_vars, ~LoadReader, NEW g \in Readers, Active(g)'
  PROVE  Active(g)
<1>t. /\ reader \in [Readers -> OneReader]
      /\ fol.worker \in Readers \cup {0} /\ load.g \in Readers \cup {0}
  BY TypeParts DEF IInv, Typed, FolType, LoadType
<1>1. ASSUME reader'[g] = reader[g]
      PROVE  Active(g)
  BY <1>1, Zenon DEF Active, Alive
<1>2. ASSUME NEW w \in Readers \cup {0}, reader' = Cancel(reader, w)
      PROVE  Active(g)
  <2>1. g # w
    BY <1>2, <1>t, CancelAt DEF Active
  <2> QED BY <1>1, <1>2, <2>1, <1>t, CancelAt
<1>3. CASE OfflineStop \/ ShutdownStop
  BY <1>3, <1>2, <1>t DEF OfflineStop, ShutdownStop
<1>4. CASE FifoFails
  BY <1>4, <1>1, <1>2, <1>t DEF FifoFails, OldCancelled
<1>5. CASE FileFails
  BY <1>5, <1>2, <1>t DEF FileFails
<1>6. CASE LoadCommit
  BY <1>6, <1>1, <1>2, <1>t DEF LoadCommit
<1>7. CASE Exit
  <2>1. reader'[g].stage \notin {"starting", "opening", "fifo", "pumping"}
    BY <1>7, <1>t DEF Exit, Alive, OneReader
  <2> QED BY <2>1 DEF Active, Alive
<1>8. CASE \E h \in Readers : WorkerStep(h) \/ MpvOpens(h)
  <2>1. PICK h \in Readers : WorkerStep(h) \/ MpvOpens(h)
    BY <1>8
  <2>2. TypeOK
    BY Zenon DEF IInv
  <2>3. Progress(h)
    BY <2>1, <2>2, ProgressStep, Zenon
  <2>4. CASE g # h
    BY <2>3, <2>4, <1>1, Zenon DEF Progress
  <2>5. CASE g = h
    BY <2>3, <2>5, Zenon DEF Progress, Active
  <2> QED BY <2>4, <2>5
<1>9. CASE reader' = reader
  BY <1>9, <1>1
<1>10. \/ (\E d \in Dests : Event(d)) \/ OfflineEvent \/ SigTerm \/ DebounceOver \/ CooldownOver
       \/ SkipSwitch \/ BeginSwitch \/ OfflineIgnored \/ OfflineDone \/ JoinCatchup
       \/ ShutdownPlayer \/ CatchupDecide \/ CatchupStep \/ LoadResolve \/ ResolveFails
       \/ LoadPlayer \/ PlayerFails \/ LoadFile \/ MpvDies \/ UNCHANGED vars
       \/ (\E h \in Readers : MpvMisses(h) \/ MpvEnds(h))
       => reader' = reader
  BY Zenon DEF Event, OfflineEvent, SigTerm, DebounceOver, CooldownOver, SkipSwitch, BeginSwitch,
     OfflineIgnored, OfflineDone, JoinCatchup, ShutdownPlayer, CatchupDecide, CatchupStep,
     CatchupSkip, CatchupBegin, CatchupGone, LoadResolve, ResolveFails, LoadPlayer, PlayerFails,
     LoadFile, MpvDies, vars, MpvMisses, MpvEnds
<1> QED BY <1>3, <1>4, <1>5, <1>6, <1>7, <1>8, <1>9, <1>10,
           Zenon DEF Next, MainStep, LoadStep, MpvStep

\* The number of readers changes when one is made.
LEMMA MadeChanges == [Next]_vars /\ ~LoadReader => made' = made
  BY Zenon DEF Next, MainStep, LoadStep, CatchupStep, vars, Event, OfflineEvent, SigTerm,
     DebounceOver, CooldownOver, SkipSwitch, BeginSwitch, OfflineIgnored, OfflineStop, OfflineDone,
     JoinCatchup, ShutdownStop, ShutdownPlayer, Exit, CatchupDecide, CatchupSkip, CatchupBegin,
     CatchupGone, LoadResolve, ResolveFails, LoadPlayer, PlayerFails, FifoFails, LoadFile,
     FileFails, LoadCommit, WorkerStep, WorkerChecks, WorkerOpens, WorkerFails, WorkerMustEnd,
     WorkerEnds, Reap, OthersUnchanged, MpvStep, MpvOpens, MpvMisses, MpvEnds, MpvDies

\* Once the new reader n is there, "single" has no other, "overlap" at most the old one.
LEMMA LoadReaderKeeps ==
  ASSUME IInv, LoadReader, NEW n \in Readers, n = made + 1
  PROVE  /\ Active(n)'
         /\ \A g \in Readers : g # n /\ Active(g)' =>
              Active(g) /\ g = fol.worker /\ Handoff = "overlap"
<1>t. /\ reader \in [Readers -> OneReader] /\ fol.worker \in Readers \cup {0}
  BY TypeParts DEF IInv, Typed, FolType
<1>1. load.step = "reader"
  BY DEF LoadReader
<1>2. OldCancelled \in [Readers -> OneReader]
  BY <1>t, ReaderUpdates DEF OldCancelled
<1>3. /\ reader'[n] = [Unborn EXCEPT !.stage = "starting", !.fifo = TRUE]
      /\ \A g \in Readers : g # n => reader'[g] = OldCancelled[g]
  BY <1>2 DEF LoadReader
<1>4. Active(n)'
  <2>1. reader'[n].stage = "starting" /\ reader'[n].stop = FALSE
    BY <1>3 DEF Unborn
  <2> QED BY <2>1 DEF Active, Alive
<1>5. ASSUME NEW g \in Readers, g # n, Active(g)'
      PROVE  Active(g) /\ g = fol.worker /\ Handoff = "overlap"
  <2>1. reader'[g] = OldCancelled[g]
    BY <1>3, <1>5
  <2>2. CASE Handoff = "single"
    <3>1. reader'[g] = Cancel(reader, fol.worker)[g]
      BY <2>1, <2>2 DEF OldCancelled
    <3>2. g # fol.worker
      BY <3>1, <1>5, <1>t, CancelAt DEF Active
    <3>3. reader'[g] = reader[g]
      BY <3>1, <3>2, <1>t, CancelAt
    <3>4. Active(g)
      BY <3>3, <1>5, Zenon DEF Active, Alive
    <3>5. Held(g)
      BY <3>4, Zenon DEF IInv, NoOrphanReader
    <3> QED BY <3>2, <3>5, <1>1 DEF Held
  <2>3. CASE Handoff = "overlap"
    <3>1. reader'[g] = reader[g]
      BY <2>1, <2>3 DEF OldCancelled
    <3>2. Active(g)
      BY <3>1, <1>5, Zenon DEF Active, Alive
    <3>3. Held(g)
      BY <3>2, Zenon DEF IInv, NoOrphanReader
    <3> QED BY <2>3, <3>2, <3>3, <1>1 DEF Held
  <2> QED BY <2>2, <2>3, FollowAssumption DEF FollowAssumption
<1> QED BY <1>4, <1>5

ActiveSet == {g \in Readers : Active(g)}

\* No readers at first.
LEMMA HandoffInit == Init => Promise!Init
  BY DEF Init, Promise!Init, Active, Alive, Unborn

\* LoadReader is Start, and every other step is LetGo.
LEMMA HandoffStep ==
  ASSUME IInv, [Next]_vars
  PROVE  Promise!Next
<1>1. CASE LoadReader
  <2>1. made + 1 \in Readers
    <3>1. load.step = "reader"
      BY <1>1 DEF LoadReader
    <3> QED BY <3>1, LoadRoom, Zenon DEF IInv
  <2>2. PICK n \in Readers : n = made + 1
    BY <2>1
  <2>3. Active(n)'
    BY <1>1, <2>2, LoadReaderKeeps, Zenon
  <2>4. \A g \in Readers : g # n /\ Active(g)' =>
          Active(g) /\ g = fol.worker /\ Handoff = "overlap"
    BY <1>1, <2>2, LoadReaderKeeps, Zenon
  <2>5. PICK kept : kept = {g \in Readers : g # n /\ Active(g)'}
    OBVIOUS
  <2>6. kept \in SUBSET ActiveSet
    BY <2>4, <2>5 DEF ActiveSet
  <2>7. ActiveSet' = kept \cup {n}
    BY <2>3, <2>5 DEF ActiveSet
  <2>8. kept = {} \/ (Handoff = "overlap" /\ kept = {fol.worker})
    BY <2>4, <2>5
  <2>9. Cardinality(kept) < (IF Handoff = "single" THEN 1 ELSE 2)
    <3>1. CASE kept = {}
      BY <3>1, FS_EmptySet
    <3>2. CASE Handoff = "overlap" /\ kept = {fol.worker}
      <4>1. Cardinality(kept) = 1
        BY <3>2, FS_Singleton
      <4> QED BY <3>2, <4>1
    <3> QED BY <2>8, <3>1, <3>2
  <2>10. made' = made + 1
    BY <1>1 DEF LoadReader
  <2>11. Promise!Start
    <3>1. \E k \in SUBSET ActiveSet :
            /\ Cardinality(k) < (IF Handoff = "single" THEN 1 ELSE 2)
            /\ ActiveSet' = k \cup {made + 1}
      BY <2>2, <2>6, <2>7, <2>9
    <3>2. \A k : Promise!Cardinality(k) = Cardinality(k)
      BY DEF Promise!Cardinality, Cardinality
    <3> QED BY <2>10, <3>1, <3>2 DEF Promise!Start, ActiveSet
  <2> QED BY <2>11 DEF Promise!Next
<1>2. CASE ~LoadReader
  <2>1. ActiveSet' \in SUBSET ActiveSet
    <3>1. \A g \in Readers : Active(g)' => Active(g)
      BY <1>2, NoneWakes, Zenon
    <3> QED BY <3>1 DEF ActiveSet
  <2>2. made' = made
    BY <1>2, MadeChanges, Zenon
  <2>3. Promise!LetGo
    BY <2>1, <2>2 DEF Promise!LetGo, ActiveSet
  <2> QED BY <2>3 DEF Promise!Next
<1> QED BY <1>1, <1>2

\* "single cancels old after resolve; overlap starts the selected reader first,
\* then immediately cancels old": the follower implements ReaderHandoff.
THEOREM HandoffIsKept == Spec => HandoffKept
<1>1. Init => Promise!Init
  BY HandoffInit
<1>2. IInv /\ [Next]_vars => [Promise!Next]_<<made, {g \in Readers : Active(g)}>>
  BY HandoffStep
<1> QED BY <1>1, <1>2, Inductive, PTL DEF Spec, HandoffKept, Promise!Spec
=============================================================================
