---------------------------- MODULE TabEmitProofs ----------------------------
(***************************************************************************)
(* Proofs about TabEmit, for any destinations, any finite set of sockets,   *)
(* and any number of tab changes, commands and restarts of the server: the  *)
(* plugin always has something coming that makes it try again, and never    *)
(* trusts a socket that is gone without the news of it being under way.     *)
(***************************************************************************)
EXTENDS TabEmit, FiniteSetTheorems, TLAPS

\* A socket the server has accepted or will, unless it ends first.
Alive == {"connecting", "up"}

\* Lua does not collect the socket the plugin names.
Named == sock[plug.ws].at # "free"

\* With the server down, or with the plugin's socket gone, no socket is alive:
\* the socket the plugin names is the newest, and what ended it ended all.
Gone ==
  ~srv.up \/ sock[plug.ws].at = "dead" =>
    /\ srv.backlog = <<>>
    /\ \A s \in Sockets : sock[s].at \notin Alive

\* Once the plugin's socket is gone, whichever socket's "open" is still to run
\* is followed by the "close" of the plugin's own: they were posted in that order.
OpensPrecede(queue, s) ==
  \A i \in DOMAIN queue : queue[i].callback = "open" =>
    \E j \in DOMAIN queue : j > i /\ queue[j] = Post(s, "close")
Followup == sock[plug.ws].at = "dead" => OpensPrecede(gui, plug.ws)

IInv == TypeOK /\ NeverGivesUp /\ SendsGoSomewhere /\ Named /\ Gone /\ Followup

Entry == [socket : Sockets, callback : {"open", "check", "tick", "close"}]
FrameType == [event : Followed \cup {"initial_state"}, dest : Dests]

-----------------------------------------------------------------------------
(* Kept, the queue without what a collected socket had in it. *)

\* The place of the i-th of a queue among those that are kept.
Rank(places, i) == Cardinality({k \in places : k <= i})

\* The places that are kept are numbered one by one, in their order.
LEMMA RankOrder ==
  ASSUME NEW n \in Nat, NEW places \in SUBSET (1 .. n)
  PROVE  /\ IsFiniteSet(places) /\ Cardinality(places) \in Nat
         /\ \A i \in places : Rank(places, i) \in 1 .. Cardinality(places)
         /\ \A i, j \in places : i < j => Rank(places, i) < Rank(places, j)
<1> DEFINE Upto(i) == {k \in places : k <= i}
<1>1. IsFiniteSet(places) /\ Cardinality(places) \in Nat
  <2>1. IsFiniteSet(1 .. n)
    BY FS_Interval
  <2> QED
    BY <2>1, FS_Subset, FS_CardinalityType
<1>2. ASSUME NEW i \in places
      PROVE  /\ IsFiniteSet(Upto(i)) /\ Cardinality(Upto(i)) \in Nat
             /\ Cardinality(Upto(i)) <= Cardinality(places)
  <2>1. Upto(i) \in SUBSET places
    OBVIOUS
  <2> QED
    BY <1>1, <2>1, FS_Subset, FS_CardinalityType
<1>3. ASSUME NEW i \in places
      PROVE  Cardinality(Upto(i)) >= 1
  <2>1. Upto(i) # {}
    <3>1. i \in Upto(i)
      OBVIOUS
    <3> QED
      BY <3>1
  <2>2. Cardinality(Upto(i)) # 0
    BY <1>2, <2>1, FS_EmptySet
  <2> QED
    BY <1>2, <2>2
<1>4. ASSUME NEW i \in places, NEW j \in places, i < j
      PROVE  Cardinality(Upto(i)) < Cardinality(Upto(j))
  <2>1. Upto(i) \in SUBSET Upto(j)
    <3>1. \A k \in places : k <= i => k <= j
      <4>1. \A k \in places : k \in Int
        OBVIOUS
      <4> QED
        BY <1>4, <4>1
    <3> QED
      BY <3>1
  <2>2. Upto(i) # Upto(j)
    <3>1. j \in Upto(j) /\ j \notin Upto(i)
      BY <1>4
    <3> QED
      BY <3>1
  <2>3. Cardinality(Upto(i)) <= Cardinality(Upto(j)) /\ Cardinality(Upto(i)) # Cardinality(Upto(j))
    BY <1>2, <2>1, <2>2, FS_Subset
  <2> QED
    BY <1>2, <2>3
<1> QED
  BY <1>1, <1>2, <1>3, <1>4 DEF Rank

\* Every place of the result comes from one that is kept, each kept one goes
\* somewhere, and in the same order.
LEMMA KeptThere ==
  ASSUME NEW E, NEW q \in Seq(E), NEW places \in SUBSET DOMAIN q
  PROVE  /\ Kept(q, places) \in Seq(E)
         /\ \A n \in DOMAIN Kept(q, places) :
              \E i \in places : Kept(q, places)[n] = q[i] /\ n = Rank(places, i)
         /\ \A i \in places : /\ Rank(places, i) \in DOMAIN Kept(q, places)
                              /\ Kept(q, places)[Rank(places, i)] = q[i]
<1> DEFINE C == Cardinality(places)
           rank == [i \in places |-> Rank(places, i)]
           pick(n) == CHOOSE i \in places : Rank(places, i) = n
<1>0. Len(q) \in Nat /\ places \in SUBSET (1 .. Len(q))
  OBVIOUS
<1>1. /\ IsFiniteSet(places) /\ C \in Nat
      /\ \A i \in places : Rank(places, i) \in 1 .. C
      /\ \A i, j \in places : i < j => Rank(places, i) < Rank(places, j)
  BY <1>0, RankOrder
<1>2. \A i, j \in places : Rank(places, i) = Rank(places, j) => i = j
  BY <1>0, <1>1
<1>3. rank \in Injection(places, 1 .. C)
  BY <1>1, <1>2 DEF Injection, IsInjective
<1>4. IsFiniteSet(1 .. C) /\ Cardinality(1 .. C) = C
  BY <1>1, FS_Interval
<1>5. rank \in Surjection(places, 1 .. C)
  BY <1>1, <1>3, <1>4, FS_Injection
<1>6. \A n \in 1 .. C : \E i \in places : Rank(places, i) = n
  BY <1>5 DEF Surjection
<1>7. \A n \in 1 .. C : pick(n) \in places /\ Rank(places, pick(n)) = n
  BY <1>6
<1>8. Kept(q, places) = [n \in 1 .. C |-> q[pick(n)]]
  BY DEF Kept, Rank
<1>9. \A n \in 1 .. C : q[pick(n)] \in E
  BY <1>0, <1>7
<1>10. Kept(q, places) \in Seq(E) /\ DOMAIN Kept(q, places) = 1 .. C
  <2>1. [n \in 1 .. C |-> q[pick(n)]] \in [1 .. C -> E]
    BY <1>9
  <2> HIDE DEF C, pick
  <2>2. [n \in 1 .. C |-> q[pick(n)]] \in Seq(E)
    BY <1>1, <2>1
  <2> QED
    BY <1>8, <2>2
<1>11. \A i \in places : pick(Rank(places, i)) = i
  BY <1>1, <1>2, <1>7
<1> QED
  BY <1>1, <1>7, <1>8, <1>10, <1>11

-----------------------------------------------------------------------------
(* What the operations on the queue of callbacks leave of it. *)

\* A queue that lost its first: the others are still there, in order.
LEMMA QueueServed ==
  ASSUME NEW q \in Seq(Entry), q # <<>>
  PROVE  /\ Tail(q) \in Seq(Entry)
         /\ \A x : x # Head(q) /\ Contains(q, x) => Contains(Tail(q), x)
         /\ \A s : OpensPrecede(q, s) => OpensPrecede(Tail(q), s)
<1>1. /\ Tail(q) \in Seq(Entry) /\ Len(q) \in Nat \ {0}
      /\ Len(Tail(q)) = Len(q) - 1 /\ DOMAIN Tail(q) = 1 .. Len(q) - 1
      /\ \A i \in 1 .. Len(q) - 1 : Tail(q)[i] = q[i + 1]
  OBVIOUS
<1>2. ASSUME NEW x, x # Head(q), Contains(q, x)
      PROVE  Contains(Tail(q), x)
  <2>1. PICK i \in 1 .. Len(q) : q[i] = x
    BY <1>2 DEF Contains
  <2>2. i # 1
    BY <1>2, <2>1
  <2>3. i - 1 \in 1 .. Len(Tail(q)) /\ Tail(q)[i - 1] = x
    BY <1>1, <2>1, <2>2
  <2> QED
    BY <2>3 DEF Contains
<1>3. ASSUME NEW s, OpensPrecede(q, s)
      PROVE  OpensPrecede(Tail(q), s)
  <2> SUFFICES ASSUME NEW i \in 1 .. Len(q) - 1, Tail(q)[i].callback = "open"
               PROVE  \E j \in DOMAIN Tail(q) : j > i /\ Tail(q)[j] = Post(s, "close")
    BY <1>1 DEF OpensPrecede
  <2>1. i + 1 \in DOMAIN q /\ q[i + 1].callback = "open"
    BY <1>1
  <2>2. PICK j \in DOMAIN q : j > i + 1 /\ q[j] = Post(s, "close")
    BY <1>3, <2>1 DEF OpensPrecede
  <2>3. j - 1 \in DOMAIN Tail(q) /\ j - 1 > i /\ Tail(q)[j - 1] = Post(s, "close")
    BY <1>1, <2>2
  <2> QED
    BY <2>3
<1> QED
  BY <1>1, <1>2, <1>3

\* A queue that got more at its end: everything is still where it was.
LEMMA QueueGrown ==
  ASSUME NEW q \in Seq(Entry), NEW more \in Seq(Entry)
  PROVE  /\ q \o more \in Seq(Entry)
         /\ \A x : Contains(q, x) \/ Contains(more, x) => Contains(q \o more, x)
         /\ \A s : /\ \A i \in DOMAIN more : more[i].callback # "open"
                   /\ OpensPrecede(q, s) \/ Contains(more, Post(s, "close"))
                   => OpensPrecede(q \o more, s)
<1> DEFINE r == q \o more
<1>1. /\ r \in Seq(Entry) /\ Len(q) \in Nat /\ Len(more) \in Nat
      /\ DOMAIN q = 1 .. Len(q) /\ DOMAIN more = 1 .. Len(more)
      /\ Len(r) = Len(q) + Len(more) /\ DOMAIN r = 1 .. Len(q) + Len(more)
      /\ \A i \in 1 .. Len(q) : r[i] = q[i]
      /\ \A i \in 1 .. Len(more) : r[Len(q) + i] = more[i]
      /\ \A i \in DOMAIN r : i > Len(q) => i - Len(q) \in DOMAIN more /\ r[i] = more[i - Len(q)]
  OBVIOUS
<1> HIDE DEF r
<1>2. ASSUME NEW x, Contains(q, x)
      PROVE  Contains(r, x)
  <2>1. PICK i \in 1 .. Len(q) : q[i] = x
    BY <1>2 DEF Contains
  <2>2. i \in 1 .. Len(r) /\ r[i] = x
    BY <1>1, <2>1
  <2> QED
    BY <2>2 DEF Contains
<1>3. ASSUME NEW x, NEW i \in DOMAIN more, more[i] = x
      PROVE  /\ Len(q) + i \in DOMAIN r /\ r[Len(q) + i] = x
             /\ Contains(r, x)
  <2>1. Len(q) + i \in DOMAIN r /\ r[Len(q) + i] = x /\ Len(q) + i \in 1 .. Len(r)
    BY <1>1, <1>3
  <2> QED
    BY <2>1 DEF Contains
<1>4. ASSUME NEW s, \A i \in DOMAIN more : more[i].callback # "open",
             OpensPrecede(q, s) \/ Contains(more, Post(s, "close"))
      PROVE  OpensPrecede(r, s)
  <2> SUFFICES ASSUME NEW i \in DOMAIN r, r[i].callback = "open"
               PROVE  \E j \in DOMAIN r : j > i /\ r[j] = Post(s, "close")
    BY DEF OpensPrecede
  <2>1. i \in DOMAIN q /\ i <= Len(q) /\ q[i].callback = "open"
    <3>1. i \in Nat /\ 1 <= i
      BY <1>1
    <3>2. CASE i > Len(q)
      <4>1. i - Len(q) \in DOMAIN more /\ r[i] = more[i - Len(q)]
        BY <1>1, <3>2
      <4> QED
        BY <1>4, <4>1
    <3>3. CASE i <= Len(q)
      BY <1>1, <3>1, <3>3
    <3> QED
      BY <1>1, <3>1, <3>2, <3>3
  <2>2. CASE OpensPrecede(q, s)
    <3>1. PICK j \in DOMAIN q : j > i /\ q[j] = Post(s, "close")
      BY <2>1, <2>2 DEF OpensPrecede
    <3>2. j \in DOMAIN r /\ r[j] = q[j]
      BY <1>1
    <3> QED
      BY <3>1, <3>2
  <2>3. CASE Contains(more, Post(s, "close"))
    <3>1. PICK j \in DOMAIN more : more[j] = Post(s, "close")
      BY <1>1, <2>3 DEF Contains
    <3>2. Len(q) + j \in DOMAIN r /\ r[Len(q) + j] = Post(s, "close")
      BY <1>3, <3>1
    <3>3. Len(q) + j > i
      BY <1>1, <2>1
    <3> QED
      BY <3>2, <3>3
  <2> QED
    BY <1>4, <2>2, <2>3
<1>5. ASSUME NEW x, Contains(more, x)
      PROVE  Contains(r, x)
  <2>1. PICK i \in DOMAIN more : more[i] = x
    BY <1>1, <1>5 DEF Contains
  <2> QED
    BY <1>3, <2>1
<1> QED
  BY <1>1, <1>2, <1>4, <1>5 DEF r

\* A queue without what one socket had in it: the rest is there, in order.
LEMMA QueueCleared ==
  ASSUME NEW q \in Seq(Entry), NEW s,
         NEW r, r = Kept(q, {i \in DOMAIN q : q[i].socket # s})
  PROVE  /\ r \in Seq(Entry)
         /\ \A x : x.socket # s /\ Contains(q, x) => Contains(r, x)
         /\ \A t : t # s /\ OpensPrecede(q, t) => OpensPrecede(r, t)
<1> DEFINE places == {i \in DOMAIN q : q[i].socket # s}
<1>1. /\ DOMAIN q = 1 .. Len(q) /\ Len(q) \in Nat /\ places \in SUBSET (1 .. Len(q))
      /\ places \in SUBSET DOMAIN q /\ r = Kept(q, places)
  OBVIOUS
<1> HIDE DEF places
<1>2. /\ r \in Seq(Entry)
      /\ \A n \in DOMAIN r : \E i \in places : r[n] = q[i] /\ n = Rank(places, i)
      /\ \A i \in places : Rank(places, i) \in DOMAIN r /\ r[Rank(places, i)] = q[i]
  <2>1. /\ Kept(q, places) \in Seq(Entry)
        /\ \A n \in DOMAIN Kept(q, places) :
             \E i \in places : Kept(q, places)[n] = q[i] /\ n = Rank(places, i)
        /\ \A i \in places : /\ Rank(places, i) \in DOMAIN Kept(q, places)
                             /\ Kept(q, places)[Rank(places, i)] = q[i]
    BY <1>1, KeptThere
  <2> QED
    BY <1>1, <2>1
<1>3. \A i, j \in places : i < j => Rank(places, i) < Rank(places, j)
  BY <1>1, RankOrder
<1>4. ASSUME NEW x, x.socket # s, Contains(q, x)
      PROVE  Contains(r, x)
  <2>1. PICK i \in 1 .. Len(q) : q[i] = x
    BY <1>4 DEF Contains
  <2>2. i \in places
    BY <1>1, <1>4, <2>1 DEF places
  <2>3. Rank(places, i) \in DOMAIN r /\ r[Rank(places, i)] = x
    BY <1>2, <2>1, <2>2
  <2>4. DOMAIN r = 1 .. Len(r)
    BY <1>2
  <2> QED
    BY <2>3, <2>4 DEF Contains
<1>5. ASSUME NEW t, t # s, OpensPrecede(q, t)
      PROVE  OpensPrecede(r, t)
  <2> SUFFICES ASSUME NEW n \in DOMAIN r, r[n].callback = "open"
               PROVE  \E m \in DOMAIN r : m > n /\ r[m] = Post(t, "close")
    BY DEF OpensPrecede
  <2>1. PICK i \in places : r[n] = q[i] /\ n = Rank(places, i)
    BY <1>2
  <2>2. PICK j \in DOMAIN q : j > i /\ q[j] = Post(t, "close")
    BY <1>1, <1>5, <2>1 DEF OpensPrecede
  <2>3. j \in places
    BY <1>5, <2>2 DEF Post, places
  <2>4. Rank(places, j) > n
    <3>1. i < j
      BY <1>1, <2>1, <2>2
    <3>2. Rank(places, i) < Rank(places, j)
      BY <1>3, <2>3, <3>1
    <3>3. Rank(places, i) \in Int /\ Rank(places, j) \in Int
      <4>1. \A k \in places : Rank(places, k) \in 1 .. Cardinality(places)
        BY <1>1, RankOrder
      <4> QED
        BY <2>1, <2>3, <4>1
    <3> QED
      BY <2>1, <3>2, <3>3
  <2>5. Rank(places, j) \in DOMAIN r /\ r[Rank(places, j)] = Post(t, "close")
    BY <1>2, <2>2, <2>3
  <2> QED
    BY <2>4, <2>5
<1> QED
  BY <1>2, <1>4, <1>5

\* An order of a finite set's elements names each of them.
LEMMA OrderCovers ==
  ASSUME NEW S, IsFiniteSet(S), NEW order \in SetToSeqs(S)
  PROVE  /\ order \in Seq(S) /\ DOMAIN order = 1 .. Len(order) /\ Len(order) \in Nat
         /\ \A s \in S : \E i \in DOMAIN order : order[i] = s
<1> DEFINE C == Cardinality(S)
<1>1. C \in Nat
  BY FS_CardinalityType
<1>2. order \in Injection(1 .. C, S)
  BY DEF SetToSeqs, Injection, IsInjective
<1>3. IsFiniteSet(1 .. C) /\ Cardinality(1 .. C) = C
  BY <1>1, FS_Interval
<1>4. order \in Surjection(1 .. C, S)
  BY <1>2, <1>3, FS_Injection
<1> HIDE DEF C
<1>5. order \in [1 .. C -> S]
  BY <1>2 DEF Injection
<1>6. order \in Seq(S) /\ DOMAIN order = 1 .. C
  BY <1>1, <1>5
<1> QED
  BY <1>4, <1>6 DEF Surjection
-----------------------------------------------------------------------------
(* Types. *)

SrvType == [up : BOOLEAN, backlog : Seq(Sockets), heard : Dests \cup {None}]
Connection == [at : {"free", "connecting", "up", "dead"}, frames : Seq(FrameType)]
SockType == [Sockets -> Connection]

\* A socket whose connection changes keeps its frames, and no other changes.
LEMMA SocketMoves ==
  ASSUME NEW s \in Sockets, sock \in SockType,
         NEW at \in {"free", "connecting", "up", "dead"},
         sock' = [sock EXCEPT ![s].at = at]
  PROVE  /\ sock' \in SockType
         /\ \A t \in Sockets : sock'[t].at = IF t = s THEN at ELSE sock[t].at
<1>1. sock[s] \in Connection
  BY DEF SockType
<1>2. [sock[s] EXCEPT !.at = at] \in Connection /\ [sock[s] EXCEPT !.at = at].at = at
  BY <1>1 DEF Connection
<1> QED
  BY <1>2 DEF SockType

\* A socket that gets other frames, or loses some, stays connected as it was.
LEMMA SocketSends ==
  ASSUME NEW s \in Sockets, sock \in SockType, NEW frames \in Seq(FrameType),
         sock' = [sock EXCEPT ![s].frames = frames]
  PROVE  sock' \in SockType /\ \A t \in Sockets : sock'[t].at = sock[t].at
<1>1. sock[s] \in Connection
  BY DEF SockType
<1>2. /\ [sock[s] EXCEPT !.frames = frames] \in Connection
      /\ [sock[s] EXCEPT !.frames = frames].at = sock[s].at
  BY <1>1 DEF Connection
<1> QED
  BY <1>2 DEF SockType

PlugType ==
  [ws : Sockets, connected : BOOLEAN, scheduled : BOOLEAN, last : Dests \cup {None}]
FolType == [dest : Dests \cup {None}, debounce : BOOLEAN]
EnvType == [selects : 0 .. MaxSelects, commands : 0 .. MaxCommands, crashes : 0 .. MaxCrashes]

\* TypeOK, its parts by name.
Typed ==
  /\ sel \in Dests /\ plug \in PlugType /\ timers \in Nat
  /\ sock \in SockType /\ gui \in Seq(Entry) /\ srv \in SrvType
  /\ fol \in FolType /\ env \in EnvType

\* It is TypeOK.
LEMMA TypedOK == TypeOK <=> Typed
BY DEF TypeOK, Typed, PlugType, SockType, Connection, FrameType, Entry, SrvType,
       FolType, EnvType

\* Counting within a bound stays within it.
LEMMA CountTyped ==
  ASSUME env \in EnvType
  PROVE  /\ env.selects < MaxSelects => [env EXCEPT !.selects = @ + 1] \in EnvType
         /\ env.commands < MaxCommands => [env EXCEPT !.commands = @ + 1] \in EnvType
         /\ env.crashes < MaxCrashes => [env EXCEPT !.crashes = @ + 1] \in EnvType
<1>1. MaxSelects \in Nat /\ MaxCommands \in Nat /\ MaxCrashes \in Nat
  BY TabAssumption
<1>2. env.selects \in 0 .. MaxSelects /\ env.commands \in 0 .. MaxCommands
      /\ env.crashes \in 0 .. MaxCrashes
  BY DEF EnvType
<1>3. /\ env.selects < MaxSelects => env.selects + 1 \in 0 .. MaxSelects
      /\ env.commands < MaxCommands => env.commands + 1 \in 0 .. MaxCommands
      /\ env.crashes < MaxCrashes => env.crashes + 1 \in 0 .. MaxCrashes
  BY <1>1, <1>2
<1> QED
  BY <1>3 DEF EnvType

\* Sending adds frames to the plugin's socket and changes no connection.
LEMMA SendTyped ==
  ASSUME TypeOK, NEW frames \in Seq(FrameType), Send(frames)
  PROVE  sock' \in SockType /\ \A s \in Sockets : sock'[s].at = sock[s].at
<1>1. sock \in SockType /\ plug.ws \in Sockets
  BY TypedOK DEF Typed, PlugType
<1>2. sock[plug.ws].frames \o frames \in Seq(FrameType)
  BY <1>1 DEF SockType, Connection
<1>3. CASE UNCHANGED sock
  BY <1>1, <1>3
<1>4. CASE sock' = [sock EXCEPT ![plug.ws].frames = @ \o frames]
  BY <1>1, <1>2, <1>4, SocketSends
<1> QED
  BY <1>3, <1>4 DEF Send

\* What is sent of a tab is a frame.
LEMMA FramesTyped ==
  ASSUME TypeOK
  PROVE  TabFrame \in FrameType /\ Manual(sel) \in FrameType
BY DEF TypeOK, TabFrame, Manual, Tab, Initial, FrameType, Followed

\* A reconnect makes a free socket connecting or dead, and queues it or its end.
LEMMA ReconnectTyped ==
  ASSUME TypeOK, NEW s \in Sockets, Reconnect(s)
  PROVE  sock' \in SockType /\ gui' \in Seq(Entry) /\ srv' \in SrvType
<1>1. sock \in SockType /\ gui \in Seq(Entry) /\ srv \in SrvType
  BY TypedOK DEF Typed
<1>2. sock' \in SockType
  <2>1. (IF srv.up THEN "connecting" ELSE "dead") \in {"free", "connecting", "up", "dead"}
    OBVIOUS
  <2> QED
    BY <1>1, <2>1, SocketMoves DEF Reconnect
<1>3. gui' \in Seq(Entry)
  <2>1. Post(s, "close") \in Entry
    BY DEF Post, Entry
  <2> QED
    BY <1>1, <2>1 DEF Reconnect
<1>4. srv' \in SrvType
  <2>1. Append(srv.backlog, s) \in Seq(Sockets)
    BY <1>1 DEF SrvType
  <2>2. srv' = srv \/ srv' = [srv EXCEPT !.backlog = Append(srv.backlog, s)]
    BY DEF Reconnect
  <2> QED
    BY <1>1, <2>1, <2>2 DEF SrvType
<1> QED
  BY <1>2, <1>3, <1>4

\* The callback that is due is taken from the queue; the others stay, in order.
LEMMA DueTyped ==
  ASSUME TypeOK, NEW s, NEW callback, Due(s, callback)
  PROVE  /\ gui' \in Seq(Entry)
         /\ \A x : x # Post(s, callback) /\ Contains(gui, x) => Contains(gui', x)
         /\ \A t : OpensPrecede(gui, t) => OpensPrecede(gui', t)
<1>1. gui \in Seq(Entry) /\ gui # <<>> /\ Head(gui) = Post(s, callback) /\ gui' = Tail(gui)
  BY DEF TypeOK, Entry, Due
<1> QED
  BY <1>1, QueueServed

\* Answering takes the oldest of the backlog.
LEMMA AnswerTyped ==
  ASSUME TypeOK, NEW s \in Sockets, Answer(s)
  PROVE  /\ sock' \in SockType /\ srv' \in SrvType
         /\ \A t \in Sockets : sock'[t].at = IF t = s THEN "up" ELSE sock[t].at
<1>1. sock \in SockType /\ srv \in SrvType /\ srv.backlog # <<>>
  BY TypedOK DEF Typed, Answer
<1>2. Tail(srv.backlog) \in Seq(Sockets)
  BY <1>1 DEF SrvType
<1>3. sock' = [sock EXCEPT ![s].at = "up"] /\ srv' = [srv EXCEPT !.backlog = Tail(@)]
  BY DEF Answer
<1>4. srv' \in SrvType
  BY <1>1, <1>2, <1>3 DEF SrvType
<1> QED
  BY <1>1, <1>3, <1>4, SocketMoves

\* Reading takes one frame of a socket.
LEMMA FrameTyped ==
  ASSUME TypeOK, NEW s \in Sockets, Frame(s)
  PROVE  /\ sock' \in SockType /\ Head(sock[s].frames) \in FrameType
         /\ \A t \in Sockets : sock'[t].at = sock[t].at
<1>1. sock \in SockType /\ sock[s].frames \in Seq(FrameType) /\ sock[s].frames # <<>>
  BY TypedOK DEF Typed, SockType, Connection, Frame
<1>2. Head(sock[s].frames) \in FrameType /\ Tail(sock[s].frames) \in Seq(FrameType)
  BY <1>1
<1>3. sock' = [sock EXCEPT ![s].frames = Tail(sock[s].frames)]
  BY DEF Frame
<1> QED
  BY <1>1, <1>2, <1>3, SocketSends

\* The sockets a restart ends, and the callbacks it posts for them.
LEMMA CrashTyped ==
  ASSUME TypeOK, Crash
  PROVE  /\ sock' \in SockType /\ gui' \in Seq(Entry)
         /\ \A s \in Sockets : /\ sock'[s].at \notin Alive
                               /\ sock'[s].at = "free" <=> sock[s].at = "free"
         /\ \E more \in Seq(Entry) :
              /\ gui' = gui \o more
              /\ \A i \in DOMAIN more : more[i].callback # "open"
              /\ \A s \in Sockets : sock[s].at \in Alive => Contains(more, Post(s, "close"))
<1> DEFINE lost == {s \in Sockets : sock[s].at \in {"connecting", "up"}}
<1>1. sock \in SockType /\ gui \in Seq(Entry)
  BY TypedOK DEF Typed
<1>2. sock' \in SockType /\ \A s \in Sockets : /\ sock'[s].at \notin Alive
                                               /\ sock'[s].at = "free" <=> sock[s].at = "free"
  BY <1>1 DEF Crash, SockType, Connection, Alive
<1>3. lost \in SUBSET Sockets /\ IsFiniteSet(lost)
  BY TabAssumption, FS_Subset
<1>4. PICK order \in SetToSeqs(lost) :
        gui' = gui \o [i \in DOMAIN order |-> Post(order[i], "close")]
  BY DEF Crash
<1> DEFINE more == [i \in DOMAIN order |-> Post(order[i], "close")]
<1>5. /\ order \in Seq(lost) /\ DOMAIN order = 1 .. Len(order) /\ Len(order) \in Nat
      /\ \A s \in lost : \E i \in DOMAIN order : order[i] = s
  BY <1>3, OrderCovers
<1>6. /\ more \in [1 .. Len(order) -> Entry]
      /\ \A i \in 1 .. Len(order) : more[i] = Post(order[i], "close")
  <2>1. \A i \in 1 .. Len(order) : Post(order[i], "close") \in Entry
    BY <1>3, <1>5 DEF Post, Entry
  <2> QED
    BY <1>5, <2>1
<1>7. more \in Seq(Entry) /\ DOMAIN more = 1 .. Len(order) /\ Len(more) = Len(order)
  BY <1>5, <1>6
<1>8. \A i \in DOMAIN more : more[i].callback # "open"
  BY <1>6, <1>7 DEF Post
<1>9. \A s \in Sockets : sock[s].at \in Alive => Contains(more, Post(s, "close"))
  BY <1>5, <1>6, <1>7 DEF Contains, Alive
<1>10. gui' = gui \o more
  BY <1>4
<1> HIDE DEF more
<1>11. gui' \in Seq(Entry)
  BY <1>1, <1>7, <1>10
<1> QED
  BY <1>2, <1>7, <1>8, <1>9, <1>10, <1>11

\* Every step keeps the types.
LEMMA TypeStep ==
  ASSUME TypeOK, [Next]_vars
  PROVE  TypeOK'
<1> SUFFICES Typed'
  BY TypedOK, PTL
<1>0. Typed
  BY TypedOK
<1>1. ASSUME NEW d \in Dests, Select(d)
      PROVE  Typed'
  BY <1>0, <1>1, CountTyped DEF Typed, Select
<1>2. CASE CheckCommand
  <2>1. <<Manual(sel), TabFrame>> \in Seq(FrameType)
    BY FramesTyped
  <2>2. sock' \in SockType
    BY <1>2, <2>1, SendTyped DEF CheckCommand
  <2> QED
    BY <1>0, <1>2, <2>2, CountTyped DEF Typed, CheckCommand, PlugType
<1>3. ASSUME NEW s \in Sockets, ReconnectCommand(s)
      PROVE  Typed'
  <2>1. Reconnect(s)
    BY <1>3 DEF ReconnectCommand
  <2>2. /\ sock' \in SockType /\ gui' \in Seq(Entry)
        /\ srv' \in SrvType
    BY <2>1, ReconnectTyped
  <2> QED
    BY <1>0, <1>3, <2>2, CountTyped DEF Typed, ReconnectCommand, PlugType
<1>4. ASSUME NEW s \in Sockets, TimerReconnects(s)
      PROVE  Typed'
  <2>1. Reconnect(s)
    BY <1>4 DEF TimerReconnects
  <2>2. /\ sock' \in SockType /\ gui' \in Seq(Entry)
        /\ srv' \in SrvType
    BY <2>1, ReconnectTyped
  <2> QED
    BY <1>0, <1>4, <2>2 DEF Typed, TimerReconnects, PlugType
<1>5. ASSUME NEW s \in Sockets, Collect(s)
      PROVE  Typed'
  <2>1. Free \in Connection
    BY DEF Free, Connection
  <2>2. sock' \in SockType
    BY <1>0, <1>5, <2>1 DEF Typed, Collect, SockType
  <2>3. gui' \in Seq(Entry)
    BY <1>0, <1>5, QueueCleared DEF Typed, Collect
  <2>4. srv.backlog \in Seq(Sockets)
        /\ {i \in DOMAIN srv.backlog : srv.backlog[i] # s} \in SUBSET DOMAIN srv.backlog
    BY <1>0 DEF Typed, SrvType
  <2>5. Kept(srv.backlog, {i \in DOMAIN srv.backlog : srv.backlog[i] # s}) \in Seq(Sockets)
    BY <2>4, KeptThere
  <2> QED
    BY <1>0, <1>5, <2>2, <2>3, <2>5 DEF Typed, Collect, SrvType
<1>6. ASSUME NEW s \in Sockets, Callback(s)
      PROVE  Typed'
  <2>1. gui' \in Seq(Entry)
    BY <1>6, DueTyped DEF Callback, OnOpen, OnCheck, OnTick, OnClose
  <2>2. <<TabFrame>> \in Seq(FrameType)
    BY FramesTyped
  <2>3. CASE OnOpen(s)
    <3>1. sock' \in SockType
      BY <2>2, <2>3, SendTyped DEF OnOpen
    <3> QED
      BY <1>0, <2>1, <2>3, <3>1 DEF Typed, OnOpen, PlugType
  <2>4. ASSUME Check
        PROVE  sock' \in SockType /\ plug' = [plug EXCEPT !.last = sel]
    BY <2>2, <2>4, SendTyped DEF Check
  <2>5. CASE OnCheck(s)
    BY <1>0, <2>1, <2>4, <2>5 DEF Typed, OnCheck, PlugType
  <2>6. CASE OnTick(s)
    BY <1>0, <2>1, <2>4, <2>6 DEF Typed, OnTick, PlugType
  <2>7. CASE OnClose(s)
    <3>1. plug' \in PlugType
      BY <1>0, <2>7 DEF Typed, OnClose, PlugType, ScheduleReconnect
    <3>2. timers' \in Nat
      BY <1>0, <2>7 DEF Typed, OnClose, ScheduleReconnect
    <3> QED
      BY <1>0, <2>1, <2>7, <3>1, <3>2 DEF Typed, OnClose
  <2> QED
    BY <1>6, <2>3, <2>5, <2>6, <2>7 DEF Callback
<1>7. ASSUME NEW s \in Sockets, Accept(s)
      PROVE  Typed'
  <2>1. <<Post(s, "open"), Post(s, "check")>> \in Seq(Entry)
    BY DEF Post, Entry
  <2>2. gui' \in Seq(Entry)
    BY <1>0, <1>7, <2>1 DEF Typed, Accept
  <2>3. Answer(s)
    BY <1>7 DEF Accept
  <2> QED
    BY <1>0, <2>2, <2>3, AnswerTyped DEF Typed, Answer
<1>8. ASSUME NEW s \in Sockets, Frame(s)
      PROVE  sock' \in SockType /\ Head(sock[s].frames).dest \in Dests
  BY <1>8, FrameTyped DEF FrameType
<1>9. ASSUME NEW s \in Sockets, FrameIgnored(s)
      PROVE  Typed'
  BY <1>0, <1>8, <1>9 DEF Typed, FrameIgnored, Frame
<1>10. ASSUME NEW s \in Sockets, FrameSkipped(s)
       PROVE  Typed'
  BY <1>0, <1>8, <1>10 DEF Typed, FrameSkipped, Heard, Frame, SrvType
<1>11. ASSUME NEW s \in Sockets, FrameSwitches(s)
       PROVE  Typed'
  <2>1. Heard(s) /\ Frame(s)
    BY <1>11 DEF FrameSwitches, Heard
  <2>2. sock' \in SockType /\ Head(sock[s].frames).dest \in Dests
    BY <1>8, <2>1
  <2>3. srv' \in SrvType
    <3>1. srv' = [srv EXCEPT !.heard = Head(sock[s].frames).dest]
      BY <2>1 DEF Heard
    <3>2. srv \in SrvType
      BY <1>0 DEF Typed
    <3> QED
      BY <2>2, <3>1, <3>2 DEF SrvType
  <2>4. fol' \in FolType
    <3>1. \/ \E d \in Dests : fol' = [dest |-> d, debounce |-> TRUE]
          \/ fol' = [fol EXCEPT !.debounce = TRUE]
      BY <1>11, <2>2 DEF FrameSwitches
    <3>2. fol \in FolType
      BY <1>0 DEF Typed
    <3>3. CASE \E d \in Dests : fol' = [dest |-> d, debounce |-> TRUE]
      BY <3>3 DEF FolType
    <3>4. CASE fol' = [fol EXCEPT !.debounce = TRUE]
      BY <3>2, <3>4 DEF FolType
    <3> QED
      BY <3>1, <3>3, <3>4
  <2> QED
    BY <1>0, <2>1, <2>2, <2>3, <2>4 DEF Typed, Frame
<1>12. ASSUME NEW s \in Sockets, Tick(s)
       PROVE  Typed'
  <2>1. Post(s, "tick") \in Entry
    BY DEF Post, Entry
  <2>2. gui' \in Seq(Entry)
    BY <1>0, <1>12, <2>1 DEF Typed, Tick
  <2> QED
    BY <1>0, <1>12, <2>2 DEF Typed, Tick
<1>13. CASE TimerIdle
  <2>1. plug' \in PlugType
    BY <1>0, <1>13 DEF Typed, TimerIdle, PlugType
  <2>2. timers' \in Nat
    BY <1>0, <1>13 DEF Typed, TimerIdle
  <2> QED
    BY <1>0, <1>13, <2>1, <2>2 DEF Typed, TimerIdle
<1>14. CASE DebounceOver
  BY <1>0, <1>14 DEF Typed, DebounceOver, FolType
<1>15. CASE Crash
  <2>1. sock' \in SockType /\ gui' \in Seq(Entry)
    BY <1>15, CrashTyped
  <2>2. srv' \in SrvType /\ fol' \in FolType
    BY <1>15 DEF Crash, SrvType, FolType
  <2>3. env.crashes < MaxCrashes /\ env' = [env EXCEPT !.crashes = @ + 1]
        /\ UNCHANGED <<sel, plug, timers>>
    BY <1>15 DEF Crash
  <2> QED
    BY <1>0, <2>1, <2>2, <2>3, CountTyped DEF Typed
<1>16. CASE Restart
  BY <1>0, <1>16 DEF Typed, Restart, SrvType
<1>17. CASE UNCHANGED vars
  BY <1>0, <1>17 DEF Typed, vars
<1> QED
  BY <1>1, <1>2, <1>3, <1>4, <1>5, <1>6, <1>7, <1>9, <1>10, <1>11, <1>12, <1>13,
     <1>14, <1>15, <1>16, <1>17 DEF Next, Serve
-----------------------------------------------------------------------------
(* Safety. *)

\* A step that leaves the connections, the plugin's socket and the order of the
\* callbacks as they were.
LEMMA Settled ==
  ASSUME IInv, plug'.ws = plug.ws, plug.ws \in Sockets,
         \A s \in Sockets : sock'[s].at = sock[s].at,
         ~srv'.up => ~srv.up, srv'.backlog = srv.backlog,
         OpensPrecede(gui, plug.ws) => OpensPrecede(gui', plug.ws)
  PROVE  Named' /\ Gone' /\ Followup'
BY DEF IInv, Named, Gone, Followup

\* A step that, besides, leaves what the plugin waits for.
LEMMA Quiet ==
  ASSUME IInv, plug'.ws = plug.ws, plug.ws \in Sockets,
         plug'.connected = plug.connected, plug'.scheduled = plug.scheduled,
         timers' = timers,
         \A s \in Sockets : sock'[s].at = sock[s].at,
         \A callback \in {"open", "close"} :
           Contains(gui, Post(plug.ws, callback)) => Contains(gui', Post(plug.ws, callback))
  PROVE  NeverGivesUp' /\ SendsGoSomewhere'
<1>1. /\ Contains(gui, Post(plug.ws, "open")) => Contains(gui', Post(plug.ws, "open"))
      /\ Contains(gui, Post(plug.ws, "close")) => Contains(gui', Post(plug.ws, "close"))
  OBVIOUS
<1>2. NeverGivesUp'
  BY <1>1 DEF IInv, NeverGivesUp
<1>3. SendsGoSomewhere'
  BY <1>1 DEF IInv, SendsGoSomewhere
<1> QED
  BY <1>2, <1>3

\* Every step keeps the invariant.
LEMMA Step ==
  ASSUME IInv, [Next]_vars
  PROVE  IInv'
<1> DEFINE Safe == NeverGivesUp /\ SendsGoSomewhere /\ Named /\ Gone /\ Followup
<1>t. TypeOK'
  BY TypeStep DEF IInv
<1> SUFFICES Safe'
  BY <1>t DEF IInv
<1>0. Typed /\ TypeOK /\ plug.ws \in Sockets /\ gui \in Seq(Entry) /\ plug \in PlugType
      /\ sock \in SockType
  BY TypedOK DEF IInv, Typed, PlugType
<1>1. ASSUME UNCHANGED <<timers, srv, gui>>, \A s \in Sockets : sock'[s].at = sock[s].at,
             plug'.ws = plug.ws, plug'.connected = plug.connected,
             plug'.scheduled = plug.scheduled
      PROVE  Safe'
  BY <1>0, <1>1, Settled, Quiet
<1>2. ASSUME NEW d \in Dests, Select(d)
      PROVE  Safe'
  BY <1>1, <1>2 DEF Select
<1>3. CASE CheckCommand
  <2>1. <<Manual(sel), TabFrame>> \in Seq(FrameType)
    BY <1>0, FramesTyped
  <2>2. \A s \in Sockets : sock'[s].at = sock[s].at
    BY <1>0, <1>3, <2>1, SendTyped DEF CheckCommand
  <2>3. plug'.ws = plug.ws /\ plug'.connected = plug.connected
        /\ plug'.scheduled = plug.scheduled
    BY <1>0, <1>3 DEF CheckCommand, PlugType
  <2> QED
    BY <1>1, <1>3, <2>2, <2>3 DEF CheckCommand
<1>4. ASSUME NEW s \in Sockets, Reconnect(s), plug'.ws = s, ~plug'.connected,
             plug'.scheduled => timers' > 0, ~plug'.scheduled => timers' = timers
      PROVE  Safe'
  <2>1. \A t \in Sockets : sock'[t].at =
          IF t = s THEN (IF srv.up THEN "connecting" ELSE "dead") ELSE sock[t].at
    <3>1. (IF srv.up THEN "connecting" ELSE "dead") \in {"free", "connecting", "up", "dead"}
      OBVIOUS
    <3>2. sock' = [sock EXCEPT ![s].at = IF srv.up THEN "connecting" ELSE "dead"]
      BY <1>4 DEF Reconnect
    <3> QED
      BY <1>0, <3>1, <3>2, SocketMoves
  <2>2. CASE srv.up
    <3>1. sock'[s].at = "connecting" /\ srv'.up
      BY <1>0, <1>4, <2>1, <2>2 DEF Reconnect, Typed, SrvType
    <3> QED
      BY <1>4, <3>1 DEF NeverGivesUp, SendsGoSomewhere, Named, Gone, Followup
  <2>3. CASE ~srv.up
    <3>1. sock'[s].at = "dead" /\ srv' = srv /\ gui' = gui \o <<Post(s, "close")>>
      BY <1>0, <1>4, <2>1, <2>3 DEF Reconnect
    <3>2. <<Post(s, "close")>> \in Seq(Entry)
      BY DEF Post, Entry
    <3>3. Contains(<<Post(s, "close")>>, Post(s, "close"))
      BY DEF Contains
    <3>4. \A i \in DOMAIN <<Post(s, "close")>> : <<Post(s, "close")>>[i].callback # "open"
      BY DEF Post
    <3>5. Contains(gui', Post(s, "close")) /\ OpensPrecede(gui', s)
      BY <1>0, <3>1, <3>2, <3>3, <3>4, QueueGrown
    <3>6. NeverGivesUp' /\ SendsGoSomewhere'
      BY <1>4, <3>5 DEF NeverGivesUp, SendsGoSomewhere
    <3>7. Named' /\ Followup'
      BY <1>4, <3>1, <3>5 DEF Named, Followup
    <3>8. Gone'
      BY <1>4, <2>1, <2>3, <3>1 DEF IInv, Gone, Alive
    <3> QED
      BY <3>6, <3>7, <3>8
  <2> QED
    BY <2>2, <2>3
<1>5. ASSUME NEW s \in Sockets, ReconnectCommand(s)
      PROVE  Safe'
  <2>1. plug'.ws = s /\ ~plug'.connected /\ plug'.scheduled = plug.scheduled
    BY <1>0, <1>5 DEF ReconnectCommand, PlugType
  <2>2. plug.scheduled => timers > 0
    BY DEF IInv, NeverGivesUp
  <2> QED
    BY <1>4, <1>5, <2>1, <2>2 DEF ReconnectCommand
<1>6. ASSUME NEW s \in Sockets, TimerReconnects(s)
      PROVE  Safe'
  <2>1. plug'.ws = s /\ ~plug'.connected
    BY <1>0, <1>6 DEF TimerReconnects, PlugType
  <2> QED
    BY <1>4, <1>6, <2>1 DEF TimerReconnects
<1>7. ASSUME NEW s \in Sockets, Collect(s)
      PROVE  Safe'
  <2>1. /\ \A t \in Sockets : t # s => sock'[t] = sock[t]
        /\ sock'[s].at = "free" /\ s # plug.ws
    BY <1>0, <1>7 DEF Collect, SockType, Free
  <2>2. /\ \A x : x.socket # s /\ Contains(gui, x) => Contains(gui', x)
        /\ \A t : t # s /\ OpensPrecede(gui, t) => OpensPrecede(gui', t)
    BY <1>0, <1>7, QueueCleared DEF Collect
  <2>3. /\ Contains(gui, Post(plug.ws, "open")) => Contains(gui', Post(plug.ws, "open"))
        /\ Contains(gui, Post(plug.ws, "close")) => Contains(gui', Post(plug.ws, "close"))
        /\ OpensPrecede(gui, plug.ws) => OpensPrecede(gui', plug.ws)
    BY <2>1, <2>2 DEF Post
  <2>4. srv'.up = srv.up /\ (srv.backlog = <<>> => srv'.backlog = <<>>)
    <3>1. srv' = [srv EXCEPT !.backlog =
                    Kept(srv.backlog, {i \in DOMAIN srv.backlog : srv.backlog[i] # s})]
      BY <1>7 DEF Collect
    <3>2. ASSUME srv.backlog = <<>>
          PROVE  Kept(srv.backlog, {i \in DOMAIN srv.backlog : srv.backlog[i] # s}) = <<>>
      <4>1. {i \in DOMAIN srv.backlog : srv.backlog[i] # s} = {}
        BY <3>2
      <4> DEFINE kept == Kept(srv.backlog, {})
      <4>2. srv.backlog \in Seq(Sockets) /\ {} \in SUBSET DOMAIN srv.backlog
        BY <1>0 DEF Typed, SrvType
      <4>3. kept \in Seq(Sockets) /\ \A n \in DOMAIN kept : FALSE
        BY <4>2, KeptThere
      <4> HIDE DEF kept
      <4>4. kept = <<>>
        <5>1. Len(kept) \in Nat /\ DOMAIN kept = 1 .. Len(kept)
          BY <4>3
        <5>2. Len(kept) = 0
          BY <4>3, <5>1
        <5> QED
          BY <4>3, <5>2
      <4> QED
        BY <4>1, <4>4 DEF kept
    <3> QED
      BY <1>0, <3>1, <3>2 DEF Typed, SrvType
  <2>5. NeverGivesUp'
    BY <1>0, <1>7, <2>1, <2>3 DEF IInv, NeverGivesUp, Collect
  <2>6. SendsGoSomewhere' /\ Named' /\ Followup'
    BY <1>0, <1>7, <2>1, <2>3 DEF IInv, SendsGoSomewhere, Named, Followup, Collect
  <2>7. Gone'
    BY <1>0, <1>7, <2>1, <2>4 DEF IInv, Gone, Collect, Alive
  <2> QED
    BY <2>5, <2>6, <2>7
<1>8. ASSUME NEW s \in Sockets, NEW callback \in {"open", "check", "tick", "close"},
             Due(s, callback)
      PROVE  /\ \A x : x # Post(s, callback) /\ Contains(gui, x) => Contains(gui', x)
             /\ \A t : OpensPrecede(gui, t) => OpensPrecede(gui', t)
             /\ callback \in {"check", "tick"} =>
                  \A more \in {"open", "close"} :
                    Contains(gui, Post(plug.ws, more)) => Contains(gui', Post(plug.ws, more))
  BY <1>0, <1>8, DueTyped DEF Post
<1>9. ASSUME Send(<<TabFrame>>)
      PROVE  \A s \in Sockets : sock'[s].at = sock[s].at
  <2>1. <<TabFrame>> \in Seq(FrameType)
    BY <1>0, FramesTyped
  <2> QED
    BY <1>0, <1>9, <2>1, SendTyped
<1>10. ASSUME NEW s \in Sockets, OnOpen(s)
       PROVE  Safe'
  <2>1. /\ plug'.ws = plug.ws /\ plug'.connected /\ ~plug'.scheduled
        /\ UNCHANGED <<timers, srv>> /\ Due(s, "open")
    BY <1>0, <1>10 DEF OnOpen, PlugType
  <2>2. \A t \in Sockets : sock'[t].at = sock[t].at
    BY <1>9, <1>10 DEF OnOpen
  <2>3. Named' /\ Gone' /\ Followup'
    BY <1>0, <1>8, <2>1, <2>2, Settled
  <2>4. SendsGoSomewhere'
    <3>1. CASE sock[plug.ws].at = "dead"
      <4>1. 1 \in DOMAIN gui /\ gui[1].callback = "open"
        BY <1>0, <2>1 DEF Due, Post
      <4>2. PICK j \in DOMAIN gui : gui[j] = Post(plug.ws, "close")
        BY <3>1, <4>1 DEF IInv, Followup, OpensPrecede
      <4>3. Contains(gui, Post(plug.ws, "close"))
        BY <1>0, <4>2 DEF Contains
      <4>4. Post(plug.ws, "close") # Post(s, "open")
        BY DEF Post
      <4>5. Contains(gui', Post(plug.ws, "close"))
        BY <1>8, <2>1, <4>3, <4>4
      <4> QED
        BY <2>1, <4>5 DEF SendsGoSomewhere
    <3>2. CASE sock[plug.ws].at # "dead"
      <4>1. sock[plug.ws].at \in {"connecting", "up"}
        BY <1>0, <3>2 DEF IInv, Named, SockType, Connection
      <4> QED
        BY <1>0, <2>1, <2>2, <4>1 DEF SendsGoSomewhere
    <3> QED
      BY <3>1, <3>2
  <2>5. NeverGivesUp'
    BY <2>1 DEF NeverGivesUp
  <2> QED
    BY <2>3, <2>4, <2>5
<1>11. ASSUME NEW s \in Sockets, NEW callback \in {"check", "tick"}, Due(s, callback),
              Check \/ UNCHANGED <<plug, sock>>, UNCHANGED <<timers, srv>>
       PROVE  Safe'
  <2>1. \A t \in Sockets : sock'[t].at = sock[t].at
    BY <1>9, <1>11 DEF Check
  <2>2. /\ plug'.ws = plug.ws /\ plug'.connected = plug.connected
        /\ plug'.scheduled = plug.scheduled
    BY <1>0, <1>11 DEF Check, PlugType
  <2> QED
    BY <1>0, <1>8, <1>11, <2>1, <2>2, Settled, Quiet
<1>12. ASSUME NEW s \in Sockets, OnCheck(s) \/ OnTick(s)
       PROVE  Safe'
  BY <1>11, <1>12 DEF OnCheck, OnTick
<1>13. ASSUME NEW s \in Sockets, OnClose(s)
       PROVE  Safe'
  <2>1. /\ plug'.ws = plug.ws /\ ~plug'.connected /\ plug'.scheduled
        /\ timers' = IF plug.scheduled THEN timers ELSE timers + 1
        /\ UNCHANGED <<srv, sock>> /\ Due(s, "close")
    BY <1>0, <1>13 DEF OnClose, ScheduleReconnect, PlugType
  <2>2. timers' > 0
    BY <1>0, <2>1 DEF IInv, NeverGivesUp, Typed
  <2>3. Named' /\ Gone' /\ Followup'
    BY <1>0, <1>8, <2>1, Settled
  <2> QED
    BY <2>1, <2>2, <2>3 DEF NeverGivesUp, SendsGoSomewhere
<1>14. ASSUME NEW s \in Sockets, Accept(s)
       PROVE  Safe'
  <2> DEFINE more == <<Post(s, "open"), Post(s, "check")>>
  <2>1. /\ Answer(s) /\ gui' = gui \o more /\ srv.backlog # <<>> /\ srv'.up = srv.up
        /\ UNCHANGED <<plug, timers>>
    BY <1>0, <1>14 DEF Accept, Answer, Typed, SrvType
  <2>2. \A t \in Sockets : sock'[t].at = IF t = s THEN "up" ELSE sock[t].at
    BY <1>0, <2>1, AnswerTyped
  <2>3. srv.up /\ sock[plug.ws].at # "dead"
    BY <2>1 DEF IInv, Gone
  <2>4. more \in Seq(Entry) /\ Contains(more, Post(s, "open"))
    BY DEF Post, Entry, Contains
  <2> HIDE DEF more
  <2>5. \A x : Contains(gui, x) \/ Contains(more, x) => Contains(gui', x)
    BY <1>0, <2>1, <2>4, QueueGrown
  <2>6. NeverGivesUp'
    BY <1>0, <2>1, <2>2, <2>4, <2>5 DEF IInv, NeverGivesUp
  <2>7. SendsGoSomewhere' /\ Named'
    BY <1>0, <2>1, <2>2, <2>5 DEF IInv, SendsGoSomewhere, Named
  <2>8. Gone' /\ Followup'
    BY <1>0, <2>1, <2>2, <2>3 DEF Gone, Followup
  <2> QED
    BY <2>6, <2>7, <2>8
<1>15. ASSUME NEW s \in Sockets, Frame(s), srv'.up = srv.up, srv'.backlog = srv.backlog
       PROVE  Safe'
  <2>1. \A t \in Sockets : sock'[t].at = sock[t].at
    BY <1>0, <1>15, FrameTyped
  <2>2. UNCHANGED <<plug, timers, gui>>
    BY <1>15 DEF Frame
  <2> QED
    BY <1>0, <1>15, <2>1, <2>2, Settled, Quiet
<1>16. ASSUME NEW s \in Sockets, FrameIgnored(s) \/ FrameSkipped(s) \/ FrameSwitches(s)
       PROVE  Safe'
  BY <1>0, <1>15, <1>16 DEF FrameIgnored, FrameSkipped, FrameSwitches, Heard, Typed, SrvType
<1>17. ASSUME NEW s \in Sockets, Tick(s)
       PROVE  Safe'
  <2> DEFINE more == <<Post(s, "tick")>>
  <2>1. gui' = gui \o more /\ UNCHANGED <<sel, plug, timers, sock, srv>>
    BY <1>0, <1>17 DEF Tick
  <2>2. more \in Seq(Entry) /\ \A i \in DOMAIN more : more[i].callback # "open"
    BY DEF Post, Entry
  <2> HIDE DEF more
  <2>3. /\ \A x : Contains(gui, x) => Contains(gui', x)
        /\ OpensPrecede(gui, plug.ws) => OpensPrecede(gui', plug.ws)
    BY <1>0, <2>1, <2>2, QueueGrown
  <2> QED
    BY <1>0, <2>1, <2>3, Settled, Quiet
<1>18. CASE TimerIdle
  <2>1. /\ plug'.ws = plug.ws /\ plug'.connected /\ plug.connected /\ ~plug'.scheduled
        /\ UNCHANGED <<sock, gui, srv>>
    BY <1>0, <1>18 DEF TimerIdle, PlugType
  <2>2. Named' /\ Gone' /\ Followup'
    BY <1>0, <2>1, Settled
  <2> QED
    BY <2>1, <2>2 DEF IInv, NeverGivesUp, SendsGoSomewhere
<1>19. CASE DebounceOver
  BY <1>1, <1>19 DEF DebounceOver
<1>20. CASE Crash
  <2>1. PICK more \in Seq(Entry) :
          /\ gui' = gui \o more
          /\ \A i \in DOMAIN more : more[i].callback # "open"
          /\ \A s \in Sockets : sock[s].at \in Alive => Contains(more, Post(s, "close"))
    BY <1>0, <1>20, CrashTyped
  <2>2. \A s \in Sockets : sock'[s].at \notin Alive /\ (sock'[s].at = "free" <=> sock[s].at = "free")
    BY <1>0, <1>20, CrashTyped
  <2>3. srv'.backlog = <<>> /\ UNCHANGED <<plug, timers>>
    BY <1>20 DEF Crash
  <2>4. /\ \A x : Contains(gui, x) \/ Contains(more, x) => Contains(gui', x)
        /\ OpensPrecede(gui, plug.ws) \/ Contains(more, Post(plug.ws, "close")) =>
             OpensPrecede(gui', plug.ws)
    BY <1>0, <2>1, QueueGrown
  <2>5. sock[plug.ws].at \in Alive \/ sock[plug.ws].at = "dead"
    BY <1>0 DEF IInv, Named, SockType, Connection, Alive
  <2>6. sock[plug.ws].at \in Alive => Contains(gui', Post(plug.ws, "close"))
    BY <1>0, <2>1, <2>4
  <2>7. NeverGivesUp'
    BY <1>0, <2>3, <2>4, <2>6 DEF IInv, NeverGivesUp, Alive
  <2>8. SendsGoSomewhere'
    BY <1>0, <2>3, <2>4, <2>6 DEF IInv, SendsGoSomewhere, Alive
  <2>9. Named' /\ Gone'
    BY <1>0, <2>2, <2>3 DEF IInv, Named, Gone
  <2>10. Followup'
    BY <1>0, <2>1, <2>3, <2>4, <2>5 DEF IInv, Followup
  <2> QED
    BY <2>7, <2>8, <2>9, <2>10
<1>21. CASE Restart
  BY <1>0, <1>21, Settled, Quiet DEF Restart, Typed, SrvType
<1>22. CASE UNCHANGED vars
  BY <1>1, <1>22 DEF vars
<1> QED
  BY <1>2, <1>3, <1>5, <1>6, <1>7, <1>10, <1>12, <1>13, <1>14, <1>16, <1>17, <1>18,
     <1>19, <1>20, <1>21, <1>22 DEF Next, Callback, Serve

\* The plugin starts in it.
LEMMA Start ==
  ASSUME Init
  PROVE  IInv
<1>1. plug.ws \in Sockets
  BY TabAssumption DEF Init
<1>2. sock[plug.ws].at = "connecting" /\ sock \in SockType
  <2>1. /\ [Free EXCEPT !.at = "connecting"] \in Connection /\ Free \in Connection
        /\ [Free EXCEPT !.at = "connecting"].at = "connecting"
    <3>1. <<>> \in Seq(FrameType)
      OBVIOUS
    <3>2. [Free EXCEPT !.at = "connecting"] = [at |-> "connecting", frames |-> <<>>]
      BY DEF Free
    <3> QED
      BY <3>1, <3>2 DEF Free, Connection
  <2> QED
    BY <1>1, <2>1 DEF Init, SockType
<1>3. Typed
  <2>1. srv \in SrvType
    BY <1>1 DEF Init, SrvType
  <2>2. plug \in PlugType /\ fol \in FolType /\ env \in EnvType
    BY <1>1, TabAssumption DEF Init, PlugType, FolType, EnvType
  <2> QED
    BY <1>2, <2>1, <2>2 DEF Init, Typed
<1> QED
  BY <1>2, <1>3, TypedOK DEF Init, IInv, NeverGivesUp, SendsGoSomewhere, Named, Gone, Followup

\* The invariant holds throughout.
LEMMA Invariant == Spec => []IInv
<1>1. IInv /\ [Next]_vars => IInv'
  BY Step
<1> QED
  BY Start, <1>1, PTL DEF Spec

\* A plugin that is not connected has something coming that will make it try
\* again, whichever socket's callbacks come late and however often it is asked
\* to reconnect: schedule_reconnect and its reconnect_scheduled never lock it out.
THEOREM PluginTriesAgain == Spec => []NeverGivesUp
<1>1. IInv => NeverGivesUp
  BY DEF IInv
<1> QED
  BY Invariant, <1>1, PTL

\* The plugin never counts itself connected on a socket that is gone, unless the
\* callback that tells it is still to run.
THEOREM NothingSentInVain == Spec => []SendsGoSomewhere
<1>1. IInv => SendsGoSomewhere
  BY DEF IInv
<1> QED
  BY Invariant, <1>1, PTL
=============================================================================
