----------------------------- MODULE LiveFeedProofs -----------------------------
(***************************************************************************)
(* Theorems about the live feed, for any number of connections and of      *)
(* broadcasts and any capacity of the send channels and of the page's list: *)
(* one connection for each visit, and a list in the order of the broadcasts. *)
(***************************************************************************)
EXTENDS LiveFeed, WebsocketHubProofs

--------------------------------------------------------------------------------
\* What the feed needs to know of the hub.

\* No client was given a broadcast the hub has not taken.
NotAhead ==
  \A c \in Conns : joined[c] + Len(wire[c]) + Len(frame[c]) + Len(send[c]) <= broadcasts

\* What a step of the hub does to one connection, as far as its browser can tell: the
\* hub accepts it, registers it, writes a frame to it, or none of these.
Accepts(c) ==
  /\ stage[c] = "none" /\ stage'[c] = "registering"
  /\ UNCHANGED <<joined[c], wire[c], frame[c], send[c]>>

Registers(c) ==
  /\ stage[c] = "registering" /\ stage'[c] = "registered" /\ joined'[c] = broadcasts
  /\ UNCHANGED <<wire[c], frame[c], send[c], broadcasts>>

Flushes(c) ==
  /\ stage[c] = "pumping"
  /\ wire'[c] = wire[c] \o frame[c] /\ frame'[c] = <<>>
  /\ UNCHANGED <<stage[c], conn[c], joined[c], send[c]>>

\* The steps within the hub: the total of what c was given grows by the broadcast that is
\* being fanned out, if at all.
Elsewhere(c) ==
  /\ UNCHANGED <<joined[c], wire[c]>>
  /\ stage'[c] = stage[c] \/ (stage[c] = "registered" /\ stage'[c] = "pumping")
  /\ conn'[c] = "open" => conn[c] = "open"
  /\ \/ Len(frame'[c]) + Len(send'[c]) = Len(frame[c]) + Len(send[c])
     \/ /\ Len(frame'[c]) + Len(send'[c]) = Len(frame[c]) + Len(send[c]) + 1
        /\ c \in todo

LEMMA ReceiveLengths ==
  ASSUME TypeOK, NEW c \in Conns, Receive(c)
  PROVE  /\ Len(frame'[c]) + Len(send'[c]) = Len(frame[c]) + Len(send[c])
         /\ \A d \in Conns \ {c} : UNCHANGED <<frame[d], send[d]>>
<1> DEFINE s == send[c]  f == frame[c]  n == Len(s)  k == Len(f)
<1>1. /\ s # <<>> /\ s \in Seq(Nat) /\ f \in Seq(Nat)
      /\ send'[c] = Tail(s) /\ frame'[c] = Append(f, Head(s))
  BY Lengths DEF Receive, TypeOK
<1> HIDE DEF s, f
<1>2. n \in Nat /\ k \in Nat /\ Len(Tail(s)) = n - 1 /\ Len(Append(f, Head(s))) = k + 1
  BY <1>1, HeadTailProperties
<1>3. Len(frame'[c]) = k + 1 /\ Len(send'[c]) = n - 1
  BY <1>1, <1>2
<1>4. Len(frame'[c]) + Len(send'[c]) = k + n
  BY <1>2, <1>3
<1>5. \A d \in Conns \ {c} : UNCHANGED <<frame[d], send[d]>>
  BY DEF Receive, TypeOK
<1> QED
  BY <1>4, <1>5 DEF s, f

LEMMA HubEffect ==
  ASSUME IInv, Next
  PROVE  /\ broadcasts' \in Nat /\ broadcasts \in Nat /\ broadcasts <= broadcasts'
         /\ \A c \in Conns : Accepts(c) \/ Registers(c) \/ Flushes(c) \/ Elsewhere(c)
<1>1. TypeOK /\ broadcasts \in Nat
  BY DEF IInv, TypeOK
<1>2. ASSUME NEW w \in Workers, BroadcastEvent(w) \/ TakeBroadcast(w)
      PROVE  /\ broadcasts' \in Nat /\ broadcasts <= broadcasts'
             /\ \A c \in Conns : Elsewhere(c)
  <2>1. /\ UNCHANGED <<joined, wire, stage, conn, frame, send>>
        /\ broadcasts' \in {broadcasts, broadcasts + 1}
    BY <1>2 DEF BroadcastEvent, TakeBroadcast, pumpVars
  <2> QED
    BY <1>1, <2>1 DEF Elsewhere
<1>3. ASSUME NEW c \in Conns,
             \/ ServeWs(c) \/ StartPumps(c) \/ PeerLeaves(c)
             \/ Register(c) \/ Unregister(c) \/ FanOut(c)
             \/ ReaderStep(c) \/ WriterStep(c) \/ PingFails(c)
      PROVE  /\ broadcasts' = broadcasts
             /\ \A d \in Conns : Accepts(d) \/ Registers(d) \/ Flushes(d) \/ Elsewhere(d)
  <2>1. CASE ServeWs(c)
    <3>1. \A d \in Conns \ {c} : Elsewhere(d)
      BY <1>1, <2>1 DEF ServeWs, Elsewhere, TypeOK, hubVars, pumpVars
    <3>2. Accepts(c)
      BY <1>1, <2>1 DEF ServeWs, Accepts, TypeOK, hubVars, pumpVars
    <3> QED
      BY <2>1, <3>1, <3>2 DEF ServeWs, hubVars
  <2>2. CASE Register(c)
    <3>1. \A d \in Conns \ {c} : Elsewhere(d)
      BY <1>1, <2>2 DEF Register, Elsewhere, TypeOK, pumpVars
    <3>2. Registers(c)
      BY <1>1, <2>2 DEF Register, Registers, TypeOK, pumpVars
    <3> QED
      BY <2>2, <3>1, <3>2 DEF Register
  <2>3. CASE StartPumps(c) \/ PeerLeaves(c) \/ Unregister(c) \/ ReaderStep(c) \/ PingFails(c)
             \/ WriterCount(c) \/ WriterFlushFails(c) \/ WriterEnds(c)
    <3>1. /\ UNCHANGED <<broadcasts, joined, wire, frame, send>>
          /\ \A d \in Conns : stage'[d] = stage[d] \/ (stage[d] = "registered" /\ stage'[d] = "pumping")
          /\ \A d \in Conns : conn'[d] = "open" => conn[d] = "open"
      BY <1>1, <2>3
         DEF StartPumps, PeerLeaves, Unregister, ReaderStep, ReadFails, ReaderCloses, PingFails, WriterCount,
             WriterFlushFails, WriterEnds, WriterReturns, TypeOK, hubVars, pumpVars
    <3> QED
      BY <3>1 DEF Elsewhere
  <2>4. CASE FanOut(c)
    <3>1. UNCHANGED <<broadcasts, joined, wire, frame, stage, conn>> /\ c \in todo
      BY <2>4 DEF FanOut, pumpVars
    <3>2. \A d \in Conns \ {c} : send'[d] = send[d]
      BY <1>1, <2>4 DEF FanOut, Push, DropClient, TypeOK
    <3>3. Len(send'[c]) \in {Len(send[c]), Len(send[c]) + 1} /\ Len(send[c]) \in Nat /\ Len(frame[c]) \in Nat
      <4> DEFINE s == send[c]
      <4>1. s \in Seq(Nat) /\ Len(frame[c]) \in Nat
        BY <1>1, Lengths
      <4>2. send'[c] = s \/ send'[c] = Append(s, broadcasts)
        BY <1>1, <2>4 DEF FanOut, Push, DropClient, TypeOK
      <4> HIDE DEF s
      <4>3. Len(s) \in Nat /\ Len(Append(s, broadcasts)) = Len(s) + 1
        BY <1>1, <4>1, AppendProperties
      <4>4. Len(send'[c]) \in {Len(s), Len(s) + 1} /\ Len(s) \in Nat /\ Len(frame[c]) \in Nat
        BY <4>1, <4>2, <4>3
      <4> QED
        BY <4>4 DEF s
    <3>4. Elsewhere(c)
      <4> DEFINE f == Len(frame[c])  s == Len(send[c])  r == Len(send'[c])
      <4>1. f \in Nat /\ s \in Nat /\ (r = s \/ r = s + 1) /\ Len(frame'[c]) = f
        BY <3>1, <3>3
      <4> HIDE DEF f, s, r
      <4>2. f + r = f + s \/ f + r = f + s + 1
        BY <4>1
      <4> QED
        BY <3>1, <4>1, <4>2 DEF Elsewhere, f, s, r
    <3>5. \A d \in Conns \ {c} : Elsewhere(d)
      BY <3>1, <3>2 DEF Elsewhere
    <3> QED
      BY <3>1, <3>4, <3>5
  <2>5. CASE WriterTake(c) \/ WriterTakeFails(c) \/ WriterBatch(c)
    <3>1. Receive(c) /\ UNCHANGED <<broadcasts, joined, wire, stage>>
      BY <2>5 DEF WriterTake, WriterTakeFails, WriterBatch, hubVars
    <3>2. \A d \in Conns : conn'[d] = "open" => conn[d] = "open"
      BY <1>1, <2>5 DEF WriterTake, WriterTakeFails, WriterBatch, WriterReturns, TypeOK
    <3> QED
      BY <1>1, <3>1, <3>2, ReceiveLengths DEF Elsewhere
  <2>6. CASE WriterFlush(c)
    <3>1. stage[c] = "pumping"
      BY <2>6 DEF WriterFlush, IInv, ConnInv, Lifecycle
    <3>2. Flushes(c)
      BY <1>1, <2>6, <3>1 DEF WriterFlush, Flushes, TypeOK
    <3>3. \A d \in Conns \ {c} : Elsewhere(d)
      BY <1>1, <2>6 DEF WriterFlush, Elsewhere, TypeOK
    <3> QED
      BY <2>6, <3>2, <3>3 DEF WriterFlush, hubVars
  <2> QED
    BY <1>3, <2>1, <2>2, <2>3, <2>4, <2>5, <2>6 DEF WriterStep
<1> QED
  BY <1>1, <1>2, <1>3 DEF Next

LEMMA NotAheadStep ==
  ASSUME IInv, NotAhead, Next
  PROVE  NotAhead'
<1> SUFFICES ASSUME NEW c \in Conns
             PROVE  joined'[c] + Len(wire'[c]) + Len(frame'[c]) + Len(send'[c]) <= broadcasts'
  BY DEF NotAhead
<1> DEFINE j == joined[c]   w == Len(wire[c])   f == Len(frame[c])   s == Len(send[c])
           k == joined'[c]  x == Len(wire'[c])  g == Len(frame'[c])  r == Len(send'[c])
<1>1. w \in Nat /\ f \in Nat /\ s \in Nat /\ j \in Nat /\ j + w + f + s <= broadcasts
  BY Lengths DEF IInv, NotAhead
<1>2. broadcasts' \in Nat /\ broadcasts \in Nat /\ broadcasts <= broadcasts'
  BY HubEffect
<1>3. x \in Nat /\ g \in Nat /\ r \in Nat /\ k \in Nat
  <2>1. TypeOK'
    BY IInvStep DEF IInv
  <2>2. /\ wire'[c] \in Seq(1..MaxBroadcasts) /\ frame'[c] \in Seq(1..MaxBroadcasts)
        /\ send'[c] \in Seq(1..MaxBroadcasts) /\ joined'[c] \in 0..MaxBroadcasts
    BY <2>1 DEF TypeOK
  <2>3. k \in Nat
    BY <2>2
  <2> QED
    BY <2>2, <2>3, LenProperties
<1>4. CASE Accepts(c)
  <2>1. k = j /\ x = w /\ g = f /\ r = s
    BY <1>4 DEF Accepts
  <2> HIDE DEF j, w, f, s, k, x, g, r
  <2>2. k + x + g + r <= broadcasts'
    BY <1>1, <1>2, <2>1
  <2> QED
    BY <2>2 DEF k, x, g, r
<1>5. CASE Registers(c)
  <2>1. wire[c] = <<>> /\ frame[c] = <<>> /\ send[c] = <<>>
    BY <1>5 DEF Registers, IInv, ConnInv, Lifecycle
  <2>2. x = 0 /\ g = 0 /\ r = 0 /\ k = broadcasts
    BY <1>5, <2>1, EmptySeq DEF Registers
  <2> QED
    BY <1>2, <2>2
<1>6. CASE Flushes(c)
  <2>1. x = w + f
    <3>1. wire[c] \in Seq(Nat) /\ frame[c] \in Seq(Nat)
      BY Lengths DEF IInv
    <3> QED
      BY <1>6, <3>1, ConcatProperties DEF Flushes
  <2>2. g = 0 /\ k = j /\ r = s
    BY <1>6, EmptySeq DEF Flushes
  <2> HIDE DEF j, w, f, s, k, x, g, r
  <2>3. k + x + g + r <= broadcasts'
    BY <1>1, <1>2, <2>1, <2>2
  <2> QED
    BY <2>3 DEF k, x, g, r
<1>7. CASE Elsewhere(c)
  <2>1. c \in todo => j + w + f + s = broadcasts - 1
    <3>1. c \in todo => c \in clients
      BY DEF IInv, TypeOK
    <3> QED
      BY <3>1 DEF IInv, ConnInv, InPlace, UpTo
  <2>2. k = j /\ x = w /\ (g + r = f + s \/ (g + r = f + s + 1 /\ c \in todo))
    BY <1>7 DEF Elsewhere
  <2> HIDE DEF j, w, f, s, k, x, g, r
  <2>3. k + x + g + r <= broadcasts'
    BY <1>1, <1>2, <1>3, <2>1, <2>2
  <2> QED
    BY <2>3 DEF k, x, g, r
<1> QED
  BY <1>4, <1>5, <1>6, <1>7, HubEffect

--------------------------------------------------------------------------------
\* The frames that lie in a browser's inbox.

\* The last number of a frame.
End(f) == f[Len(f)]

\* The number frame i of the inbox q follows, when the browser is at b; one more than
\* the last frame: where the next one has to go on.
Start(q, b, i) == IF i = 1 THEN b ELSE End(q[i - 1])

\* The frames go on from b, none of them empty.
Follow(q, b) == \A i \in 1..Len(q) : q[i] # <<>> /\ Run(q[i], Start(q, b, i))

LEMMA FollowAppend ==
  ASSUME NEW S, NEW q \in Seq(S), NEW f \in S, NEW b, f # <<>>,
         Follow(q, b), Run(f, Start(q, b, Len(q) + 1))
  PROVE  /\ Follow(Append(q, f), b)
         /\ Start(Append(q, f), b, Len(Append(q, f)) + 1) = End(f)
<1> DEFINE r == Append(q, f)  n == Len(q)
<1>1. /\ n \in Nat /\ Len(r) = n + 1 /\ r[n + 1] = f
      /\ \A i \in 1..n : r[i] = q[i]
  BY AppendProperties, LenProperties
<1> HIDE DEF r, n
<1>2. \A i \in 1..(n + 1) : Start(r, b, i) = Start(q, b, i)
  BY <1>1 DEF Start
<1>3. ASSUME NEW i \in 1..(n + 1) PROVE r[i] # <<>> /\ Run(r[i], Start(r, b, i))
  <2>1. CASE i = n + 1
    BY <1>1, <1>2, <2>1 DEF n
  <2>2. CASE i # n + 1
    <3>1. i \in 1..n
      BY <1>1, <2>2
    <3> QED
      BY <1>1, <1>2, <3>1 DEF Follow, n
  <2> QED
    BY <2>1, <2>2
<1>4. Start(r, b, Len(r) + 1) = End(f)
  <2>1. n + 1 + 1 # 1 /\ n + 1 + 1 - 1 = n + 1
    BY <1>1
  <2> QED
    BY <1>1, <2>1 DEF Start
<1> QED
  BY <1>1, <1>3, <1>4 DEF Follow, r

LEMMA EndOfRun ==
  ASSUME NEW f \in Seq(Nat), f # <<>>, NEW b \in Nat, Run(f, b)
  PROVE  End(f) = b + Len(f) /\ Len(f) \in Nat \ {0}
<1>1. Len(f) \in Nat \ {0}
  BY EmptySeq
<1> QED
  BY <1>1 DEF Run, End

\* A bound on the ends of the frames may grow.
LEMMA EndsBelow ==
  ASSUME NEW q \in Seq(Seq(Nat)), \A i \in 1..Len(q) : q[i] # <<>>,
         NEW m \in Nat, NEW n \in Nat, m <= n, \A i \in 1..Len(q) : End(q[i]) <= m
  PROVE  \A i \in 1..Len(q) : End(q[i]) <= n
<1> DEFINE S == Seq(Nat)
<1>1. q \in Seq(S)
  OBVIOUS
<1>2. \A f \in S : f # <<>> => End(f) \in Nat
  <2>1. \A f \in S : f # <<>> => Len(f) \in 1..Len(f)
    BY EmptySeq
  <2> QED
    BY <2>1, LenProperties DEF End
<1> HIDE DEF S
<1>3. \A i \in 1..Len(q) : q[i] \in S
  BY <1>1
<1>4. \A i \in 1..Len(q) : End(q[i]) \in Nat
  BY <1>2, <1>3
<1> QED
  BY <1>4

LEMMA FollowTail ==
  ASSUME NEW q \in Seq(Seq(Nat)), NEW b \in Nat, q # <<>>, Follow(q, b)
  PROVE  /\ Head(q) \in Seq(Nat) /\ Head(q) = q[1] /\ 1 \in 1..Len(q)
         /\ Head(q) # <<>> /\ Run(Head(q), b) /\ End(Head(q)) = b + Len(Head(q))
         /\ Follow(Tail(q), b + Len(Head(q)))
         /\ Start(Tail(q), b + Len(Head(q)), Len(Tail(q)) + 1) = Start(q, b, Len(q) + 1)
<1> DEFINE S == Seq(Nat)  r == Tail(q)  n == Len(q)  h == Head(q)  e == b + Len(h)
<1>1. q \in Seq(S)
  OBVIOUS
<1> HIDE DEF S
<1>2. /\ n \in Nat \ {0} /\ h = q[1] /\ h \in S /\ Len(r) = n - 1
      /\ \A i \in 1..(n - 1) : r[i] = q[i + 1]
  BY <1>1, HeadTailProperties, EmptySeq
<1> HIDE DEF r, n, h
<1>3. h # <<>> /\ Run(h, b)
  <2>1. 1 \in 1..n
    BY <1>2
  <2> QED
    BY <1>2, <2>1 DEF Follow, Start, n
<1>4. End(h) = e
  BY <1>2, <1>3, EndOfRun DEF S
<1> HIDE DEF e
<1>5. \A i \in 1..n : Start(r, e, i) = Start(q, b, i + 1)
  <2>1. ASSUME NEW i \in 1..n PROVE Start(r, e, i) = Start(q, b, i + 1)
    <3>1. CASE i = 1
      BY <1>2, <1>4, <3>1 DEF Start
    <3>2. CASE i # 1
      <4>1. i - 1 \in 1..(n - 1) /\ i - 1 + 1 = i /\ i + 1 - 1 = i /\ i + 1 # 1
        BY <1>2, <3>2
      <4> QED
        BY <1>2, <3>2, <4>1 DEF Start
    <3> QED
      BY <3>1, <3>2
  <2> QED
    BY <2>1
<1>6. ASSUME NEW i \in 1..(n - 1) PROVE r[i] # <<>> /\ Run(r[i], Start(r, e, i))
  <2>1. i + 1 \in 1..n /\ i \in 1..n
    BY <1>2
  <2> QED
    BY <1>2, <1>5, <2>1 DEF Follow, n
<1>7. Start(r, e, n) = Start(q, b, n + 1) /\ Len(r) + 1 = n /\ 1 \in 1..n
  BY <1>2, <1>5
<1> QED
  BY <1>2, <1>3, <1>4, <1>6, <1>7 DEF Follow, r, n, h, e, S

--------------------------------------------------------------------------------
\* The invariant of the feed.

FeedTypes ==
  /\ visit \in Nat /\ mounted \in BOOLEAN /\ fresh \in BOOLEAN
  /\ timers \subseteq Nat /\ hook \in [Conns -> Nat]
  /\ current \subseteq Conns
  /\ ready \in [Conns -> {"none", "up", "closing", "closed"}]
  /\ inbox \in [Conns -> Seq(Seq(Nat))]
  /\ handled \in [Conns -> Nat]
  /\ last \in Nat
  /\ feed \in Seq(Nat)

\* A connection nobody has dialled has nothing, and every other, and every timer, is of
\* a visit that was.  Each visit has one connection or its timer.
Sockets ==
  /\ \A c \in Conns :
       ready[c] = "none" => hook[c] = 0 /\ stage[c] = "none" /\ inbox[c] = <<>> /\ handled[c] = 0
  /\ \A c \in Conns : ready[c] # "none" => hook[c] \in 1..visit
  /\ timers \subseteq 1..visit
  /\ OneForEachVisit

\* The number of the last broadcast the browser has handled of connection c.
Seen(c) == joined[c] + handled[c]

\* The inbox of c goes on from what the browser has handled, without a gap, and up to
\* the end of the wire as long as the connection is open.
Stream(c) ==
  /\ Follow(inbox[c], Seen(c))
  /\ \A i \in 1..Len(inbox[c]) : End(inbox[c][i]) <= joined[c] + Len(wire[c])
  /\ handled[c] <= Len(wire[c])
  /\ conn[c] = "open" => Start(inbox[c], Seen(c), Len(inbox[c]) + 1) = joined[c] + Len(wire[c])
  /\ stage[c] \in {"none", "registering"} => inbox[c] = <<>> /\ handled[c] = 0

\* It holds of the connections of the visit that goes on: its cleanup throws frames away.
Streams == mounted => \A c \in Conns : hook[c] = visit => Stream(c)

\* No number of the state lastMessage and the list is above n.
UpToSeen(n) == last <= n /\ \A i \in 1..Len(feed) : feed[i] <= n

\* The page has nothing the hub has not sent, nor what the connection it has now is
\* still to bring: a connection is registered at the broadcasts that came before.
Lists ==
  /\ ~mounted => feed = <<>> /\ ~fresh /\ last = 0
  /\ UpToSeen(broadcasts)
  /\ fresh => \A i \in 1..Len(feed) : last > feed[i]
  /\ fresh => \E c \in Conns : hook[c] = visit /\ \E k \in 1..handled[c] : last = wire[c][k]
  /\ \A c \in Going : hook[c] = visit /\ stage[c] \in {"registered", "pumping"} => UpToSeen(Seen(c))

FInv == IInv /\ NotAhead /\ FeedTypes /\ Sockets /\ Streams /\ Lists /\ NewestFirst

LEMMA InitFInv == ASSUME FeedInit PROVE FInv
<1>1. IInv
  BY InitIInv DEF FeedInit
<1>2. /\ \A c \in Conns : joined[c] = 0 /\ wire[c] = <<>> /\ frame[c] = <<>> /\ send[c] = <<>>
      /\ \A c \in Conns : stage[c] = "none" /\ handled[c] = 0 /\ inbox[c] = <<>> /\ ready[c] = "none"
      /\ \A c \in Conns : hook[c] = 0
      /\ \A c \in Conns : conn[c] = "closed"
      /\ broadcasts = 0 /\ ~mounted /\ current = {} /\ timers = {} /\ ~fresh /\ last = 0 /\ feed = <<>>
  BY DEF FeedInit, Init
<1>3. Len(<<>>) = 0
  OBVIOUS
<1>4. NotAhead
  BY <1>2, <1>3 DEF NotAhead
<1>5. FeedTypes
  <2>1. \A S : <<>> \in Seq(S)
    OBVIOUS
  <2> DEFINE S == Seq(Nat)
  <2>2. <<>> \in Seq(S)
    BY <2>1
  <2> HIDE DEF S
  <2>3. inbox \in [Conns -> Seq(S)]
    BY <2>2 DEF FeedInit
  <2>4. /\ ready \in [Conns -> {"none", "up", "closing", "closed"}] /\ handled \in [Conns -> Nat]
        /\ feed \in Seq(Nat) /\ mounted \in BOOLEAN /\ fresh \in BOOLEAN
        /\ visit \in Nat /\ hook \in [Conns -> Nat]
    BY <2>1 DEF FeedInit
  <2> QED
    BY <1>2, <2>3, <2>4 DEF FeedTypes, S
<1>6. Sockets
  BY <1>2 DEF Sockets, OneForEachVisit, Going
<1>7. Streams
  BY <1>2, <1>3 DEF Streams, Stream, Seen, Follow
<1>8. Lists /\ NewestFirst
  BY <1>2, <1>3 DEF Lists, NewestFirst, UpToSeen, Going
<1> QED
  BY <1>1, <1>4, <1>5, <1>6, <1>7, <1>8 DEF FInv

--------------------------------------------------------------------------------
\* A step of the hub.

\* What a browser that has handled nothing knows of a client that was sent nothing.
LEMMA StreamAnew ==
  ASSUME NEW c \in Conns, joined[c] \in Nat, inbox[c] = <<>>, handled[c] = 0, wire[c] = <<>>
  PROVE  Stream(c)
BY DEF Stream, Follow, Start, Seen

LEMMA HubStream ==
  ASSUME FInv, HubStep, NEW c \in Conns, Stream(c)
  PROVE  Stream(c)'
<1>1. /\ handled'[c] = handled[c] /\ handled[c] \in Nat
      /\ inbox'[c] = IF wire'[c] # wire[c] /\ conn[c] = "open" THEN Append(inbox[c], frame[c]) ELSE inbox[c]
  BY DEF HubStep, FInv, FeedTypes
<1>2. /\ wire[c] \in Seq(Nat) /\ frame[c] \in Seq(Nat) /\ joined[c] \in Nat /\ Len(wire[c]) \in Nat
      /\ Len(frame[c]) \in Nat
  BY Lengths DEF FInv, IInv
<1>3. joined'[c] \in Nat
  <2>1. TypeOK'
    BY IInvStep DEF HubStep, FInv, IInv
  <2> QED
    BY <2>1, Lengths DEF TypeOK
<1>4. stage[c] \in {"none", "registering"} => wire[c] = <<>> /\ inbox[c] = <<>> /\ handled[c] = 0
  BY DEF FInv, IInv, ConnInv, Lifecycle, Stream
<1>5. CASE Accepts(c) \/ Registers(c)
  BY <1>1, <1>3, <1>4, <1>5, StreamAnew DEF Accepts, Registers, Stream, Follow, Start, Seen
<1>6. CASE Flushes(c)
  <2> DEFINE q == inbox[c]  r == inbox'[c]  f == frame[c]  b == Seen(c)
             end == joined[c] + Len(wire[c])  new == joined[c] + Len(wire'[c])
  <2>1. wire'[c] = wire[c] \o f /\ UNCHANGED <<stage[c], conn[c], joined[c]>> /\ stage[c] = "pumping"
    BY <1>6 DEF Flushes
  <2>2. end \in Nat /\ new = end + Len(f) /\ new \in Nat /\ end <= new /\ handled'[c] <= Len(wire'[c])
    <3>1. Len(wire'[c]) = Len(wire[c]) + Len(f)
      BY <1>2, <2>1, ConcatProperties
    <3>2. handled[c] <= Len(wire[c])
      BY DEF Stream
    <3> DEFINE j == joined[c]  k == handled[c]  l == Len(f)  w == Len(wire[c])  v == Len(wire'[c])
    <3>3. j \in Nat /\ k \in Nat /\ l \in Nat /\ w \in Nat /\ v = w + l /\ k <= w
      BY <1>1, <1>2, <3>1, <3>2
    <3> HIDE DEF j, k, l, w, v
    <3>4. j + w \in Nat /\ j + v = j + w + l /\ j + v \in Nat /\ j + w <= j + v /\ k <= v
      BY <3>3
    <3> QED
      BY <1>1, <3>4 DEF j, k, l, w, v
  <2>3. q \in Seq(Seq(Nat)) /\ b \in Nat /\ Seen(c)' = b
    BY <1>1, <1>2, <2>1 DEF FInv, FeedTypes, Seen
  <2>4. /\ Follow(q, b) /\ \A i \in 1..Len(q) : q[i] # <<>> /\ End(q[i]) <= end
        /\ conn[c] = "open" => Start(q, b, Len(q) + 1) = end
    BY DEF Stream, Follow
  <2>5. \A i \in 1..Len(q) : End(q[i]) <= new
    <3> HIDE DEF q, end, new
    <3> QED
      BY <2>2, <2>3, <2>4, EndsBelow
  <2>6. CASE wire'[c] # wire[c] /\ conn[c] = "open"
    <3>1. r = Append(q, f)
      BY <1>1, <2>6
    <3>2. f # <<>>
      <4>1. wire[c] \o <<>> = wire[c]
        BY <1>2, ConcatEmptySeq
      <4> QED
        BY <2>1, <2>6, <4>1
    <3>3. Run(f, end)
      BY DEF FInv, IInv, ConnInv, InPlace
    <3> DEFINE S == Seq(Nat)
    <3>4. q \in Seq(S) /\ f \in S /\ Start(q, b, Len(q) + 1) = end
      BY <1>2, <2>3, <2>4, <2>6
    <3> HIDE DEF S, q, r, f, b, end, new
    <3>5. End(f) = new
      BY <2>2, <3>2, <3>3, <3>4, EndOfRun DEF S
    <3>6. Follow(r, b) /\ Start(r, b, Len(r) + 1) = new
      BY <2>4, <3>1, <3>2, <3>3, <3>4, <3>5, FollowAppend
    <3>7. \A i \in 1..Len(r) : End(r[i]) <= new
      <4>1. Len(q) \in Nat /\ Len(r) = Len(q) + 1 /\ r[Len(q) + 1] = f /\ \A i \in 1..Len(q) : r[i] = q[i]
        BY <3>1, <3>4, AppendProperties, LenProperties
      <4>2. \A i \in 1..Len(r) : i = Len(q) + 1 \/ i \in 1..Len(q)
        BY <4>1
      <4> QED
        BY <2>2, <2>5, <3>5, <4>1, <4>2
    <3> QED
      BY <2>1, <2>2, <2>3, <3>6, <3>7 DEF Stream, r, new
  <2>7. CASE ~(wire'[c] # wire[c] /\ conn[c] = "open")
    <3>1. r = q /\ (wire'[c] = wire[c] \/ conn'[c] # "open")
      BY <1>1, <2>1, <2>7
    <3>2. conn'[c] = "open" => Start(q, b, Len(q) + 1) = new
      BY <2>1, <2>4, <3>1
    <3> HIDE DEF q, b, end
    <3> QED
      BY <2>1, <2>2, <2>3, <2>4, <2>5, <3>1, <3>2 DEF Stream, r, new
  <2> QED
    BY <2>6, <2>7
<1>7. CASE Elsewhere(c)
  <2>1. /\ UNCHANGED <<joined[c], wire[c], inbox[c], handled[c]>>
        /\ conn'[c] = "open" => conn[c] = "open"
        /\ stage'[c] \in {"none", "registering"} => stage[c] \in {"none", "registering"}
    BY <1>1, <1>7 DEF Elsewhere
  <2>2. Seen(c)' = Seen(c)
    BY <2>1 DEF Seen
  <2> QED
    BY <2>1, <2>2 DEF Stream
<1> QED
  BY <1>5, <1>6, <1>7, HubEffect DEF FInv, HubStep

\* The list and lastMessage only depend on the wires up to what was handled.
LEMMA HubFeedStep == ASSUME FInv, HubStep PROVE FInv'
<1>1. IInv /\ TypeOK /\ Next /\ UNCHANGED <<visit, mounted, hook, current, ready, timers, handled, last, fresh, feed>>
  BY DEF FInv, IInv, HubStep, socketVars, listVars
<1>2. IInv' /\ NotAhead'
  BY <1>1, IInvStep, NotAheadStep DEF FInv
<1>3. FeedTypes'
  <2> DEFINE S == Seq(Nat)
  <2>1. inbox \in [Conns -> Seq(S)] /\ \A c \in Conns : frame[c] \in S
    BY <1>1, Lengths DEF FInv, FeedTypes
  <2> HIDE DEF S
  <2>2. \A c \in Conns : Append(inbox[c], frame[c]) \in Seq(S)
    BY <2>1, AppendProperties
  <2>3. inbox' \in [Conns -> Seq(S)]
    BY <2>1, <2>2 DEF HubStep
  <2> QED
    BY <1>1, <2>3 DEF FInv, FeedTypes, S
<1>4. Sockets'
  <2>1. Going' = Going
    BY <1>1 DEF Going
  <2>2. \A c \in Conns : ready[c] = "none" => stage'[c] = "none"
    BY DEF HubStep, FInv, Sockets, Accepted, Going
  <2>3. \A c \in Conns : ready[c] = "none" => inbox'[c] = <<>>
    <3>1. ASSUME NEW c \in Conns, ready[c] = "none" PROVE wire'[c] = wire[c]
      BY <1>1, <2>2, <3>1, HubEffect DEF FInv, Sockets, Accepts, Registers, Flushes, Elsewhere
    <3> QED
      BY <3>1 DEF HubStep, FInv, Sockets
  <2> QED
    BY <1>1, <2>1, <2>2, <2>3 DEF FInv, Sockets, OneForEachVisit
<1>5. Streams'
  BY <1>1, HubStream DEF FInv, Streams
<1>6. broadcasts' \in Nat /\ broadcasts \in Nat /\ broadcasts <= broadcasts'
  BY <1>1, HubEffect
<1>7. /\ \A i \in 1..Len(feed) : feed[i] \in Nat
      /\ last \in Nat /\ handled \in [Conns -> Nat]
  BY DEF FInv, FeedTypes
<1>8. ASSUME mounted, NEW c \in Conns, hook[c] = visit, NEW k \in 1..handled[c]
      PROVE  wire'[c][k] = wire[c][k]
  <2>1. handled[c] <= Len(wire[c]) /\ handled[c] \in Nat
    BY <1>7, <1>8 DEF FInv, Streams, Stream
  <2>2. wire[c] \in Seq(Nat) /\ frame[c] \in Seq(Nat) /\ Len(wire[c]) \in Nat /\ Len(frame[c]) \in Nat
    BY <1>1, Lengths
  <2>3. wire'[c] = wire[c] \/ wire'[c] = wire[c] \o frame[c]
    BY <1>1, HubEffect DEF Accepts, Registers, Flushes, Elsewhere
  <2> DEFINE u == wire[c]  f == frame[c]  m == Len(u)  n == Len(f)  h == handled[c]
  <2>4. m \in Nat /\ n \in Nat /\ h \in Nat /\ h <= m /\ k \in 1..h
    BY <2>1, <2>2
  <2> HIDE DEF m, n, h
  <2>5. k \in 1..(m + n) /\ k <= m
    BY <2>4
  <2> USE DEF m, n
  <2> HIDE DEF u, f
  <2>6. (u \o f)[k] = u[k]
    BY <2>2, <2>5, ConcatProperties DEF u, f
  <2> QED
    BY <2>3, <2>6 DEF u, f
<1>9. UpToSeen(broadcasts)'
  <2>1. \A n \in Nat : n <= broadcasts => n <= broadcasts'
    BY <1>6
  <2> QED
    BY <1>1, <1>7, <2>1 DEF FInv, Lists, UpToSeen
<1>10. ASSUME NEW c \in Going, hook[c] = visit, stage'[c] \in {"registered", "pumping"}
       PROVE  UpToSeen(Seen(c))'
  <2>1. c \in Conns
    BY <1>10 DEF Going
  <2>2. CASE Registers(c)
    <3>1. handled[c] \in Nat /\ Seen(c)' = broadcasts + handled[c]
      BY <1>1, <1>7, <2>1, <2>2 DEF Registers, Seen
    <3>2. \A n \in Nat : n <= broadcasts => n <= Seen(c)'
      BY <1>6, <3>1
    <3> QED
      BY <1>1, <1>7, <3>2 DEF FInv, Lists, UpToSeen
  <2>3. CASE ~Registers(c)
    <3>1. joined'[c] = joined[c] /\ stage[c] \in {"registered", "pumping"}
      BY <1>1, <1>10, <2>1, <2>3, HubEffect DEF Accepts, Flushes, Elsewhere
    <3> QED
      BY <1>1, <1>10, <2>1, <3>1 DEF FInv, Lists, UpToSeen, Seen
  <2> QED
    BY <2>2, <2>3
<1>11. Lists'
  <2>1. ~mounted => feed = <<>> /\ ~fresh /\ last = 0
    BY DEF FInv, Lists
  <2>2. fresh => mounted /\ \A i \in 1..Len(feed) : last > feed[i]
    BY DEF FInv, Lists
  <2>3. fresh' => \E c \in Conns : hook[c] = visit /\ \E k \in 1..handled'[c] : last' = wire'[c][k]
    <3>1. fresh => \E c \in Conns : hook[c] = visit /\ \E k \in 1..handled[c] : last = wire[c][k]
      BY DEF FInv, Lists
    <3> QED
      BY <1>1, <1>8, <2>2, <3>1
  <2>4. Going' = Going
    BY <1>1 DEF Going
  <2> QED
    BY <1>1, <1>9, <1>10, <2>1, <2>2, <2>3, <2>4 DEF Lists
<1>12. NewestFirst'
  <2>1. ~mounted => Len(feed) = 0
    BY EmptySeq DEF FInv, Lists
  <2>2. \A i \in 1..Len(feed) :
          \E c \in Conns : hook[c] = visit /\ \E k \in 1..handled[c] : feed[i] = wire[c][k]
    BY DEF FInv, NewestFirst
  <2>3. \A i \in 1..Len(feed) :
          \E c \in Conns : hook[c] = visit /\ \E k \in 1..handled'[c] : feed[i] = wire'[c][k]
    BY <1>1, <1>8, <2>1, <2>2
  <2> QED
    BY <1>1, <2>3 DEF FInv, NewestFirst
<1> QED
  BY <1>2, <1>3, <1>4, <1>5, <1>11, <1>12 DEF FInv

--------------------------------------------------------------------------------
\* The steps of the hook.

\* A step that leaves the hub alone.
LEMMA HubAlone ==
  ASSUME IInv, NotAhead, UNCHANGED vars
  PROVE  IInv' /\ NotAhead'
<1>1. IInv'
  BY IInvStep
<1>2. UNCHANGED <<joined, wire, frame, send, broadcasts>>
  BY DEF vars, hubVars, pumpVars
<1> QED
  BY <1>1, <1>2 DEF NotAhead

\* What the hook's steps leave alone of a connection's stream.
LEMMA StreamKept ==
  ASSUME NEW c \in Conns, Stream(c), UNCHANGED <<vars, inbox[c], handled[c]>>
  PROVE  Stream(c)'
<1>1. UNCHANGED <<joined, wire, conn, stage>>
  BY DEF vars, hubVars, pumpVars
<1>2. Seen(c)' = Seen(c)
  BY <1>1 DEF Seen
<1> QED
  BY <1>1, <1>2 DEF Stream

\* What dialling changes: the connection was nobody's, and is now one of the visit v.
LEMMA Dialled ==
  ASSUME FInv, NEW v \in Nat, NEW c \in Conns, Dial(v, c), UNCHANGED vars
  PROVE  /\ Going' = Going \cup {c} /\ c \notin Going /\ hook'[c] = v /\ ready'[c] = "up"
         /\ \A d \in Conns \ {c} : hook'[d] = hook[d] /\ ready'[d] = ready[d]
         /\ stage[c] = "none" /\ wire[c] = <<>> /\ inbox[c] = <<>> /\ handled[c] = 0 /\ hook[c] = 0
         /\ hook' \in [Conns -> Nat] /\ ready' \in [Conns -> {"none", "up", "closing", "closed"}]
<1>1. /\ ready[c] = "none" /\ \A d \in Conns : ready'[d] = IF d = c THEN "up" ELSE ready[d]
      /\ \A d \in Conns : hook'[d] = IF d = c THEN v ELSE hook[d]
      /\ hook' \in [Conns -> Nat] /\ ready' \in [Conns -> {"none", "up", "closing", "closed"}]
  BY DEF Dial, FInv, FeedTypes
<1>2. Going' = Going \cup {c} /\ c \notin Going
  BY <1>1 DEF Going
<1>3. stage[c] = "none" /\ inbox[c] = <<>> /\ handled[c] = 0 /\ hook[c] = 0
  BY <1>1 DEF FInv, Sockets
<1>4. wire[c] = <<>>
  BY <1>3 DEF FInv, IInv, ConnInv, Lifecycle
<1> QED
  BY <1>1, <1>2, <1>3, <1>4

\* What is known of a visit: every connection and every timer is of one up to the last.
LEMMA Visits ==
  ASSUME FInv
  PROVE  /\ visit \in Nat /\ visit + 1 \notin timers
         /\ \A c \in Conns : hook[c] \in Nat /\ hook[c] # visit + 1 /\ hook[c] \in 0..visit
         /\ mounted => visit # 0
<1>1. visit \in Nat /\ hook \in [Conns -> Nat]
  BY DEF FInv, FeedTypes
<1>2. \A c \in Conns : hook[c] \in 0..visit
  BY <1>1 DEF FInv, Sockets
<1>3. timers \subseteq 1..visit
  BY DEF FInv, Sockets
<1>4. mounted => visit # 0
  <2>1. \A c \in Going : hook[c] \in 1..visit
    BY DEF FInv, Sockets, Going
  <2>2. visit \in timers \/ (\E c \in Going : hook[c] = visit) => visit \in 1..visit
    BY <1>3, <2>1
  <2>3. mounted => visit \in 1..visit
    BY <2>2 DEF FInv, Sockets, OneForEachVisit
  <2> QED
    BY <1>1, <2>3
<1> QED
  BY <1>1, <1>2, <1>3, <1>4

\* A new visit has a connection of its own, whatever the earlier ones left behind.
LEMMA MountStep ==
  ASSUME FInv, Mount
  PROVE  FInv'
<1> DEFINE v == visit + 1
<1>1. PICK c \in Conns : Dial(v, c) /\ current' = {c}
  BY DEF Mount
<1>2. /\ UNCHANGED <<vars, timers, inbox, handled, last, fresh, feed>>
      /\ ~mounted /\ mounted' = TRUE /\ visit' = v
  BY DEF Mount
<1>3. UNCHANGED <<joined, wire, stage, broadcasts>>
  BY <1>2 DEF vars, hubVars, pumpVars
<1>4. /\ visit \in Nat /\ v \in Nat /\ v \notin timers /\ v \in 1..v /\ v # 0
      /\ \A n \in 1..visit : n \in 1..v
      /\ \A d \in Conns : hook[d] # v
  BY Visits
<1> HIDE DEF v
<1>5. IInv' /\ NotAhead'
  BY <1>2, HubAlone DEF FInv
<1>6. /\ Going' = Going \cup {c} /\ c \notin Going /\ hook'[c] = v /\ ready'[c] = "up"
      /\ \A d \in Conns \ {c} : hook'[d] = hook[d] /\ ready'[d] = ready[d]
      /\ stage[c] = "none" /\ wire[c] = <<>> /\ inbox[c] = <<>> /\ handled[c] = 0
      /\ hook' \in [Conns -> Nat] /\ ready' \in [Conns -> {"none", "up", "closing", "closed"}]
  BY <1>1, <1>2, <1>4, Dialled
<1>7. FeedTypes'
  BY <1>1, <1>2, <1>4, <1>6 DEF FInv, FeedTypes
<1>8. Sockets'
  <2>1. OneForEachVisit'
    <3>1. \A d \in Going : d \in Conns /\ d # c /\ hook'[d] = hook[d] /\ hook'[d] # v
      BY <1>4, <1>6 DEF Going
    <3> QED
      BY <1>2, <1>4, <1>6, <3>1 DEF FInv, Sockets, OneForEachVisit
  <2> QED
    BY <1>2, <1>3, <1>4, <1>6, <2>1 DEF FInv, Sockets
<1>9. Streams'
  <2>1. \A d \in Conns : hook'[d] = visit' => d = c
    BY <1>2, <1>4, <1>6
  <2>2. Stream(c)'
    <3>1. Stream(c)
      <4>1. joined[c] \in Nat
        BY Lengths DEF FInv, IInv
      <4> QED
        BY <1>6, <4>1, StreamAnew
    <3> QED
      BY <1>2, <3>1, StreamKept
  <2> QED
    BY <2>1, <2>2 DEF Streams
<1>10. feed = <<>> /\ ~fresh /\ last = 0 /\ Len(feed) = 0
  BY <1>2, EmptySeq DEF FInv, Lists
<1>11. Lists'
  <2>1. \A d \in Going' : hook'[d] = visit' => stage'[d] = "none"
    BY <1>2, <1>3, <1>4, <1>6 DEF Going
  <2>2. UpToSeen(broadcasts)'
    BY <1>2, <1>3 DEF FInv, Lists, UpToSeen
  <2> QED
    BY <1>2, <1>10, <2>1, <2>2 DEF Lists
<1>12. NewestFirst'
  BY <1>2, <1>10 DEF NewestFirst
<1> QED
  BY <1>5, <1>7, <1>8, <1>9, <1>11, <1>12 DEF FInv

LEMMA ReconnectStep ==
  ASSUME FInv, NEW v \in timers, Reconnect(v)
  PROVE  FInv'
<1>1. PICK c \in Conns : Dial(v, c) /\ current' \in {{c}, current}
  BY DEF Reconnect
<1>2. UNCHANGED <<vars, visit, mounted, inbox, handled, last, fresh, feed>> /\ timers' = timers \ {v}
  BY DEF Reconnect, listVars
<1>3. UNCHANGED <<joined, wire, stage, broadcasts>>
  BY <1>2 DEF vars, hubVars, pumpVars
<1>4. v \in Nat /\ v \in 1..visit /\ (mounted => visit # 0)
  BY Visits DEF FInv, FeedTypes, Sockets
<1>5. IInv' /\ NotAhead'
  BY <1>2, HubAlone DEF FInv
<1>6. /\ Going' = Going \cup {c} /\ c \notin Going /\ hook'[c] = v /\ ready'[c] = "up"
      /\ \A d \in Conns \ {c} : hook'[d] = hook[d] /\ ready'[d] = ready[d]
      /\ stage[c] = "none" /\ wire[c] = <<>> /\ inbox[c] = <<>> /\ handled[c] = 0 /\ hook[c] = 0
      /\ hook' \in [Conns -> Nat] /\ ready' \in [Conns -> {"none", "up", "closing", "closed"}]
  BY <1>1, <1>2, <1>4, Dialled
<1>7. FeedTypes'
  BY <1>1, <1>2, <1>6 DEF FInv, FeedTypes
<1>8. Sockets'
  <2>1. OneForEachVisit'
    <3>1. \A d \in Going : d \in Conns /\ d # c /\ hook'[d] = hook[d] /\ hook'[d] # v /\ hook'[d] \notin timers
      BY <1>6 DEF Going, FInv, Sockets, OneForEachVisit
    <3>2. mounted' => visit' \in timers' \/ \E d \in Going' : hook'[d] = visit'
      BY <1>2, <1>6, <3>1 DEF FInv, Sockets, OneForEachVisit
    <3> QED
      BY <1>2, <1>6, <3>1, <3>2 DEF FInv, Sockets, OneForEachVisit
  <2> QED
    BY <1>2, <1>3, <1>4, <1>6, <2>1 DEF FInv, Sockets
<1>9. Streams'
  <2>1. Stream(c)'
    <3>1. Stream(c)
      <4>1. joined[c] \in Nat
        BY Lengths DEF FInv, IInv
      <4> QED
        BY <1>6, <4>1, StreamAnew
    <3> QED
      BY <1>2, <3>1, StreamKept
  <2>2. \A d \in Conns \ {c} : mounted /\ hook'[d] = visit' => Stream(d)'
    BY <1>2, <1>6, StreamKept DEF FInv, Streams
  <2> QED
    BY <1>2, <2>1, <2>2 DEF Streams
<1>10. \A d \in Conns : hook[d] = visit /\ mounted => hook'[d] = visit
  BY <1>4, <1>6
<1>11. ~mounted => ~fresh /\ feed = <<>> /\ Len(feed) = 0
  BY EmptySeq DEF FInv, Lists
<1>12. Lists'
  <2>1. \A d \in Going' : /\ hook'[d] = visit' /\ stage'[d] \in {"registered", "pumping"}
                          => d \in Going /\ hook[d] = visit /\ Seen(d)' = Seen(d)
    BY <1>2, <1>3, <1>6 DEF Going, Seen
  <2>2. \A d \in Going' : /\ hook'[d] = visit' /\ stage'[d] \in {"registered", "pumping"}
                          => UpToSeen(Seen(d))'
    BY <1>2, <1>3, <2>1 DEF FInv, Lists, UpToSeen
  <2>3. UpToSeen(broadcasts)'
    BY <1>2, <1>3 DEF FInv, Lists, UpToSeen
  <2>4. fresh' => \E d \in Conns : hook'[d] = visit' /\ \E k \in 1..handled'[d] : last' = wire'[d][k]
    BY <1>2, <1>3, <1>10, <1>11 DEF FInv, Lists
  <2>5. /\ ~mounted' => feed' = <<>> /\ ~fresh' /\ last' = 0
        /\ fresh' => \A i \in 1..Len(feed') : last' > feed'[i]
    BY <1>2 DEF FInv, Lists
  <2> QED
    BY <2>2, <2>3, <2>4, <2>5 DEF Lists
<1>13. NewestFirst'
  <2>1. CASE mounted
    BY <1>2, <1>3, <1>10, <2>1 DEF FInv, NewestFirst
  <2>2. CASE ~mounted
    BY <1>2, <1>11, <2>2 DEF NewestFirst
  <2> QED
    BY <2>1, <2>2
<1> QED
  BY <1>5, <1>7, <1>8, <1>9, <1>12, <1>13 DEF FInv

LEMMA OnCloseStep ==
  ASSUME FInv, NEW c \in Conns, OnClose(c)
  PROVE  FInv'
<1>1. /\ UNCHANGED <<vars, visit, mounted, hook, current, inbox, handled, last, fresh, feed>>
      /\ timers' = timers \cup {hook[c]}
      /\ c \in Going /\ \A d \in Conns : ready'[d] = IF d = c THEN "closed" ELSE ready[d]
  BY DEF OnClose, listVars, FInv, FeedTypes
<1>2. UNCHANGED <<joined, wire, stage, broadcasts>>
  BY <1>1 DEF vars, hubVars, pumpVars
<1>3. IInv' /\ NotAhead'
  BY <1>1, HubAlone DEF FInv
<1>4. FeedTypes'
  BY <1>1 DEF FInv, FeedTypes, OnClose
<1>5. Going' = Going \ {c} /\ ready[c] # "none" /\ Going \subseteq Conns
  BY <1>1 DEF Going
<1>6. Sockets'
  <2>1. OneForEachVisit'
    <3>1. \A d \in Going' : d \in Going /\ hook[d] # hook[c]
      BY <1>1, <1>5 DEF FInv, Sockets, OneForEachVisit
    <3>2. mounted' => visit' \in timers' \/ \E d \in Going' : hook'[d] = visit'
      BY <1>1, <1>5 DEF FInv, Sockets, OneForEachVisit
    <3> QED
      BY <1>1, <1>5, <3>1, <3>2 DEF FInv, Sockets, OneForEachVisit
  <2>2. timers' \subseteq 1..visit'
    BY <1>1, <1>5 DEF FInv, Sockets
  <2> QED
    BY <1>1, <1>2, <1>5, <2>1, <2>2 DEF FInv, Sockets
<1>7. Streams'
  BY <1>1, StreamKept DEF FInv, Streams
<1>8. Lists'
  BY <1>1, <1>2, <1>5 DEF FInv, Lists, UpToSeen, Seen
<1>9. NewestFirst'
  BY <1>1, <1>2 DEF FInv, NewestFirst
<1> QED
  BY <1>3, <1>4, <1>6, <1>7, <1>8, <1>9 DEF FInv

\* The cleanup leaves nothing of the page's state.
LEMMA UnmountStep ==
  ASSUME FInv, Unmount
  PROVE  FInv'
<1>1. /\ UNCHANGED <<vars, visit, hook, handled>> /\ ~mounted' /\ timers' = timers \ {visit} /\ ~fresh'
      /\ feed' = <<>> /\ last' = 0 /\ mounted' \in BOOLEAN /\ fresh' \in BOOLEAN /\ current' = {}
  BY DEF Unmount
<1>2. UNCHANGED <<stage, broadcasts>>
  BY <1>1 DEF vars, hubVars
<1>3. IInv' /\ NotAhead'
  BY <1>1, HubAlone DEF FInv
<1>4. FeedTypes'
  <2> DEFINE S == Seq(Nat)
  <2>1. <<>> \in Seq(S) /\ feed' \in S
    BY <1>1
  <2>2. inbox \in [Conns -> Seq(S)]
    BY DEF FInv, FeedTypes
  <2> HIDE DEF S
  <2>3. inbox' \in [Conns -> Seq(S)]
    BY <2>1, <2>2 DEF Unmount
  <2>4. ready' \in [Conns -> {"none", "up", "closing", "closed"}]
    BY DEF Unmount, FInv, FeedTypes
  <2> QED
    BY <1>1, <2>1, <2>3, <2>4 DEF FInv, FeedTypes, S
<1>5. Sockets'
  <2>1. /\ Going' = Going
        /\ \A c \in Conns : (ready'[c] = "none" <=> ready[c] = "none") /\ inbox'[c] \in {inbox[c], <<>>}
    BY DEF Going, Unmount
  <2>2. OneForEachVisit'
    BY <1>1, <2>1 DEF FInv, Sockets, OneForEachVisit
  <2> QED
    BY <1>1, <1>2, <2>1, <2>2 DEF FInv, Sockets
<1>6. Streams'
  BY <1>1 DEF Streams
<1>7. Lists' /\ NewestFirst'
  <2>1. Len(feed') = 0
    BY <1>1, EmptySeq
  <2>2. handled \in [Conns -> Nat] /\ \A c \in Conns : joined'[c] \in Nat
    <3>1. TypeOK'
      BY <1>3 DEF IInv
    <3> QED
      BY <3>1, Lengths DEF FInv, FeedTypes, TypeOK
  <2>3. \A c \in Conns : Seen(c)' \in Nat
    BY <1>1, <2>2 DEF Seen
  <2>4. broadcasts' \in Nat
    BY <1>2 DEF FInv, IInv, TypeOK
  <2>5. Going' \subseteq Conns
    BY DEF Going
  <2> QED
    BY <1>1, <2>1, <2>3, <2>4, <2>5 DEF Lists, NewestFirst, UpToSeen
<1> QED
  BY <1>3, <1>4, <1>5, <1>6, <1>7 DEF FInv

\* onmessage takes the oldest frame; a number it puts into lastMessage is the one that
\* follows what the browser has seen.
LEMMA OnMessageStream ==
  ASSUME FInv, NEW c \in Conns, OnMessage(c), Stream(c)
  PROVE  /\ Stream(c)'
         /\ Seen(c) \in Nat /\ Seen(c)' = Seen(c) + Len(Head(inbox[c]))
         /\ Len(Head(inbox[c])) \in Nat /\ handled'[c] = handled[c] + Len(Head(inbox[c]))
         /\ handled'[c] <= Len(wire[c]) /\ Seen(c)' <= broadcasts
         /\ stage[c] \in {"registered", "pumping"}
         /\ Len(Head(inbox[c])) = 1 => Head(inbox[c])[1] = Seen(c) + 1
<1> DEFINE S == Seq(Nat)  q == inbox[c]  r == inbox'[c]  f == Head(q)  b == Seen(c)  e == b + Len(f)
           j == joined[c]  h == handled[c]  w == Len(wire[c])  l == Len(f)
<1>1. /\ q \in Seq(S) /\ q # <<>> /\ r = Tail(q) /\ handled'[c] = h + l
      /\ UNCHANGED <<joined, wire, conn, stage, frame, send, broadcasts>>
  BY DEF OnMessage, FInv, FeedTypes, vars, hubVars, pumpVars
<1>2. j \in Nat /\ h \in Nat /\ w \in Nat /\ broadcasts \in Nat
  BY Lengths DEF FInv, FeedTypes, IInv
<1>3. Follow(q, b) /\ b \in Nat
  BY <1>2 DEF Stream, Seen
<1>4. /\ f \in S /\ f = q[1] /\ 1 \in 1..Len(q) /\ f # <<>> /\ Run(f, b) /\ End(f) = e
      /\ Follow(r, e) /\ Start(r, e, Len(r) + 1) = Start(q, b, Len(q) + 1)
  <2>1. q \in Seq(Seq(Nat))
    BY <1>1
  <2> HIDE DEF q, b
  <2> QED
    BY <1>1, <1>3, <2>1, FollowTail
<1>5. l \in Nat /\ (l = 1 => f[1] = b + 1)
  BY <1>4 DEF Run
<1>6. e <= j + w
  BY <1>4 DEF Stream
<1>7. b = j + h
  BY DEF Seen
<1>8. Seen(c)' = j + (h + l)
  BY <1>1 DEF Seen
<1>9. j + w <= broadcasts
  <2> DEFINE g == Len(frame[c])  s == Len(send[c])
  <2>1. g \in Nat /\ s \in Nat /\ j + w + g + s <= broadcasts
    BY Lengths DEF FInv, NotAhead, IInv
  <2> HIDE DEF j, w, g, s
  <2> QED
    BY <1>2, <2>1
<1> HIDE DEF q, r, f, b, h, w, l, j, S
<1>10. Seen(c)' = e /\ h + l <= w /\ e <= broadcasts
  <2>1. e = b + l
    BY DEF l
  <2> HIDE DEF e
  <2> QED
    BY <1>2, <1>5, <1>6, <1>7, <1>8, <1>9, <2>1
<1>11. \A i \in 1..Len(r) : End(r[i]) <= j + w
  <2>1. /\ Len(q) \in Nat /\ Len(r) = Len(q) - 1
        /\ \A i \in 1..Len(r) : r[i] = q[i + 1]
    BY <1>1, HeadTailProperties, LenProperties
  <2>2. \A i \in 1..Len(r) : i + 1 \in 1..Len(q)
    BY <2>1
  <2> QED
    BY <2>1, <2>2 DEF Stream, q, j, w
<1>12. stage[c] \in {"registered", "pumping"}
  <2>1. stage[c] \notin {"none", "registering"}
    BY <1>1 DEF Stream, q
  <2> QED
    BY <2>1 DEF FInv, IInv, TypeOK
<1>13. Stream(c)'
  <2>1. conn[c] = "open" => Start(q, b, Len(q) + 1) = j + w
    BY DEF Stream, q, b, j, w
  <2> HIDE DEF e
  <2> QED
    BY <1>1, <1>4, <1>10, <1>11, <1>12, <2>1 DEF Stream, r, j, w
<1> QED
  BY <1>1, <1>3, <1>5, <1>10, <1>12, <1>13 DEF q, f, b, h, l, w

LEMMA OnMessageStep ==
  ASSUME FInv, NEW c \in Conns, OnMessage(c)
  PROVE  FInv'
<1> DEFINE f == Head(inbox[c])
<1>1. UNCHANGED <<vars, visit, mounted, hook, current, ready, timers, feed>>
  BY DEF OnMessage, socketVars
<1>2. UNCHANGED <<joined, wire, stage, broadcasts>>
  BY <1>1 DEF vars, hubVars, pumpVars
<1>3. IInv' /\ NotAhead'
  BY <1>1, HubAlone DEF FInv
<1>4. Going' = Going
  BY <1>1 DEF Going
<1>6. \A d \in Conns \ {c} : inbox'[d] = inbox[d] /\ handled'[d] = handled[d]
  BY DEF OnMessage, FInv, FeedTypes
<1>5. Sockets'
  <2>1. inbox[c] # <<>>
    BY DEF OnMessage
  <2>2. ready[c] # "none"
    BY <2>1 DEF FInv, Sockets
  <2> QED
    BY <1>1, <1>2, <1>4, <1>6, <2>2 DEF FInv, Sockets, OneForEachVisit
<1>7. Streams'
  <2>1. mounted' => \A d \in Conns : hook'[d] = visit' => Stream(d)
    BY <1>1 DEF FInv, Streams
  <2>2. \A d \in Conns \ {c} : Stream(d) => Stream(d)'
    BY <1>1, <1>6, StreamKept
  <2> QED
    BY <2>1, <2>2, OnMessageStream DEF Streams
<1>8. f \in Seq(Nat) /\ Len(f) \in Nat
  <2> DEFINE S == Seq(Nat)
  <2>1. inbox[c] \in Seq(S) /\ inbox[c] # <<>>
    BY DEF OnMessage, FInv, FeedTypes
  <2> HIDE DEF S
  <2>2. Head(inbox[c]) \in S
    BY <2>1
  <2> QED
    BY <2>2 DEF S
<1>9. FeedTypes'
  <2> DEFINE S == Seq(Nat)
  <2>1. inbox \in [Conns -> Seq(S)] /\ inbox[c] # <<>>
    BY DEF OnMessage, FInv, FeedTypes
  <2> HIDE DEF S
  <2>2. inbox' \in [Conns -> Seq(S)]
    BY <2>1, HeadTailProperties DEF OnMessage
  <2>3. handled' \in [Conns -> Nat]
    <3>1. handled[c] + Len(f) \in Nat
      BY <1>8 DEF FInv, FeedTypes
    <3> QED
      BY <3>1 DEF OnMessage, FInv, FeedTypes
  <2>4. last' \in Nat /\ fresh' \in BOOLEAN
    <3>1. ParsesAsOne(f) => f[1] \in Nat
      BY <1>8 DEF ParsesAsOne
    <3> HIDE DEF f
    <3> QED
      BY <3>1 DEF OnMessage, FInv, FeedTypes, f
  <2> QED
    BY <1>1, <2>2, <2>3, <2>4 DEF FInv, FeedTypes, S
<1>10. CASE mounted /\ hook[c] = visit
  <2>1. Stream(c)
    BY <1>10 DEF FInv, Streams
  <2>2. /\ Seen(c) \in Nat /\ Seen(c)' = Seen(c) + Len(f) /\ handled'[c] = handled[c] + Len(f)
        /\ handled'[c] <= Len(wire[c]) /\ Seen(c)' <= broadcasts
        /\ stage[c] \in {"registered", "pumping"}
        /\ Len(f) = 1 => f[1] = Seen(c) + 1
    BY <2>1, OnMessageStream
  <2>3. /\ handled[c] \in Nat /\ handled \in [Conns -> Nat] /\ last \in Nat /\ broadcasts \in Nat
        /\ \A i \in 1..Len(feed) : feed[i] \in Nat
    BY DEF FInv, FeedTypes, IInv, TypeOK
  <2>4. Seen(c) <= Seen(c)' /\ Seen(c)' \in Nat
    BY <1>8, <2>2
  <2>5. \A d \in Conns : \A k \in 1..handled[d] : k \in 1..handled'[d]
    <3>1. \A k \in 1..handled[c] : k \in 1..handled'[c]
      BY <1>8, <2>2, <2>3
    <3> QED
      BY <1>6, <3>1
  <2>6. NewestFirst'
    BY <1>1, <1>2, <2>5 DEF FInv, NewestFirst
  <2>7. \A d \in Going : d = c => UpToSeen(Seen(c))
    BY <1>10, <2>2 DEF FInv, Lists
  <2>8. CASE ready[c] = "up" /\ ParsesAsOne(f)
    <3>1. last' = f[1] /\ fresh'
      BY <1>10, <2>8 DEF OnMessage
    <3>2. last' = Seen(c) + 1 /\ Seen(c)' = Seen(c) + 1 /\ handled'[c] = handled[c] + 1
      BY <2>2, <2>8, <3>1 DEF ParsesAsOne
    <3>3. (\A d \in Going : hook[d] = visit => d = c) /\ UpToSeen(Seen(c))
      <4>1. c \in Going
        BY <2>8 DEF Going
      <4> QED
        BY <1>10, <2>7, <4>1 DEF FInv, Sockets, OneForEachVisit
    <3>4. \A i \in 1..Len(feed) : last' > feed[i] /\ feed[i] <= Seen(c)'
      BY <2>2, <2>3, <3>2, <3>3 DEF UpToSeen
    <3>5. UpToSeen(Seen(c))' /\ UpToSeen(broadcasts)'
      <4>1. last' <= Seen(c)'
        BY <2>4, <3>2
      <4>2. \A n \in Nat : n <= Seen(c)' => n <= broadcasts
        BY <2>2, <2>3, <2>4
      <4>3. last' \in Nat
        BY <2>2, <3>2
      <4> QED
        BY <1>1, <1>2, <2>3, <3>4, <4>1, <4>2, <4>3 DEF UpToSeen
    <3>6. \E k \in 1..handled'[c] : last' = wire'[c][k]
      <4> DEFINE k == handled[c] + 1
      <4>1. k \in 1..handled'[c] /\ k \in 1..Len(wire[c])
        <5> DEFINE w == Len(wire[c])
        <5>1. w \in Nat /\ k <= w
          BY <2>2, <3>2, Lengths DEF FInv, IInv
        <5> HIDE DEF w
        <5>2. k \in 1..w
          BY <2>3, <5>1
        <5> QED
          BY <2>3, <3>2, <5>2 DEF w
      <4>2. wire[c][k] = joined[c] + k
        BY <4>1 DEF FInv, IInv, ConnInv, InPlace, Run
      <4>3. joined[c] \in Nat
        BY Lengths DEF FInv, IInv
      <4>4. joined[c] + k = Seen(c) + 1
        BY <2>3, <4>3 DEF Seen
      <4> QED
        BY <1>2, <3>2, <4>1, <4>2, <4>4
    <3> QED
      BY <1>1, <1>3, <1>4, <1>5, <1>7, <1>9, <1>10, <2>6, <3>3, <3>4, <3>5, <3>6 DEF FInv, Lists
  <2>9. CASE ~(ready[c] = "up" /\ ParsesAsOne(f))
    <3>1. UNCHANGED <<last, fresh>>
      BY <2>9 DEF OnMessage
    <3>2. UpToSeen(broadcasts)'
      BY <1>1, <1>2, <3>1 DEF FInv, Lists, UpToSeen
    <3>3. fresh' => \E d \in Conns : hook[d] = visit /\ \E k \in 1..handled'[d] : last' = wire'[d][k]
      BY <1>2, <2>5, <3>1 DEF FInv, Lists
    <3>4. ASSUME NEW d \in Going, hook[d] = visit, stage'[d] \in {"registered", "pumping"}
          PROVE  UpToSeen(Seen(d))'
      <4>1. UpToSeen(Seen(d)) /\ d \in Conns
        BY <1>2, <3>4 DEF FInv, Lists, Going
      <4>2. CASE d = c
        <5>1. \A n \in Nat : n <= Seen(c) => n <= Seen(c)'
          BY <2>2, <2>4
        <5> QED
          BY <1>1, <2>3, <3>1, <4>1, <4>2, <5>1 DEF UpToSeen
      <4>3. CASE d # c
        <5>1. Seen(d)' = Seen(d)
          BY <1>2, <1>6, <4>1, <4>3 DEF Seen
        <5> QED
          BY <1>1, <3>1, <4>1, <5>1 DEF UpToSeen
      <4> QED
        BY <4>2, <4>3
    <3>5. Lists'
      BY <1>1, <1>4, <1>10, <3>1, <3>2, <3>3, <3>4 DEF FInv, Lists
    <3> QED
      BY <1>3, <1>5, <1>7, <1>9, <2>6, <3>5 DEF FInv
  <2> QED
    BY <2>8, <2>9
<1>12. CASE mounted /\ hook[c] # visit
  <2>1. UNCHANGED <<last, fresh>>
    BY <1>12 DEF OnMessage
  <2>2. \A d \in Conns : hook[d] = visit => handled'[d] = handled[d] /\ Seen(d)' = Seen(d)
    BY <1>2, <1>6, <1>12 DEF Seen
  <2>3. NewestFirst'
    BY <1>1, <1>2, <2>2 DEF FInv, NewestFirst
  <2>4. UpToSeen(broadcasts)' /\ \A d \in Conns : hook[d] = visit /\ UpToSeen(Seen(d)) => UpToSeen(Seen(d))'
    BY <1>1, <1>2, <2>1, <2>2 DEF FInv, Lists, UpToSeen
  <2>5. fresh' => \E d \in Conns : hook[d] = visit /\ \E k \in 1..handled'[d] : last' = wire'[d][k]
    BY <1>2, <2>1, <2>2 DEF FInv, Lists
  <2>6. Lists'
    <3>1. Going \subseteq Conns
      BY DEF Going
    <3> QED
      BY <1>1, <1>2, <1>4, <1>12, <2>1, <2>4, <2>5, <3>1 DEF FInv, Lists
  <2> QED
    BY <1>3, <1>5, <1>7, <1>9, <2>3, <2>6 DEF FInv
<1>11. CASE ~mounted
  <2>1. feed = <<>> /\ ~fresh' /\ last' = 0 /\ last = 0 /\ Len(feed) = 0
    BY <1>11, EmptySeq DEF FInv, Lists, OnMessage
  <2>2. broadcasts \in Nat /\ \A d \in Conns : Seen(d)' \in Nat
    <3>1. \A d \in Conns : joined'[d] \in Nat
      BY <1>2, Lengths DEF FInv, IInv
    <3>2. \A d \in Conns : handled'[d] \in Nat
      BY <1>9 DEF FeedTypes
    <3> QED
      BY <3>1, <3>2 DEF Seen, FInv, IInv, TypeOK
  <2>3. Going \subseteq Conns
    BY DEF Going
  <2>4. Lists' /\ NewestFirst'
    BY <1>1, <1>2, <1>4, <1>11, <2>1, <2>2, <2>3 DEF Lists, NewestFirst, UpToSeen
  <2> QED
    BY <1>3, <1>5, <1>7, <1>9, <2>4 DEF FInv
<1> QED
  BY <1>10, <1>11, <1>12

--------------------------------------------------------------------------------
\* The steps of the page.

\* What the list is after a render: lastMessage before what it was, cut to its capacity.
LEMMA ListedLast ==
  ASSUME NEW m \in Nat, NEW s \in Seq(Nat), NEW k \in Nat,
         k = IF Len(<<m>> \o s) < FeedCap THEN Len(<<m>> \o s) ELSE FeedCap
  PROVE  /\ SubSeq(<<m>> \o s, 1, k) \in Seq(Nat) /\ Len(SubSeq(<<m>> \o s, 1, k)) = k
         /\ k <= Len(s) + 1
         /\ \A i \in 1..k : SubSeq(<<m>> \o s, 1, k)[i] = IF i = 1 THEN m ELSE s[i - 1]
<1> DEFINE g == <<m>> \o s
<1>1. /\ <<m>> \in Seq(Nat) /\ Len(<<m>>) = 1 /\ <<m>>[1] = m
  OBVIOUS
<1>2. /\ Len(s) \in Nat /\ Len(g) = 1 + Len(s)
      /\ \A i \in 1..(1 + Len(s)) : g[i] = IF i <= 1 THEN m ELSE s[i - 1]
  <2>1. /\ Len(g) = Len(<<m>>) + Len(s) /\ Len(s) \in Nat
        /\ \A i \in 1..(Len(<<m>>) + Len(s)) :
             g[i] = IF i <= Len(<<m>>) THEN <<m>>[i] ELSE s[i - Len(<<m>>)]
    BY <1>1, ConcatProperties, LenProperties
  <2>2. \A i \in 1..(1 + Len(s)) : i <= 1 => i = 1
    BY <2>1
  <2> HIDE DEF g
  <2> QED
    BY <1>1, <2>1, <2>2
<1> HIDE DEF g
<1>3. k <= Len(s) + 1 /\ k >= 1
  BY <1>2, FeedAssumption DEF g
<1>4. \A i \in 1..k : i \in 1..(1 + Len(s)) /\ (i # 1 => i - 1 \in 1..Len(s)) /\ (i <= 1 <=> i = 1)
  BY <1>2, <1>3
<1>5. \A i \in 1..k : g[i] \in Nat
  <2>1. \A i \in 1..Len(s) : s[i] \in Nat
    OBVIOUS
  <2> QED
    BY <1>2, <1>4, <2>1
<1>6. /\ SubSeq(g, 1, k) \in Seq(Nat) /\ Len(SubSeq(g, 1, k)) = k
      /\ \A i \in 1..k : SubSeq(g, 1, k)[i] = g[i]
  <2>1. /\ SubSeq(g, 1, k) \in Seq(Nat)
        /\ Len(SubSeq(g, 1, k)) = IF 1 <= k THEN k - 1 + 1 ELSE 0
        /\ \A i \in 1..(k - 1 + 1) : SubSeq(g, 1, k)[i] = g[1 + i - 1]
    BY <1>5, SubSeqProperties
  <2>2. k - 1 + 1 = k /\ \A i \in 1..k : 1 + i - 1 = i
    OBVIOUS
  <2> QED
    BY <1>3, <2>1, <2>2
<1> QED
  BY <1>2, <1>3, <1>4, <1>6 DEF g

LEMMA PageStep ==
  ASSUME FInv, Render \/ FetchReturns
  PROVE  FInv'
<1>1. UNCHANGED <<vars, visit, mounted, hook, current, ready, timers, inbox, handled, last>> /\ mounted
  BY DEF Render, FetchReturns, socketVars, FInv, Lists
<1>2. UNCHANGED <<joined, wire, stage, broadcasts, conn>> /\ Going' = Going
  BY <1>1 DEF vars, hubVars, pumpVars, Going
<1>3. IInv' /\ NotAhead'
  BY <1>1, HubAlone DEF FInv
<1>4. Sockets' /\ Streams'
  <2>1. Streams'
    BY <1>1, StreamKept DEF FInv, Streams
  <2> QED
    BY <1>1, <1>2, <2>1 DEF FInv, Sockets, OneForEachVisit
<1>5. /\ last \in Nat /\ feed \in Seq(Nat) /\ Len(feed) \in Nat
      /\ \A i \in 1..Len(feed) : feed[i] \in Nat
  BY DEF FInv, FeedTypes
<1>6. CASE Render
  <2>1. PICK k \in Nat : /\ k = IF Len(<<last>> \o feed) < FeedCap THEN Len(<<last>> \o feed) ELSE FeedCap
                         /\ feed' = SubSeq(<<last>> \o feed, 1, k)
    <3>1. Len(<<last>> \o feed) \in Nat
      BY <1>5
    <3> QED
      BY <1>6, <3>1, FeedAssumption DEF Render, ListLast
  <2>2. /\ feed' \in Seq(Nat) /\ Len(feed') = k /\ k <= Len(feed) + 1
        /\ \A i \in 1..k : feed'[i] = IF i = 1 THEN last ELSE feed[i - 1]
    BY <1>5, <2>1, ListedLast
  <2>3. fresh /\ ~fresh' /\ fresh' \in BOOLEAN
    BY <1>6 DEF Render
  <2>4. \A i \in 1..k : i # 1 => i - 1 \in 1..Len(feed)
    BY <1>5, <2>2
  <2>5. \A n : UpToSeen(n) => \A i \in 1..k : feed'[i] <= n
    BY <2>2, <2>4 DEF UpToSeen
  <2>6. Lists'
    BY <1>1, <1>2, <2>2, <2>3, <2>5 DEF FInv, Lists, UpToSeen, Seen
  <2>7. NewestFirst'
    <3>1. ASSUME NEW i \in 1..k, NEW j \in 1..k, i < j PROVE feed'[i] > feed'[j]
      <4>1. j # 1 /\ j - 1 \in 1..Len(feed)
        BY <2>4, <3>1
      <4>2. CASE i = 1
        BY <2>2, <2>3, <4>1, <4>2 DEF FInv, Lists
      <4>3. CASE i # 1
        <5>1. i - 1 \in 1..Len(feed) /\ i - 1 < j - 1
          BY <2>4, <3>1, <4>3
        <5>2. feed[i - 1] > feed[j - 1]
          BY <4>1, <5>1 DEF FInv, NewestFirst
        <5> QED
          BY <2>2, <4>1, <4>3, <5>2
      <4> QED
        BY <4>2, <4>3
    <3>2. ASSUME NEW i \in 1..k
          PROVE  \E c \in Conns : hook[c] = visit /\ \E n \in 1..handled[c] : feed'[i] = wire[c][n]
      <4>1. CASE i = 1
        BY <2>2, <2>3, <4>1 DEF FInv, Lists
      <4>2. CASE i # 1
        <5>1. feed'[i] = feed[i - 1] /\ i - 1 \in 1..Len(feed)
          BY <2>2, <2>4, <4>2
        <5>2. \A x \in 1..Len(feed) :
                \E c \in Conns : hook[c] = visit /\ \E n \in 1..handled[c] : feed[x] = wire[c][n]
          BY DEF FInv, NewestFirst
        <5> QED
          BY <5>1, <5>2
      <4> QED
        BY <4>1, <4>2
    <3> QED
      BY <1>1, <1>2, <2>2, <3>1, <3>2 DEF NewestFirst
  <2>8. FeedTypes'
    BY <1>1, <2>2, <2>3 DEF FInv, FeedTypes
  <2> QED
    BY <1>3, <1>4, <2>6, <2>7, <2>8 DEF FInv
<1>7. CASE FetchReturns
  <2>1. feed' \in Seq(Nat) /\ fresh' = fresh /\ (feed' = feed \/ Len(feed') = 0)
    BY <1>5, <1>7, EmptySeq DEF FetchReturns
  <2>2. FeedTypes'
    BY <1>1, <2>1 DEF FInv, FeedTypes
  <2>3. \A n : UpToSeen(n) => last <= n /\ \A i \in 1..Len(feed') : feed'[i] <= n
    BY <2>1 DEF UpToSeen
  <2>4. NewestFirst'
    BY <1>1, <1>2, <2>1 DEF FInv, NewestFirst
  <2>5. Lists'
    <3>1. \A n : UpToSeen(n) => UpToSeen(n)'
      BY <1>1, <2>3 DEF UpToSeen
    <3>2. UpToSeen(broadcasts)' /\ \A c \in Conns : Seen(c)' = Seen(c)
      BY <1>1, <1>2, <3>1 DEF FInv, Lists, UpToSeen, Seen
    <3>3. \A c \in Going : hook[c] = visit /\ stage[c] \in {"registered", "pumping"} => UpToSeen(Seen(c))'
      <4>1. \A c \in Going : c \in Conns
        BY DEF Going
      <4> QED
        BY <1>1, <2>3, <3>2, <4>1 DEF FInv, Lists, UpToSeen
    <3>4. fresh' => \A i \in 1..Len(feed') : last' > feed'[i]
      BY <1>1, <2>1 DEF FInv, Lists
    <3>5. fresh' => \E c \in Conns : hook'[c] = visit' /\ \E k \in 1..handled'[c] : last' = wire'[c][k]
      BY <1>1, <1>2, <2>1 DEF FInv, Lists
    <3> QED
      BY <1>1, <1>2, <3>2, <3>3, <3>4, <3>5 DEF Lists
  <2> QED
    BY <1>3, <1>4, <2>2, <2>4, <2>5 DEF FInv
<1> QED
  BY <1>6, <1>7

--------------------------------------------------------------------------------

LEMMA FInvStep ==
  ASSUME FInv, [FeedNext]_feedVars
  PROVE  FInv'
<1>1. CASE UNCHANGED feedVars
  <2>1. /\ UNCHANGED <<vars, visit, mounted, hook, current, ready, timers, inbox, handled, last, fresh, feed>>
        /\ UNCHANGED <<joined, wire, stage, broadcasts>>
    BY <1>1 DEF feedVars, socketVars, listVars, vars, hubVars, pumpVars
  <2>2. IInv' /\ NotAhead'
    BY <2>1, HubAlone DEF FInv
  <2>3. Streams'
    BY <2>1, StreamKept DEF FInv, Streams
  <2>4. Going' = Going /\ \A c \in Conns : Seen(c)' = Seen(c)
    BY <2>1 DEF Going, Seen
  <2>5. FeedTypes' /\ Sockets' /\ NewestFirst'
    BY <2>1, <2>4 DEF FInv, FeedTypes, Sockets, OneForEachVisit, NewestFirst
  <2>6. Lists'
    BY <2>1, <2>4 DEF FInv, Lists, UpToSeen, Going
  <2> QED
    BY <2>2, <2>3, <2>5, <2>6 DEF FInv
<1>2. CASE HubStep
  BY <1>2, HubFeedStep
<1>3. CASE Mount \/ \E v \in timers : Reconnect(v)
  BY <1>3, MountStep, ReconnectStep
<1>4. CASE Unmount
  BY <1>4, UnmountStep
<1>5. CASE \E c \in Conns : OnClose(c) \/ OnMessage(c)
  BY <1>5, OnCloseStep, OnMessageStep
<1>6. CASE Render \/ FetchReturns
  BY <1>6, PageStep
<1> QED
  BY <1>1, <1>2, <1>3, <1>4, <1>5, <1>6 DEF FeedNext

LEMMA FeedInductive == FeedSpec => []FInv
<1>1. FeedInit => FInv
  BY InitFInv
<1>2. FInv /\ [FeedNext]_feedVars => FInv'
  BY FInvStep
<1> QED
  BY <1>1, <1>2, PTL DEF FeedSpec

\* The hub behind the page is the hub of its own module: a browser that dials, loses its
\* connection or goes adds no step to it, and what is proved of it holds here.
THEOREM HubRuns == FeedSpec => Init /\ [][Next]_vars /\ [](NoPanic /\ BatchIsQueued /\ NoGap)
<1>1. FeedInit => Init
  BY DEF FeedInit
<1>2. [FeedNext]_feedVars => [Next]_vars
  <2> SUFFICES ASSUME [FeedNext]_feedVars PROVE [Next]_vars
    OBVIOUS
  <2>1. CASE HubStep
    BY <2>1 DEF HubStep
  <2>2. CASE FeedNext /\ ~HubStep
    BY <2>2 DEF FeedNext, Mount, Reconnect, Unmount, OnClose, OnMessage, Render, FetchReturns
  <2>3. CASE UNCHANGED feedVars
    BY <2>3 DEF feedVars
  <2> QED
    BY <2>1, <2>2, <2>3
<1>3. FInv => NoPanic /\ BatchIsQueued /\ NoGap
  <2>1. IInv => NoPanic /\ BatchIsQueued
    BY DEF IInv, ConnInv, BatchHere, BatchIsQueued
  <2> QED
    BY <2>1, NoneIsMissed DEF FInv
<1> QED
  BY <1>1, <1>2, <1>3, FeedInductive, PTL DEF FeedSpec

\* The page lists what the hub has sent to it, newest first and each event once, from
\* one connection to the next.
THEOREM FeedIsInOrder == FeedSpec => []NewestFirst
<1>1. FInv => NewestFirst
  BY DEF FInv
<1> QED
  BY <1>1, FeedInductive, PTL

\* While the page is there its visit has a connection that is up or about to be dialled,
\* and no visit has two: whatever the hooks of the visits before it still dial.
THEOREM OneConnectionForEachVisit == FeedSpec => []OneForEachVisit
<1>1. FInv => OneForEachVisit
  BY DEF FInv, Sockets
<1> QED
  BY <1>1, FeedInductive, PTL

================================================================================
