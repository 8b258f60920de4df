-------------------------- MODULE WebsocketHubProofs ---------------------------
(***************************************************************************)
(* The websocket hub, for any number of connections and workers and any    *)
(* capacity of the send channels: types, no panic, whole batches, no gap.  *)
(***************************************************************************)
EXTENDS WebsocketHub, FiniteSetTheorems, SequenceTheorems, TLAPS

\* A registered client has an open channel and a way to be unregistered; a
\* connection that is not registered yet has nothing of either.
Lifecycle(c) ==
  /\ c \in clients => c \notin closed /\ stage[c] \in {"registered", "pumping"}
  /\ stage[c] \in {"none", "registering"} =>
       c \notin closed /\ send[c] = <<>> /\ frame[c] = <<>> /\ wire[c] = <<>>
  /\ stage[c] # "pumping" => reader[c] = "none" /\ writer[c] = "none"
  /\ c \in clients => reader[c] \in {"none", "reading", "leaving"}

\* s holds the numbers that follow b, in order.
Run(s, b) == \A i \in 1..Len(s) : s[i] = b + i

\* Where the broadcasts lie that c was given: first on the wire, then in the
\* frame, then in the channel.
InPlace(c) ==
  /\ Run(wire[c], joined[c])
  /\ Run(frame[c], joined[c] + Len(wire[c]))
  /\ Run(send[c], joined[c] + Len(wire[c]) + Len(frame[c]))
  /\ c \in clients =>
       joined[c] + Len(wire[c]) + Len(frame[c]) + Len(send[c]) = UpTo(c)

BatchHere(c) == writer[c] = "batch" => left[c] <= Len(send[c])

ConnInv(c) == Lifecycle(c) /\ InPlace(c) /\ BatchHere(c)

\* The bound on the calls of BroadcastEvent, and what a fan-out is about.
CountInv ==
  /\ broadcasts + Cardinality(waiting) <= MaxBroadcasts
  /\ todo # {} => broadcasts > 0

IInv == TypeOK /\ NoPanic /\ CountInv /\ \A c \in Conns : ConnInv(c)

--------------------------------------------------------------------------------

\* What the operations on sequences do to a run of numbers.
LEMMA RunAppend ==
  ASSUME NEW s \in Seq(Nat), NEW b \in Nat, Run(s, b)
  PROVE  Run(Append(s, b + Len(s) + 1), b)
<1> DEFINE x == b + Len(s) + 1
<1>1. /\ Len(Append(s, x)) = Len(s) + 1 /\ Append(s, x)[Len(s) + 1] = x
      /\ \A i \in 1..Len(s) : Append(s, x)[i] = s[i]
  OBVIOUS
<1> QED
  BY <1>1 DEF Run

LEMMA RunTail ==
  ASSUME NEW s \in Seq(Nat), NEW b \in Nat, Run(s, b), s # <<>>
  PROVE  Head(s) = b + 1 /\ Run(Tail(s), b + 1)
<1>1. /\ Len(s) \in Nat \ {0} /\ Head(s) = s[1]
      /\ Len(Tail(s)) = Len(s) - 1
      /\ \A i \in 1..(Len(s) - 1) : Tail(s)[i] = s[i + 1]
  OBVIOUS
<1> QED
  BY <1>1 DEF Run

LEMMA RunConcat ==
  ASSUME NEW s \in Seq(Nat), NEW t \in Seq(Nat), NEW b \in Nat,
         Run(s, b), Run(t, b + Len(s))
  PROVE  Run(s \o t, b)
<1>1. /\ Len(s) \in Nat /\ Len(t) \in Nat /\ Len(s \o t) = Len(s) + Len(t)
      /\ \A i \in 1..(Len(s) + Len(t)) :
           (s \o t)[i] = IF i <= Len(s) THEN s[i] ELSE t[i - Len(s)]
  OBVIOUS
<1>2. ASSUME NEW i \in 1..(Len(s) + Len(t)) PROVE (s \o t)[i] = b + i
  <2>1. CASE i <= Len(s)
    BY <1>1, <2>1 DEF Run
  <2>2. CASE ~(i <= Len(s))
    <3>1. i - Len(s) \in 1..Len(t)
      BY <1>1, <2>2
    <3>2. t[i - Len(s)] = b + Len(s) + (i - Len(s))
      BY <3>1 DEF Run
    <3>3. (s \o t)[i] = t[i - Len(s)]
      BY <1>1, <2>2
    <3>4. b + Len(s) + (i - Len(s)) = b + i
      BY <1>1
    <3> QED
      BY <3>2, <3>3, <3>4
  <2> QED
    BY <2>1, <2>2
<1> QED
  BY <1>1, <1>2 DEF Run

LEMMA RunEmpty ==
  ASSUME NEW b
  PROVE  Len(<<>>) = 0 /\ Run(<<>>, b)
BY DEF Run

LEMMA InitIInv == ASSUME Init PROVE IInv
<1> USE HubAssumption DEF Init
<1>1. Cardinality(waiting) = 0
  BY FS_EmptySet
<1>2. TypeOK
  <2>1. \A S : <<>> \in Seq(S)
    OBVIOUS
  <2>2. send \in [Conns -> Seq(1..MaxBroadcasts)] /\ \A c \in Conns : Len(send[c]) <= SendCap
    BY <2>1
  <2>3. frame \in [Conns -> Seq(1..MaxBroadcasts)] /\ wire \in [Conns -> Seq(1..MaxBroadcasts)]
    BY <2>1
  <2>4. 0 \in 0..MaxBroadcasts /\ 0 \in 0..SendCap
    OBVIOUS
  <2>5. left \in [Conns -> 0..SendCap] /\ joined \in [Conns -> 0..MaxBroadcasts]
    BY <2>4
  <2> QED
    BY <2>2, <2>3, <2>4, <2>5 DEF TypeOK
<1>3. NoPanic /\ CountInv
  BY <1>1 DEF NoPanic, CountInv
<1>4. ASSUME NEW c \in Conns PROVE ConnInv(c)
  <2>1. InPlace(c)
    BY RunEmpty DEF InPlace
  <2> QED
    BY <2>1 DEF ConnInv, Lifecycle, BatchHere
<1> QED
  BY <1>2, <1>3, <1>4 DEF IInv

\* A step that changes neither a connection nor the count of broadcasts keeps
\* what is known of the connection.
LEMMA OtherConn ==
  ASSUME NEW d \in Conns, ConnInv(d),
         d \in clients' <=> d \in clients, d \in todo' <=> d \in todo,
         d \in closed' <=> d \in closed,
         UNCHANGED <<broadcasts, stage[d], send[d], frame[d], wire[d], joined[d],
                     reader[d], writer[d], left[d]>>
  PROVE  ConnInv(d)'
BY DEF ConnInv, Lifecycle, InPlace, BatchHere, UpTo

\* The lengths are numbers: what the arithmetic of the steps rests on.
LEMMA Lengths ==
  ASSUME TypeOK, NEW c \in Conns
  PROVE  /\ send[c] \in Seq(1..MaxBroadcasts) /\ send[c] \in Seq(Nat) /\ Len(send[c]) \in Nat
         /\ frame[c] \in Seq(1..MaxBroadcasts) /\ frame[c] \in Seq(Nat) /\ Len(frame[c]) \in Nat
         /\ wire[c] \in Seq(1..MaxBroadcasts) /\ wire[c] \in Seq(Nat) /\ Len(wire[c]) \in Nat
         /\ joined[c] \in Nat /\ left[c] \in Nat /\ broadcasts \in Nat
<1>1. \A s \in Seq(1..MaxBroadcasts) : s \in Seq(Nat) /\ Len(s) \in Nat
  <2>1. 1..MaxBroadcasts \subseteq Nat
    OBVIOUS
  <2>2. ASSUME NEW s \in Seq(1..MaxBroadcasts) PROVE s \in Seq(Nat)
    BY <2>1, SeqMonotonic
  <2>3. \A s \in Seq(Nat) : Len(s) \in Nat
    OBVIOUS
  <2> QED
    BY <2>2, <2>3
<1> QED
  BY <1>1, HubAssumption DEF TypeOK

--------------------------------------------------------------------------------

\* The hub takes a worker's message: every registered client is owed it.
LEMMA TakeBroadcastStep ==
  ASSUME IInv, NEW w \in Workers, TakeBroadcast(w)
  PROVE  IInv'
<1> USE HubAssumption
<1>1. /\ waiting' = waiting \ {w} /\ w \in waiting
      /\ broadcasts' = broadcasts + 1 /\ todo' = clients /\ todo = {}
      /\ UNCHANGED <<clients, panicked, stage, conn, send, closed, reader, writer,
                     left, frame, wire, joined>>
  BY DEF TakeBroadcast, Selecting, pumpVars
<1>2. /\ IsFiniteSet(waiting)
      /\ Cardinality(waiting') = Cardinality(waiting) - 1
      /\ Cardinality(waiting) \in Nat
  BY <1>1, FS_Subset, FS_RemoveElement, FS_CardinalityType DEF IInv, TypeOK
<1>3. CountInv' /\ broadcasts' \in 0..MaxBroadcasts
  <2>1. Cardinality(waiting) > 0
    BY <1>1, <1>2, FS_EmptySet
  <2> QED
    BY <2>1, <1>1, <1>2 DEF IInv, TypeOK, CountInv
<1>4. TypeOK' /\ NoPanic'
  BY <1>1, <1>3 DEF IInv, TypeOK, NoPanic
<1>5. ASSUME NEW d \in Conns PROVE ConnInv(d)'
  <2>1. ConnInv(d)
    BY DEF IInv
  <2>2. UpTo(d) = broadcasts /\ (d \in clients => UpTo(d)' = broadcasts)
    BY <1>1, Lengths DEF UpTo, IInv
  <2> QED
    BY <1>1, <2>1, <2>2 DEF ConnInv, Lifecycle, InPlace, BatchHere
<1> QED
  BY <1>3, <1>4, <1>5 DEF IInv

LEMMA BroadcastEventStep ==
  ASSUME IInv, NEW w \in Workers, BroadcastEvent(w)
  PROVE  IInv'
<1> USE HubAssumption
<1>1. /\ waiting' = waiting \cup {w} /\ w \notin waiting
      /\ broadcasts + Cardinality(waiting) < MaxBroadcasts
      /\ UNCHANGED <<clients, broadcasts, todo, panicked, stage, conn, send, closed, reader,
                     writer, left, frame, wire, joined>>
  BY DEF BroadcastEvent, pumpVars
<1>2. /\ Cardinality(waiting') = Cardinality(waiting) + 1
      /\ Cardinality(waiting) \in Nat
  BY <1>1, FS_Subset, FS_AddElement, FS_CardinalityType DEF IInv, TypeOK
<1>3. TypeOK' /\ NoPanic' /\ CountInv'
  BY <1>1, <1>2 DEF IInv, TypeOK, NoPanic, CountInv
<1>4. ASSUME NEW d \in Conns PROVE ConnInv(d)'
  BY <1>1, OtherConn DEF IInv
<1> QED
  BY <1>3, <1>4 DEF IInv

\* One turn of the fan-out: the client gets the broadcast or is dropped.
LEMMA FanOutStep ==
  ASSUME IInv, NEW c \in Conns, FanOut(c)
  PROVE  IInv'
<1> USE HubAssumption
<1>1. /\ c \in todo /\ todo' = todo \ {c} /\ c \in clients /\ c \notin closed
      /\ broadcasts > 0 /\ broadcasts \in 1..MaxBroadcasts
      /\ UNCHANGED <<waiting, broadcasts, stage, conn, reader, writer, left, frame, wire, joined>>
  BY DEF FanOut, IInv, TypeOK, CountInv, ConnInv, Lifecycle, pumpVars
<1>2. CASE Push(c)
  <2>1. /\ Len(send[c]) < SendCap
        /\ send' = [send EXCEPT ![c] = Append(@, broadcasts)]
        /\ panicked' = FALSE /\ UNCHANGED <<clients, closed>>
    <3>1. (c \in closed) = FALSE
      BY <1>1
    <3>2. panicked' = FALSE
      BY <1>2, <3>1 DEF Push
    <3>3. ~(Len(send[c]) >= SendCap)
      BY <1>2 DEF Push, SendFull
    <3> QED
      BY <1>2, <3>2, <3>3, Lengths DEF Push, IInv
  <2>2. /\ send'[c] = Append(send[c], broadcasts)
        /\ send'[c] \in Seq(1..MaxBroadcasts)
        /\ Len(send'[c]) = Len(send[c]) + 1
        /\ send'[c][Len(send[c]) + 1] = broadcasts
        /\ \A i \in 1..Len(send[c]) : send'[c][i] = send[c][i]
    BY <1>1, <2>1, Lengths DEF IInv, TypeOK
  <2>3. TypeOK'
    <3>1. send' \in [Conns -> Seq(1..MaxBroadcasts)]
      BY <2>1, <2>2 DEF IInv, TypeOK
    <3>2. ASSUME NEW d \in Conns PROVE Len(send'[d]) <= SendCap
      <4>1. CASE d = c
        BY <4>1, <2>1, <2>2, Lengths DEF IInv
      <4>2. CASE d # c
        BY <4>2, <2>1 DEF IInv, TypeOK
      <4> QED
        BY <4>1, <4>2
    <3> QED
      BY <1>1, <2>1, <3>1, <3>2 DEF IInv, TypeOK
  <2>4. NoPanic' /\ CountInv'
    BY <1>1, <2>1 DEF IInv, NoPanic, CountInv
  <2>5. ConnInv(c)'
    <3>1. UpTo(c) = broadcasts - 1 /\ UpTo(c)' = broadcasts
      BY <1>1 DEF UpTo
    <3>2. InPlace(c)'
      <4> DEFINE b == joined[c] + Len(wire[c]) + Len(frame[c])
      <4>1. InPlace(c) /\ b \in Nat /\ send[c] \in Seq(Nat) /\ Len(send[c]) \in Nat
        BY Lengths DEF IInv, ConnInv
      <4>2. b + Len(send[c]) + 1 = broadcasts
        BY <1>1, <3>1, <4>1, Lengths DEF IInv, InPlace
      <4>3. Run(send'[c], b)
        BY <4>1, <4>2, <2>2, RunAppend DEF InPlace
      <4>4. b + Len(send'[c]) = broadcasts
        BY <4>1, <4>2, <2>2
      <4> QED
        BY <1>1, <2>1, <3>1, <4>1, <4>3, <4>4 DEF InPlace
    <3>3. Lifecycle(c)' /\ BatchHere(c)'
      BY <1>1, <2>1, <2>2, Lengths DEF IInv, ConnInv, Lifecycle, BatchHere
    <3> QED
      BY <3>2, <3>3 DEF ConnInv
  <2>6. ASSUME NEW d \in Conns, d # c PROVE ConnInv(d)'
    BY <1>1, <2>1, <2>6, OtherConn DEF IInv, TypeOK
  <2> QED
    BY <2>3, <2>4, <2>5, <2>6 DEF IInv
<1>3. CASE DropClient(c)
  <2>1. /\ closed' = closed \cup {c} /\ panicked' = FALSE
        /\ clients' = clients \ {c} /\ send' = send
    <3>1. (c \in closed) = FALSE
      BY <1>1
    <3> QED
      BY <1>3, <3>1 DEF DropClient, CloseSend
  <2>2. TypeOK' /\ NoPanic' /\ CountInv'
    BY <1>1, <2>1 DEF IInv, TypeOK, NoPanic, CountInv
  <2>3. ConnInv(c)'
    BY <1>1, <2>1 DEF IInv, ConnInv, Lifecycle, InPlace, BatchHere
  <2>4. ASSUME NEW d \in Conns, d # c PROVE ConnInv(d)'
    BY <1>1, <2>1, <2>4, OtherConn DEF IInv
  <2> QED
    BY <2>2, <2>3, <2>4 DEF IInv
<1> QED
  BY <1>2, <1>3 DEF FanOut

\* ServeWs, registration, and the end of a registration.
LEMMA RegistrationStep ==
  ASSUME IInv, NEW c \in Conns,
         ServeWs(c) \/ Register(c) \/ StartPumps(c) \/ Unregister(c)
  PROVE  IInv'
<1> USE HubAssumption
<1>1. ASSUME ServeWs(c) PROVE IInv'
  <2>1. TypeOK' /\ NoPanic' /\ CountInv'
    BY <1>1 DEF ServeWs, IInv, TypeOK, NoPanic, CountInv, hubVars, pumpVars
  <2>2. ConnInv(c)'
    BY <1>1 DEF ServeWs, IInv, TypeOK, ConnInv, Lifecycle, InPlace, BatchHere, UpTo, hubVars, pumpVars
  <2>3. ASSUME NEW d \in Conns, d # c PROVE ConnInv(d)'
    BY <1>1, <2>3, OtherConn DEF ServeWs, IInv, TypeOK, hubVars, pumpVars
  <2> QED
    BY <2>1, <2>2, <2>3 DEF IInv
<1>2. ASSUME Register(c) PROVE IInv'
  <2>1. /\ todo = {} /\ stage[c] = "registering" /\ stage'[c] = "registered"
        /\ clients' = clients \cup {c} /\ joined'[c] = broadcasts
        /\ send[c] = <<>> /\ frame[c] = <<>> /\ wire[c] = <<>> /\ c \notin closed
        /\ UNCHANGED <<waiting, broadcasts, todo, panicked, conn, send, closed, reader,
                       writer, left, frame, wire>>
    BY <1>2 DEF Register, Selecting, IInv, TypeOK, ConnInv, Lifecycle, pumpVars
  <2>2. TypeOK' /\ NoPanic' /\ CountInv'
    BY <1>2, <2>1 DEF Register, IInv, TypeOK, NoPanic, CountInv
  <2>3. ConnInv(c)'
    <3>1. Len(send'[c]) = 0 /\ Len(frame'[c]) = 0 /\ Len(wire'[c]) = 0
      BY <2>1
    <3>2. UpTo(c)' = broadcasts
      BY <2>1 DEF UpTo
    <3>3. InPlace(c)'
      <4>1. broadcasts \in Nat /\ broadcasts + 0 + 0 = broadcasts /\ broadcasts + 0 + 0 + 0 = broadcasts
        BY Lengths DEF IInv
      <4> QED
        BY <2>1, <3>1, <3>2, <4>1, RunEmpty DEF InPlace
    <3>4. Lifecycle(c)' /\ BatchHere(c)'
      BY <2>1 DEF IInv, ConnInv, Lifecycle, BatchHere
    <3> QED
      BY <3>3, <3>4 DEF ConnInv
  <2>4. ASSUME NEW d \in Conns, d # c PROVE ConnInv(d)'
    BY <1>2, <2>1, <2>4, OtherConn DEF Register, IInv, TypeOK
  <2> QED
    BY <2>2, <2>3, <2>4 DEF IInv
<1>3. ASSUME StartPumps(c) PROVE IInv'
  <2>1. TypeOK' /\ NoPanic' /\ CountInv'
    BY <1>3 DEF StartPumps, IInv, TypeOK, NoPanic, CountInv, hubVars
  <2>2. ConnInv(c)'
    BY <1>3 DEF StartPumps, IInv, TypeOK, ConnInv, Lifecycle, InPlace, BatchHere, UpTo, hubVars
  <2>3. ASSUME NEW d \in Conns, d # c PROVE ConnInv(d)'
    BY <1>3, <2>3, OtherConn DEF StartPumps, IInv, TypeOK, hubVars
  <2> QED
    BY <2>1, <2>2, <2>3 DEF IInv
<1>4. ASSUME Unregister(c) PROVE IInv'
  <2>1. /\ todo = {} /\ reader[c] = "leaving" /\ reader'[c] = "unregistered"
        /\ clients' = clients \ {c} /\ closed' \in {closed, closed \cup {c}}
        /\ panicked' = FALSE
        /\ UNCHANGED <<waiting, broadcasts, todo, stage, conn, send, writer, left, frame, wire, joined>>
    BY <1>4 DEF Unregister, Selecting, CloseSend, IInv, TypeOK, ConnInv, Lifecycle
  <2>2. TypeOK' /\ NoPanic' /\ CountInv'
    BY <1>4, <2>1 DEF Unregister, IInv, TypeOK, NoPanic, CountInv
  <2>3. stage[c] = "pumping"
    BY <2>1 DEF IInv, ConnInv, Lifecycle
  <2>4. ConnInv(c)'
    BY <2>1, <2>3 DEF IInv, ConnInv, Lifecycle, InPlace, BatchHere
  <2>5. ASSUME NEW d \in Conns, d # c PROVE ConnInv(d)'
    BY <1>4, <2>1, <2>5, OtherConn DEF Unregister, IInv, TypeOK
  <2> QED
    BY <2>2, <2>4, <2>5 DEF IInv
<1> QED
  BY <1>1, <1>2, <1>3, <1>4

--------------------------------------------------------------------------------

\* The pumps touch one connection, and nothing of the hub.
PumpFrame(c) ==
  /\ UNCHANGED <<hubVars, stage, closed, joined>>
  /\ \A d \in Conns \ {c} :
       UNCHANGED <<send[d], frame[d], wire[d], reader[d], writer[d], left[d]>>

LEMMA PumpOthers ==
  ASSUME IInv, NEW c \in Conns, PumpFrame(c), TypeOK', ConnInv(c)'
  PROVE  IInv'
<1>1. NoPanic' /\ CountInv'
  BY DEF PumpFrame, IInv, NoPanic, CountInv, hubVars
<1>2. ASSUME NEW d \in Conns, d # c PROVE ConnInv(d)'
  BY <1>2, OtherConn DEF PumpFrame, IInv, hubVars
<1> QED
  BY <1>1, <1>2 DEF IInv

\* The steps of the pumps that move no message, and a lost peer.
LEMMA QuietPumpStep ==
  ASSUME IInv, NEW c \in Conns,
         \/ PeerLeaves(c) \/ ReaderStep(c) \/ WriterCount(c) \/ WriterFlushFails(c)
         \/ WriterEnds(c) \/ PingFails(c)
  PROVE  IInv'
<1>1. /\ UNCHANGED <<hubVars, stage, send, closed, frame, wire, joined>>
      /\ reader' \in [Conns -> {"none", "reading", "leaving", "unregistered", "done"}]
      /\ writer' \in [Conns -> {"none", "select", "count", "batch", "done"}]
      /\ conn' \in [Conns -> {"open", "lost", "closed"}]
      /\ left' \in [Conns -> 0..SendCap]
  <2>1. CASE PeerLeaves(c)
    BY <2>1 DEF PeerLeaves, IInv, TypeOK, pumpVars
  <2>2. CASE ReaderStep(c)
    BY <2>2 DEF ReaderStep, ReadFails, ReaderCloses, IInv, TypeOK
  <2>3. CASE WriterCount(c)
    BY <2>3, Lengths, HubAssumption DEF WriterCount, IInv, TypeOK
  <2>4. CASE WriterFlushFails(c) \/ WriterEnds(c) \/ PingFails(c)
    BY <2>4 DEF WriterFlushFails, WriterEnds, PingFails, WriterReturns, IInv, TypeOK
  <2> QED
    BY <2>1, <2>2, <2>3, <2>4
<1>2. /\ \A d \in Conns \ {c} : UNCHANGED <<reader[d], writer[d], left[d]>>
      /\ stage[c] = "pumping" \/ UNCHANGED <<reader[c], writer[c]>>
      /\ reader'[c] = reader[c] \/ reader'[c] \in {"leaving", "done"}
      /\ reader'[c] = "leaving" => reader[c] \in {"reading", "leaving"}
      /\ reader'[c] = "done" => reader[c] \in {"unregistered", "done"}
      /\ writer'[c] = "batch" =>
           left'[c] = Len(send[c]) \/ (writer[c] = "batch" /\ left'[c] = left[c])
  <2>1. stage[c] # "pumping" => reader[c] = "none" /\ writer[c] = "none"
    BY DEF IInv, ConnInv, Lifecycle
  <2>2. CASE PeerLeaves(c)
    BY <2>1, <2>2 DEF PeerLeaves, pumpVars
  <2>3. CASE ReaderStep(c)
    BY <2>1, <2>3 DEF ReaderStep, ReadFails, ReaderCloses, IInv, TypeOK
  <2>4. CASE WriterCount(c)
    BY <2>1, <2>4 DEF WriterCount, IInv, TypeOK
  <2>5. CASE WriterFlushFails(c) \/ WriterEnds(c) \/ PingFails(c)
    BY <2>1, <2>5 DEF WriterFlushFails, WriterEnds, PingFails, WriterReturns, IInv, TypeOK
  <2> QED
    BY <2>2, <2>3, <2>4, <2>5
<1>3. TypeOK'
  BY <1>1 DEF IInv, TypeOK, hubVars
<1>4. ConnInv(c)'
  <2>1. BatchHere(c)'
    BY <1>1, <1>2, Lengths DEF IInv, ConnInv, BatchHere
  <2>2. Lifecycle(c)'
    BY <1>1, <1>2 DEF IInv, ConnInv, Lifecycle, hubVars
  <2>3. InPlace(c)'
    BY <1>1 DEF IInv, ConnInv, InPlace, UpTo, hubVars
  <2> QED
    BY <2>1, <2>2, <2>3 DEF ConnInv
<1> QED
  BY <1>1, <1>2, <1>3, <1>4, PumpOthers DEF PumpFrame

\* A receive moves the oldest message from the channel to the frame: every
\* message stays the same distance from the registration.
LEMMA ReceiveEffect ==
  ASSUME IInv, NEW c \in Conns, Receive(c), wire' = wire, joined' = joined,
         UNCHANGED <<clients, todo, broadcasts>>
  PROVE  /\ send' \in [Conns -> Seq(1..MaxBroadcasts)]
         /\ frame' \in [Conns -> Seq(1..MaxBroadcasts)]
         /\ \A d \in Conns : Len(send'[d]) <= SendCap
         /\ \A d \in Conns \ {c} : UNCHANGED <<send[d], frame[d]>>
         /\ Len(send'[c]) = Len(send[c]) - 1
         /\ send[c] # <<>>
         /\ InPlace(c)'
<1> USE HubAssumption
<1> DEFINE s == send[c]  f == frame[c]  n == Len(s)  k == Len(f)
<1>1. /\ s # <<>> /\ s \in Seq(1..MaxBroadcasts) /\ f \in Seq(1..MaxBroadcasts)
      /\ s \in Seq(Nat) /\ f \in Seq(Nat)
      /\ send' = [send EXCEPT ![c] = Tail(s)]
      /\ frame' = [frame EXCEPT ![c] = Append(f, Head(s))]
  BY Lengths DEF Receive, IInv
<1> HIDE DEF s, f
<1>2. /\ n \in Nat \ {0} /\ k \in Nat
      /\ Tail(s) \in Seq(1..MaxBroadcasts) /\ Len(Tail(s)) = n - 1
      /\ Append(f, Head(s)) \in Seq(1..MaxBroadcasts) /\ Len(Append(f, Head(s))) = k + 1
  BY <1>1
<1> USE DEF s, f
<1>3. /\ send'[c] = Tail(s) /\ frame'[c] = Append(f, Head(s))
      /\ \A d \in Conns \ {c} : UNCHANGED <<send[d], frame[d]>>
  BY <1>1 DEF IInv, TypeOK
<1>4. /\ send' \in [Conns -> Seq(1..MaxBroadcasts)]
      /\ frame' \in [Conns -> Seq(1..MaxBroadcasts)]
  BY <1>1, <1>2 DEF IInv, TypeOK
<1>5. \A d \in Conns : Len(send'[d]) <= SendCap
  <2>1. n <= SendCap /\ n - 1 <= SendCap
    BY <1>2 DEF IInv, TypeOK
  <2> QED
    BY <1>2, <1>3, <2>1 DEF IInv, TypeOK
<1>6. InPlace(c)'
  <2>1. InPlace(c)
    BY DEF IInv, ConnInv
  <2> DEFINE j == joined[c]  m == Len(wire[c])  b == j + m
  <2>2. m \in Nat /\ j \in Nat /\ k \in Nat /\ n \in Nat
    BY <1>2, Lengths DEF IInv
  <2> HIDE DEF j, m, k, n
  <2>3. /\ b \in Nat /\ b + k \in Nat /\ b + k + 1 = b + (k + 1)
        /\ b + (k + 1) + (n - 1) = b + k + n
    BY <2>2
  <2> USE DEF j, m, k, n
  <2>4. Head(s) = b + k + 1 /\ Run(Tail(s), b + (k + 1))
    BY <1>1, <2>1, <2>3, RunTail DEF InPlace
  <2>5. Run(Append(f, b + k + 1), b)
    BY <1>1, <2>1, <2>3, RunAppend DEF InPlace
  <2>8. c \in clients => b + (k + 1) + (n - 1) = UpTo(c)
    BY <2>1, <2>3 DEF InPlace
  <2>6. UpTo(c)' = UpTo(c)
    BY DEF UpTo
  <2>7. Len(frame'[c]) = k + 1 /\ Len(send'[c]) = n - 1
    BY <1>2, <1>3
  <2> QED
    BY <1>3, <2>1, <2>4, <2>5, <2>6, <2>7, <2>8 DEF InPlace
<1> QED
  BY <1>1, <1>2, <1>3, <1>4, <1>5, <1>6

LEMMA WriterTakeStep ==
  ASSUME IInv, NEW c \in Conns, WriterTake(c) \/ WriterTakeFails(c) \/ WriterBatch(c)
  PROVE  IInv'
<1> USE HubAssumption
<1>1. /\ Receive(c)
      /\ UNCHANGED <<hubVars, stage, closed, reader, wire, joined>>
  BY DEF WriterTake, WriterTakeFails, WriterBatch
<1>2. /\ writer' \in [Conns -> {"none", "select", "count", "batch", "done"}]
      /\ conn' \in [Conns -> {"open", "lost", "closed"}]
      /\ left' \in [Conns -> 0..SendCap]
      /\ \A d \in Conns \ {c} : UNCHANGED <<writer[d], left[d]>>
      /\ writer'[c] = "batch" =>
           writer[c] = "batch" /\ left[c] > 0 /\ left'[c] = left[c] - 1
      /\ writer[c] # "none" /\ writer'[c] # "none"
  <2>1. CASE WriterTake(c)
    BY <2>1 DEF WriterTake, IInv, TypeOK
  <2>2. CASE WriterTakeFails(c)
    BY <2>2 DEF WriterTakeFails, WriterReturns, IInv, TypeOK
  <2>3. CASE WriterBatch(c)
    BY <2>3 DEF WriterBatch, IInv, TypeOK
  <2> QED
    BY <2>1, <2>2, <2>3
<1>3. /\ send' \in [Conns -> Seq(1..MaxBroadcasts)]
      /\ frame' \in [Conns -> Seq(1..MaxBroadcasts)]
      /\ \A d \in Conns : Len(send'[d]) <= SendCap
      /\ \A d \in Conns \ {c} : UNCHANGED <<send[d], frame[d]>>
      /\ Len(send'[c]) = Len(send[c]) - 1
      /\ send[c] # <<>>
      /\ InPlace(c)'
  BY <1>1, ReceiveEffect DEF hubVars
<1>4. TypeOK'
  BY <1>1, <1>2, <1>3 DEF IInv, TypeOK, hubVars
<1>5. Lifecycle(c)'
  BY <1>1, <1>2, <1>3 DEF IInv, ConnInv, Lifecycle, hubVars
<1>6. BatchHere(c)'
  <2>1. left[c] \in Nat /\ Len(send[c]) \in Nat /\ BatchHere(c)
    BY Lengths DEF IInv, ConnInv
  <2> QED
    BY <1>2, <1>3, <2>1 DEF BatchHere
<1> QED
  BY <1>1, <1>2, <1>3, <1>4, <1>5, <1>6, PumpOthers DEF PumpFrame, ConnInv

\* A written frame moves to the wire as a whole.
LEMMA WriterFlushStep ==
  ASSUME IInv, NEW c \in Conns, WriterFlush(c)
  PROVE  IInv'
<1> USE HubAssumption
<1> DEFINE u == wire[c]  f == frame[c]  n == Len(u)  k == Len(f)
<1>1. /\ u \in Seq(1..MaxBroadcasts) /\ f \in Seq(1..MaxBroadcasts)
      /\ u \in Seq(Nat) /\ f \in Seq(Nat)
      /\ wire' = [wire EXCEPT ![c] = u \o f]
      /\ frame' = [frame EXCEPT ![c] = <<>>]
      /\ writer' = [writer EXCEPT ![c] = "select"] /\ writer[c] = "batch"
      /\ UNCHANGED <<hubVars, stage, conn, send, closed, reader, left, joined>>
  BY Lengths DEF WriterFlush, IInv
<1> HIDE DEF u, f
<1>2. /\ n \in Nat /\ k \in Nat
      /\ u \o f \in Seq(1..MaxBroadcasts) /\ Len(u \o f) = n + k
  BY <1>1
<1> USE DEF u, f
<1>3. /\ wire'[c] = u \o f /\ frame'[c] = <<>> /\ Len(frame'[c]) = 0
      /\ writer'[c] = "select"
      /\ \A d \in Conns \ {c} : UNCHANGED <<wire[d], frame[d], writer[d]>>
  BY <1>1 DEF IInv, TypeOK
<1>4. TypeOK'
  <2>1. \A S : <<>> \in Seq(S)
    OBVIOUS
  <2>2. wire' \in [Conns -> Seq(1..MaxBroadcasts)] /\ frame' \in [Conns -> Seq(1..MaxBroadcasts)]
    BY <2>1, <1>1, <1>2 DEF IInv, TypeOK
  <2> QED
    BY <2>2, <1>1 DEF IInv, TypeOK, hubVars
<1>5. InPlace(c)'
  <2>1. InPlace(c)
    BY DEF IInv, ConnInv
  <2> DEFINE j == joined[c]  q == Len(send[c])
  <2>2. q \in Nat /\ j \in Nat /\ n \in Nat /\ k \in Nat
    BY <1>2, Lengths DEF IInv
  <2> HIDE DEF j, q, n, k
  <2>8. j + (n + k) + 0 = j + n + k /\ j + (n + k) + 0 + q = j + n + k + q
    BY <2>2
  <2> USE DEF j, q, n, k
  <2>3. Run(u \o f, joined[c]) /\ Run(<<>>, joined[c] + (n + k))
    BY <1>1, <2>1, <2>2, RunConcat, RunEmpty DEF InPlace
  <2>4. Run(send[c], joined[c] + (n + k) + 0)
    BY <2>1, <2>8 DEF InPlace
  <2>5. c \in clients => joined[c] + (n + k) + 0 + Len(send[c]) = UpTo(c)
    BY <2>1, <2>8 DEF InPlace
  <2>6. UpTo(c)' = UpTo(c) /\ send' = send /\ joined' = joined /\ clients' = clients
    BY <1>1 DEF UpTo, hubVars
  <2>7. Len(wire'[c]) = n + k /\ Len(frame'[c]) = 0
    BY <1>2, <1>3
  <2> QED
    BY <1>3, <2>3, <2>4, <2>5, <2>6, <2>7 DEF InPlace
<1>6. Lifecycle(c)' /\ BatchHere(c)'
  BY <1>1, <1>3 DEF IInv, ConnInv, Lifecycle, BatchHere, hubVars
<1> QED
  BY <1>1, <1>3, <1>4, <1>5, <1>6, PumpOthers DEF PumpFrame, ConnInv

--------------------------------------------------------------------------------

LEMMA IInvStep ==
  ASSUME IInv, [Next]_vars
  PROVE  IInv'
<1>1. CASE \E w \in Workers : BroadcastEvent(w) \/ TakeBroadcast(w)
  BY <1>1, BroadcastEventStep, TakeBroadcastStep
<1>2. CASE \E c \in Conns : ServeWs(c) \/ Register(c) \/ StartPumps(c) \/ Unregister(c)
  BY <1>2, RegistrationStep
<1>3. CASE \E c \in Conns : FanOut(c)
  BY <1>3, FanOutStep
<1>4. CASE \E c \in Conns : PeerLeaves(c) \/ ReaderStep(c) \/ PingFails(c)
  BY <1>4, QuietPumpStep
<1>5. CASE \E c \in Conns : WriterStep(c)
  <2>1. PICK c \in Conns : WriterStep(c)
    BY <1>5
  <2>2. CASE WriterTake(c) \/ WriterTakeFails(c) \/ WriterBatch(c)
    BY <2>2, WriterTakeStep
  <2>3. CASE WriterFlush(c)
    BY <2>3, WriterFlushStep
  <2>4. CASE WriterCount(c) \/ WriterFlushFails(c) \/ WriterEnds(c)
    BY <2>4, QuietPumpStep
  <2> QED
    BY <2>1, <2>2, <2>3, <2>4 DEF WriterStep
<1>6. CASE UNCHANGED vars
  <2>1. TypeOK' /\ NoPanic' /\ CountInv'
    BY <1>6 DEF vars, hubVars, pumpVars, IInv, TypeOK, NoPanic, CountInv
  <2>2. ASSUME NEW d \in Conns PROVE ConnInv(d)'
    BY <1>6, OtherConn DEF vars, hubVars, pumpVars, IInv
  <2> QED
    BY <2>1, <2>2 DEF IInv
<1> QED
  BY <1>1, <1>2, <1>3, <1>4, <1>5, <1>6 DEF Next

LEMMA Inductive == Spec => []IInv
<1>1. Init => IInv
  BY InitIInv
<1>2. IInv /\ [Next]_vars => IInv'
  BY IInvStep
<1> QED
  BY <1>1, <1>2, PTL DEF Spec

\* Every variable keeps its type, and every send channel its capacity.
THEOREM TypeCorrect == Spec => []TypeOK
<1>1. IInv => TypeOK
  BY DEF IInv
<1> QED
  BY <1>1, Inductive, PTL

\* The hub never closes a channel twice and never sends on a closed one.
THEOREM HubNeverPanics == Spec => []NoPanic
<1>1. IInv => NoPanic
  BY DEF IInv
<1> QED
  BY <1>1, Inductive, PTL

\* The messages a write pump has counted are there when it receives them.
THEOREM BatchesAreWhole == Spec => []BatchIsQueued
<1>1. IInv => BatchIsQueued
  BY DEF IInv, ConnInv, BatchHere, BatchIsQueued
<1> QED
  BY <1>1, Inductive, PTL

\* What a client was given is without a gap, from its registration on.
LEMMA NoneIsMissed == IInv => NoGap
<1>1. ASSUME IInv, NEW c \in Conns
      PROVE  /\ \A i \in 1..Len(Given(c)) : Given(c)[i] = joined[c] + i
             /\ c \in clients => Len(Given(c)) = UpTo(c) - joined[c]
  <2> DEFINE u == wire[c]  f == frame[c]  s == send[c]
  <2>1. /\ u \in Seq(Nat) /\ f \in Seq(Nat) /\ s \in Seq(Nat)
        /\ joined[c] \in Nat /\ broadcasts \in Nat
    BY <1>1, Lengths DEF IInv
  <2>2. InPlace(c)
    BY <1>1 DEF IInv, ConnInv
  <2>3. Run(u \o f, joined[c])
    BY <2>1, <2>2, RunConcat DEF InPlace
  <2>4. Given(c) = (u \o f) \o s
    BY DEF Given
  <2> HIDE DEF u, f, s
  <2>5. /\ u \o f \in Seq(Nat) /\ Len(u \o f) = Len(u) + Len(f)
        /\ Len((u \o f) \o s) = Len(u) + Len(f) + Len(s)
        /\ Len(u) \in Nat /\ Len(f) \in Nat /\ Len(s) \in Nat
    BY <2>1
  <2>6. Run(s, joined[c] + (Len(u) + Len(f)))
    <3>1. joined[c] + (Len(u) + Len(f)) = joined[c] + Len(u) + Len(f)
      BY <2>1, <2>5
    <3> QED
      BY <2>2, <3>1 DEF InPlace, u, f, s
  <2>7. Run((u \o f) \o s, joined[c])
    BY <2>1, <2>3, <2>5, <2>6, RunConcat
  <2>8. c \in clients => joined[c] + Len(u) + Len(f) + Len(s) = UpTo(c)
    BY <2>2 DEF InPlace, u, f, s
  <2>9. c \in clients => Len((u \o f) \o s) = UpTo(c) - joined[c]
    BY <2>1, <2>5, <2>8 DEF UpTo
  <2> QED
    BY <2>4, <2>7, <2>9 DEF Run
<1> QED
  BY <1>1 DEF NoGap

\* A client gets every broadcast from its registration on, in order, once, up to
\* the one the fan-out is at, for as long as it is registered.
THEOREM NoClientMissesOne == Spec => []NoGap
  BY NoneIsMissed, Inductive, PTL

================================================================================
