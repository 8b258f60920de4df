----------------------------- MODULE WebsocketHub ------------------------------
(***************************************************************************)
(* The websocket hub of the API (internal/handlers/websocket.go): one hub  *)
(* goroutine owns the set of clients; every connection has a bounded send  *)
(* channel, a read pump and a write pump; the ingestor's workers hand their *)
(* broadcasts to the hub over an unbuffered channel.  Broadcasts are       *)
(* numbered in the order in which the hub takes them.  The hub's select is *)
(* atomic, its fan-out is not: the pumps run between two sends.            *)
(***************************************************************************)
EXTENDS Naturals, Sequences, FiniteSets

CONSTANTS
  Conns,         \* the websocket connections, one *Client each
  Workers,       \* the goroutines that call BroadcastEvent
  SendCap,       \* capacity of a client's send channel, 256 in the code
  MaxBroadcasts  \* bound: calls of BroadcastEvent

ASSUME HubAssumption ==
  /\ IsFiniteSet(Workers)
  /\ SendCap \in Nat \ {0}
  /\ MaxBroadcasts \in Nat

VARIABLES
  clients,     \* h.clients
  waiting,     \* workers blocked in h.broadcast <- bytes
  broadcasts,  \* how many broadcasts the hub has taken
  todo,        \* the clients the running fan-out has not come to yet
  panicked,    \* a channel was closed twice, or sent on after its close
  stage,       \* ServeWs of a connection: how far it has come
  conn,        \* the connection: "open", "lost" by its peer, or "closed" here
  send,        \* the messages in c.send
  closed,      \* the clients whose send channel is closed
  reader,      \* where readPump is
  writer,      \* where writePump is
  left,        \* writePump: how many queued messages it has still to take
  frame,       \* writePump: the messages in the frame it is writing
  wire,        \* the messages of the frames it has written
  joined       \* the number of broadcasts when the client was registered

hubVars == <<clients, waiting, broadcasts, todo, panicked>>
pumpVars == <<reader, writer, left, frame, wire>>
vars == <<hubVars, stage, conn, send, closed, pumpVars, joined>>

Init ==
  /\ clients = {}
  /\ waiting = {}
  /\ broadcasts = 0
  /\ todo = {}
  /\ panicked = FALSE
  /\ stage = [c \in Conns |-> "none"]
  /\ conn = [c \in Conns |-> "closed"]
  /\ send = [c \in Conns |-> <<>>]
  /\ closed = {}
  /\ reader = [c \in Conns |-> "none"]
  /\ writer = [c \in Conns |-> "none"]
  /\ left = [c \in Conns |-> 0]
  /\ frame = [c \in Conns |-> <<>>]
  /\ wire = [c \in Conns |-> <<>>]
  /\ joined = [c \in Conns |-> 0]

--------------------------------------------------------------------------------

\* ServeWs upgrades the request and blocks in register <- client.
ServeWs(c) ==
  /\ stage[c] = "none"
  /\ stage' = [stage EXCEPT ![c] = "registering"]
  /\ conn' = [conn EXCEPT ![c] = "open"]
  /\ UNCHANGED <<hubVars, send, closed, pumpVars, joined>>

\* ServeWs goes on once the hub has the client, and starts both pumps.
StartPumps(c) ==
  /\ stage[c] = "registered"
  /\ stage' = [stage EXCEPT ![c] = "pumping"]
  /\ reader' = [reader EXCEPT ![c] = "reading"]
  /\ writer' = [writer EXCEPT ![c] = "select"]
  /\ UNCHANGED <<hubVars, conn, send, closed, left, frame, wire, joined>>

\* The peer goes away: it closes, falls silent, or sends what the read limit
\* forbids.
PeerLeaves(c) ==
  /\ conn[c] = "open"
  /\ conn' = [conn EXCEPT ![c] = "lost"]
  /\ UNCHANGED <<hubVars, stage, send, closed, pumpVars, joined>>

\* A worker calls BroadcastEvent and blocks until the hub takes the message.
BroadcastEvent(w) ==
  /\ w \notin waiting
  /\ broadcasts + Cardinality(waiting) < MaxBroadcasts
  /\ waiting' = waiting \cup {w}
  /\ UNCHANGED <<clients, broadcasts, todo, panicked, stage, conn, send, closed, pumpVars, joined>>

--------------------------------------------------------------------------------

\* Run is in its select: no fan-out is under way.
Selecting == todo = {} /\ ~panicked

\* close(client.send), which panics when the channel is closed already.
CloseSend(c) ==
  /\ closed' = closed \cup {c}
  /\ panicked' = (c \in closed)

Register(c) ==
  /\ Selecting
  /\ stage[c] = "registering"
  /\ stage' = [stage EXCEPT ![c] = "registered"]
  /\ clients' = clients \cup {c}
  /\ joined' = [joined EXCEPT ![c] = broadcasts]
  /\ UNCHANGED <<waiting, broadcasts, todo, panicked, conn, send, closed, pumpVars>>

\* An unregister that does not look whether the client is still registered.
UnregisterBlindly(c) ==
  /\ Selecting
  /\ reader[c] = "leaving"
  /\ reader' = [reader EXCEPT ![c] = "unregistered"]
  /\ clients' = clients \ {c}
  /\ CloseSend(c)
  /\ UNCHANGED <<waiting, broadcasts, todo, stage, conn, send, writer, left, frame, wire, joined>>

\* The read pump's unregister request: nothing to do for a client the fan-out
\* has dropped before.
Unregister(c) ==
  /\ Selecting
  /\ reader[c] = "leaving"
  /\ reader' = [reader EXCEPT ![c] = "unregistered"]
  /\ clients' = clients \ {c}
  /\ \/ c \in clients /\ CloseSend(c)
     \/ c \notin clients /\ UNCHANGED <<closed, panicked>>
  /\ UNCHANGED <<waiting, broadcasts, todo, stage, conn, send, writer, left, frame, wire, joined>>

\* The hub takes a waiting worker's message and starts to fan it out.
TakeBroadcast(w) ==
  /\ Selecting
  /\ w \in waiting
  /\ waiting' = waiting \ {w}
  /\ broadcasts' = broadcasts + 1
  /\ todo' = clients
  /\ UNCHANGED <<clients, panicked, stage, conn, send, closed, pumpVars, joined>>

SendFull(c) == Len(send[c]) >= SendCap

\* client.send <- message
Push(c) ==
  /\ ~SendFull(c)
  /\ send' = [send EXCEPT ![c] = Append(@, broadcasts)]
  /\ panicked' = (c \in closed)
  /\ UNCHANGED <<clients, closed>>

\* A default case that only skips the message.
SkipMessage(c) ==
  /\ SendFull(c)
  /\ UNCHANGED <<send, closed, panicked, clients>>

\* A default case that forgets to close the channel.
ForgetClient(c) ==
  /\ SendFull(c)
  /\ clients' = clients \ {c}
  /\ UNCHANGED <<send, closed, panicked>>

\* default: close(client.send); delete(h.clients, client)
DropClient(c) ==
  /\ SendFull(c)
  /\ CloseSend(c)
  /\ clients' = clients \ {c}
  /\ UNCHANGED send

\* A fan-out without the default case: it blocks while the channel is full.
FanOutBlocking(c) ==
  /\ c \in todo
  /\ ~panicked
  /\ todo' = todo \ {c}
  /\ Push(c)
  /\ UNCHANGED <<waiting, broadcasts, stage, conn, pumpVars, joined>>

\* One turn of the fan-out loop; a map is ranged over in any order.
FanOut(c) ==
  /\ c \in todo
  /\ ~panicked
  /\ todo' = todo \ {c}
  /\ Push(c) \/ DropClient(c)
  /\ UNCHANGED <<waiting, broadcasts, stage, conn, pumpVars, joined>>

--------------------------------------------------------------------------------

\* ReadMessage fails: the peer left, was silent for pongWait, or the connection
\* was closed by the write pump.
ReadFails(c) ==
  /\ reader[c] = "reading"
  /\ conn[c] # "open"
  /\ reader' = [reader EXCEPT ![c] = "leaving"]
  /\ UNCHANGED <<hubVars, stage, conn, send, closed, writer, left, frame, wire, joined>>

\* The read pump's deferred conn.Close, once the hub has taken its request.
ReaderCloses(c) ==
  /\ reader[c] = "unregistered"
  /\ reader' = [reader EXCEPT ![c] = "done"]
  /\ conn' = [conn EXCEPT ![c] = "closed"]
  /\ UNCHANGED <<hubVars, stage, send, closed, writer, left, frame, wire, joined>>

\* The write pump returns; its deferred conn.Close closes the connection.
WriterReturns(c) ==
  /\ writer' = [writer EXCEPT ![c] = "done"]
  /\ conn' = [conn EXCEPT ![c] = "closed"]

\* message := <-c.send
Receive(c) ==
  /\ send[c] # <<>>
  /\ send' = [send EXCEPT ![c] = Tail(@)]
  /\ frame' = [frame EXCEPT ![c] = Append(@, Head(send[c]))]

\* The write pump takes a message and opens a frame.
WriterTake(c) ==
  /\ writer[c] = "select"
  /\ Receive(c)
  /\ writer' = [writer EXCEPT ![c] = "count"]
  /\ UNCHANGED <<hubVars, stage, conn, closed, reader, left, wire, joined>>

\* NextWriter fails: a close frame has been exchanged.
WriterTakeFails(c) ==
  /\ writer[c] = "select"
  /\ conn[c] # "open"
  /\ Receive(c)
  /\ WriterReturns(c)
  /\ UNCHANGED <<hubVars, stage, closed, reader, left, wire, joined>>

\* An n that counts the message in hand as well.
WriterCountsOneMore(c) ==
  /\ writer[c] = "count"
  /\ writer' = [writer EXCEPT ![c] = "batch"]
  /\ left' = [left EXCEPT ![c] = Len(send[c]) + 1]
  /\ UNCHANGED <<hubVars, stage, conn, send, closed, reader, frame, wire, joined>>

\* n := len(c.send)
WriterCount(c) ==
  /\ writer[c] = "count"
  /\ writer' = [writer EXCEPT ![c] = "batch"]
  /\ left' = [left EXCEPT ![c] = Len(send[c])]
  /\ UNCHANGED <<hubVars, stage, conn, send, closed, reader, frame, wire, joined>>

\* w.Write(<-c.send)
WriterBatch(c) ==
  /\ writer[c] = "batch"
  /\ left[c] > 0
  /\ Receive(c)
  /\ left' = [left EXCEPT ![c] = @ - 1]
  /\ UNCHANGED <<hubVars, stage, conn, closed, reader, writer, wire, joined>>

\* w.Close() writes the frame; a peer that has left does not get it.
WriterFlush(c) ==
  /\ writer[c] = "batch"
  /\ left[c] = 0
  /\ conn[c] # "closed"
  /\ wire' = [wire EXCEPT ![c] = @ \o frame[c]]
  /\ frame' = [frame EXCEPT ![c] = <<>>]
  /\ writer' = [writer EXCEPT ![c] = "select"]
  /\ UNCHANGED <<hubVars, stage, conn, send, closed, reader, left, joined>>

\* w.Close() fails: no connection any more, or a slow peer and writeWait is over.
WriterFlushFails(c) ==
  /\ writer[c] = "batch"
  /\ left[c] = 0
  /\ WriterReturns(c)
  /\ UNCHANGED <<hubVars, stage, send, closed, reader, left, frame, wire, joined>>

\* The channel is closed and empty: send a close message and return.
WriterEnds(c) ==
  /\ writer[c] = "select"
  /\ send[c] = <<>>
  /\ c \in closed
  /\ WriterReturns(c)
  /\ UNCHANGED <<hubVars, stage, send, closed, reader, left, frame, wire, joined>>

\* The ticker fires and the ping cannot be written.  (One that can is no change.)
PingFails(c) ==
  /\ writer[c] = "select"
  /\ WriterReturns(c)
  /\ UNCHANGED <<hubVars, stage, send, closed, reader, left, frame, wire, joined>>

ReaderStep(c) == ReadFails(c) \/ ReaderCloses(c)

WriterStep(c) ==
  \/ WriterTake(c) \/ WriterTakeFails(c) \/ WriterCount(c) \/ WriterBatch(c)
  \/ WriterFlush(c) \/ WriterFlushFails(c) \/ WriterEnds(c)

Next ==
  \/ \E w \in Workers : BroadcastEvent(w) \/ TakeBroadcast(w)
  \/ \E c \in Conns :
       \/ ServeWs(c) \/ StartPumps(c) \/ PeerLeaves(c)
       \/ Register(c) \/ Unregister(c) \/ FanOut(c)
       \/ ReaderStep(c) \/ WriterStep(c) \/ PingFails(c)

\* Goroutines run.  The hub's select picks among its ready channels at random and
\* serves the goroutines blocked on one channel in order: a blocked sender is not
\* passed over for ever.  Nothing obliges a peer to leave or a ping to fail.
Fairness ==
  /\ \A w \in Workers : SF_vars(TakeBroadcast(w))
  /\ \A c \in Conns :
       /\ SF_vars(Register(c)) /\ SF_vars(Unregister(c)) /\ WF_vars(FanOut(c))
       /\ WF_vars(StartPumps(c)) /\ WF_vars(ReaderStep(c)) /\ WF_vars(WriterStep(c))

Spec == Init /\ [][Next]_vars /\ Fairness

--------------------------------------------------------------------------------

TypeOK ==
  /\ clients \subseteq Conns
  /\ waiting \subseteq Workers
  /\ broadcasts \in 0..MaxBroadcasts
  /\ todo \subseteq clients
  /\ panicked \in BOOLEAN
  /\ stage \in [Conns -> {"none", "registering", "registered", "pumping"}]
  /\ conn \in [Conns -> {"open", "lost", "closed"}]
  /\ send \in [Conns -> Seq(1..MaxBroadcasts)]
  /\ \A c \in Conns : Len(send[c]) <= SendCap
  /\ closed \subseteq Conns
  /\ reader \in [Conns -> {"none", "reading", "leaving", "unregistered", "done"}]
  /\ writer \in [Conns -> {"none", "select", "count", "batch", "done"}]
  /\ left \in [Conns -> 0..SendCap]
  /\ frame \in [Conns -> Seq(1..MaxBroadcasts)]
  /\ wire \in [Conns -> Seq(1..MaxBroadcasts)]
  /\ joined \in [Conns -> 0..MaxBroadcasts]

\* The hub closes a client's channel from two places, the fan-out and the
\* unregister request of a read pump that is late: never twice, and nothing is
\* sent on the channel afterwards.
NoPanic == ~panicked

\* The write pump counts the queued messages and takes that many with a plain
\* receive: they are all there even if the hub closes the channel in between, so
\* it neither blocks inside a frame nor writes the nil of a closed channel.
BatchIsQueued ==
  \A c \in Conns : writer[c] = "batch" => left[c] <= Len(send[c])

\* What the hub has given to client c, in order.
Given(c) == wire[c] \o frame[c] \o send[c]

\* The number of the last broadcast the fan-out has brought to c.
UpTo(c) == IF c \in todo THEN broadcasts - 1 ELSE broadcasts

\* A client gets the broadcasts from its registration on without a gap, in order
\* and once each, and as long as it is registered all of them: a client that is
\* too slow is dropped, it never misses a message and stays.
NoGap ==
  \A c \in Conns :
    /\ \A i \in 1..Len(Given(c)) : Given(c)[i] = joined[c] + i
    /\ c \in clients => Len(Given(c)) = UpTo(c) - joined[c]

\* A worker of the ingestor is not held up for ever by a client that does not
\* read, or by one whose pumps have ended.
BroadcastIsTaken ==
  \A w \in Workers : w \in waiting ~> w \notin waiting

Gone(c) ==
  /\ stage[c] = "pumping"
  /\ c \notin clients \/ conn[c] # "open"

\* A client that was dropped, or whose connection has ended, is forgotten by the
\* hub and both its pumps return, whichever of the three notices first.
GoneIsCleanedUp ==
  \A c \in Conns :
    Gone(c) ~> c \notin clients /\ reader[c] = "done" /\ writer[c] = "done"

================================================================================
