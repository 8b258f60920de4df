----------------------------- MODULE AgentDelivery -----------------------------
(***************************************************************************)
(* How the agent (nexdefend-agent/main.go) gets an event to Kafka.  Five   *)
(* goroutines share one kafka.Producer and one SecureQueue: the process    *)
(* loop of main, the flow monitor, the watchers that have no queue (FIM,   *)
(* network, Kubernetes), the drain loop processQueue, and the handler of   *)
(* the producer's delivery reports.  librdkafka and the broker are modelled *)
(* from how the agent uses them: Produce fails when the local buffer is    *)
(* full, and each buffered message ends in one report, which may say       *)
(* "failed" of a message the broker did store.                             *)
(***************************************************************************)
EXTENDS SecureQueue, FiniteSets

CONSTANTS
  ProcEvents,   \* captured by the process loop of main
  FlowEvents,   \* captured by the flow monitor
  WatchEvents,  \* captured by the FIM, network and Kubernetes watchers
  BufferCap,    \* librdkafka's queue.buffering.max.messages
  MaxReports,   \* bound: failed delivery reports
  MaxRestarts   \* bound: restarts of the agent

ASSUME DeliveryAssumption ==
  /\ Events = ProcEvents \cup FlowEvents \cup WatchEvents
  /\ ProcEvents \cap FlowEvents = {}
  /\ BufferCap \in Nat \ {0}
  /\ MaxReports \in Nat
  /\ MaxRestarts \in Nat

VARIABLES
  producer,  \* "none" until kafka.NewProducer succeeds, then "up"
  buffer,    \* messages handed to librdkafka that have no report yet
  reports,   \* events whose report says "failed", in p.Events()
  drain,     \* processQueue: "wait" for the ticker, or "run" the inner loop
  hand,      \* the event processQueue has dequeued and not yet produced
  captured,  \* the events a capture loop has reacted to
  accepted,  \* those that Produce or Enqueue took without an error
  stored,    \* how many times the broker stored each event
  failures   \* how many failed reports each event had

agentVars == <<producer, buffer, reports, drain, hand>>
historyVars == <<captured, accepted, stored, failures>>
vars == <<queueVars, agentVars, historyVars>>

Topics == {"nexdefend-events", "nexdefend-flows"}
Message == [event : Events, topic : Topics]

Direct(e) ==
  [event |-> e,
   topic |-> IF e \in FlowEvents THEN "nexdefend-flows" ELSE "nexdefend-events"]
FromQueue(e) == [event |-> e, topic |-> "nexdefend-events"]

Buffered == {m.event : m \in buffer}

\* Where the agent keeps an event it has taken.
Custody == Queued \cup Buffered \cup reports \cup ({hand} \ {NoEvent})

--------------------------------------------------------------------------------

Init ==
  /\ QueueInit
  /\ producer = "none"
  /\ buffer = {}
  /\ reports = {}
  /\ drain = "wait"
  /\ hand = NoEvent
  /\ captured = {}
  /\ accepted = {}
  /\ stored = [e \in Events |-> 0]
  /\ failures = [e \in Events |-> 0]

\* The first kafka.NewProducer, or one of the reconnect loop, succeeds.
Connect ==
  /\ producer = "none"
  /\ producer' = "up"
  /\ UNCHANGED <<queueVars, buffer, reports, drain, hand, historyVars>>

BufferFull == Cardinality(buffer) >= BufferCap

\* Produce returns nil: the message is in librdkafka's buffer.
Produce(m) ==
  /\ producer = "up"
  /\ ~BufferFull
  /\ buffer' = buffer \cup {m}

\* A capture loop meets e and either takes it or lets it fall.
Take(e) == captured' = captured \cup {e} /\ accepted' = accepted \cup {e}
LetFall(e) == captured' = captured \cup {e} /\ UNCHANGED accepted

\* A capture loop hands e to the producer.
Hand(e) ==
  /\ Produce(Direct(e))
  /\ Take(e)
  /\ UNCHANGED queueVars

\* A capture loop puts e in the offline queue; an error is only logged.
Keep(e) ==
  /\ \/ Enqueue(e, TRUE) /\ Take(e)
     \/ Enqueue(e, FALSE) /\ LetFall(e)
  /\ UNCHANGED buffer

\* Nobody keeps e.
Drop(e) ==
  /\ LetFall(e)
  /\ UNCHANGED <<queueVars, buffer>>

\* Produce may also refuse a message while its buffer has room: "Local queue full or other
\* immediate error".

\* The process loop of main looks at the producer only: the error of Produce is not read.
\* It may have looked before the producer came and queue the event after it.
CaptureProcess(e) ==
  /\ e \in ProcEvents \ captured
  /\ \/ Hand(e)
     \/ producer = "up" /\ Drop(e)
     \/ Keep(e)
  /\ UNCHANGED <<producer, reports, drain, hand, stored, failures>>

\* The flow monitor also queues a flow that Produce refused.
CaptureFlow(e) ==
  /\ e \in FlowEvents \ captured
  /\ Hand(e) \/ Keep(e)
  /\ UNCHANGED <<producer, reports, drain, hand, stored, failures>>

\* The FIM, network and Kubernetes watchers have no queue.
CaptureWatch(e) ==
  /\ e \in WatchEvents \ captured
  /\ Hand(e) \/ Drop(e)
  /\ UNCHANGED <<producer, reports, drain, hand, stored, failures>>

--------------------------------------------------------------------------------

\* The ticker fires; in offline mode the loop just accumulates.
DrainTick ==
  /\ drain = "wait"
  /\ producer = "up"
  /\ drain' = "run"
  /\ UNCHANGED <<queueVars, producer, buffer, reports, hand, historyVars>>

\* A drain loop that returns instead of waiting for the next tick.
DrainReturns ==
  /\ drain = "run"
  /\ hand = NoEvent
  /\ DequeueNothing
  /\ drain' = "returned"
  /\ UNCHANGED <<producer, buffer, reports, hand, historyVars>>

\* Dequeue has nothing for the loop, or fails: wait for the next tick.
DrainBreak ==
  /\ drain = "run"
  /\ hand = NoEvent
  /\ DequeueNothing
  /\ drain' = "wait"
  /\ UNCHANGED <<producer, buffer, reports, hand, historyVars>>

\* Dequeue meets a disk error: the same.
DrainReadFails ==
  /\ drain = "run"
  /\ hand = NoEvent
  /\ DequeueFails
  /\ drain' = "wait"
  /\ UNCHANGED <<producer, buffer, reports, hand, historyVars>>

DrainDequeue ==
  /\ drain = "run"
  /\ hand = NoEvent
  /\ \E e \in Events : Dequeue(e) /\ hand' = e
  /\ UNCHANGED <<producer, buffer, reports, drain, historyVars>>

DrainProduce ==
  /\ drain = "run"
  /\ hand # NoEvent
  /\ Produce(FromQueue(hand))
  /\ hand' = NoEvent
  /\ UNCHANGED <<queueVars, producer, reports, drain, historyVars>>

\* A drain loop that does not put back what Produce refused.
DrainForgets ==
  /\ drain = "run"
  /\ hand # NoEvent
  /\ hand' = NoEvent
  /\ drain' = "wait"
  /\ UNCHANGED <<queueVars, producer, buffer, reports, historyVars>>

\* Produce refuses: "Re-enqueue to avoid data loss", and wait for the next tick.
DrainRequeue ==
  /\ drain = "run"
  /\ hand # NoEvent
  /\ \E ok \in BOOLEAN : Enqueue(hand, ok)
  /\ hand' = NoEvent
  /\ drain' = "wait"
  /\ UNCHANGED <<producer, buffer, reports, historyVars>>

--------------------------------------------------------------------------------

\* The broker stores m and its report says so: the handler does nothing.
Deliver(m) ==
  /\ m \in buffer
  /\ buffer' = buffer \ {m}
  /\ stored' = [stored EXCEPT ![m.event] = @ + 1]
  /\ UNCHANGED <<queueVars, producer, reports, drain, hand, captured, accepted, failures>>

\* The report says the message was not delivered, which the broker may still have
\* stored: its acknowledgement was lost.  At most MaxReports times for an event.
FailDelivery(m) ==
  /\ m \in buffer
  /\ failures[m.event] < MaxReports
  /\ buffer' = buffer \ {m}
  /\ reports' = reports \cup {m.event}
  /\ failures' = [failures EXCEPT ![m.event] = @ + 1]
  /\ stored' \in {stored, [stored EXCEPT ![m.event] = @ + 1]}
  /\ UNCHANGED <<queueVars, producer, drain, hand, captured, accepted>>

\* A handler that only logs the failure.
LogReport(e) ==
  /\ e \in reports
  /\ reports' = reports \ {e}
  /\ UNCHANGED <<queueVars, producer, buffer, drain, hand, historyVars>>

\* The handler of delivery reports: "Enqueue the message on failure".
HandleReport(e) ==
  /\ e \in reports
  /\ reports' = reports \ {e}
  /\ \E ok \in BOOLEAN : Enqueue(e, ok)
  /\ UNCHANGED <<producer, buffer, drain, hand, historyVars>>

\* The process dies and starts again: what was in memory is gone.
Restart ==
  /\ key < MaxRestarts
  /\ QueueRestart
  /\ producer' = "none"
  /\ buffer' = {}
  /\ reports' = {}
  /\ drain' = "wait"
  /\ hand' = NoEvent
  /\ UNCHANGED historyVars

DrainStep ==
  DrainTick \/ DrainBreak \/ DrainReadFails \/ DrainDequeue \/ DrainProduce \/ DrainRequeue

Next ==
  \/ Connect
  \/ \E e \in Events : CaptureProcess(e) \/ CaptureFlow(e) \/ CaptureWatch(e)
  \/ DrainStep
  \/ \E m \in buffer : Deliver(m) \/ FailDelivery(m)
  \/ \E e \in reports : HandleReport(e)
  \/ Restart

\* The goroutines run, the broker is reachable in the end, librdkafka reports on
\* every message, and neither a read of the directory fails nor Produce refuses for
\* ever.  Nothing obliges an event to be captured.
Fairness ==
  /\ WF_vars(Connect)
  /\ WF_vars(DrainStep) /\ SF_vars(DrainDequeue) /\ SF_vars(DrainProduce)
  /\ \A e \in Events : WF_vars(HandleReport(e))
  /\ \A m \in Message : WF_vars(Deliver(m))

Spec == Init /\ [][Next]_vars /\ Fairness

--------------------------------------------------------------------------------

\* Something happened that the code does not survive without loss: a restart, a
\* failed write, or two files of the same name.
Faulty == key > 0 \/ diskFaults > 0 \/ collisions > 0

TypeOK ==
  /\ QueueTypeOK
  /\ producer \in {"none", "up"}
  /\ buffer \subseteq Message
  /\ IsFiniteSet(buffer)
  /\ Cardinality(buffer) <= BufferCap
  /\ reports \subseteq Events
  /\ drain \in {"wait", "run"}
  /\ hand \in Events \cup {NoEvent}
  /\ captured \subseteq Events
  /\ accepted \subseteq captured
  /\ stored \in [Events -> Nat]
  /\ failures \in [Events -> 0..MaxReports]

\* Five goroutines move an event between the directory, librdkafka's buffer, the
\* report channel and the drain loop's hand: it is never in two places at once,
\* nor in two files.
SingleCustody ==
  /\ OneFileEach(dir)
  /\ \A m, n \in buffer : m.event = n.event => m = n
  /\ Queued \cap (Buffered \cup reports \cup {hand}) = {}
  /\ Buffered \cap (reports \cup {hand}) = {}
  /\ hand \notin reports

\* An event that Produce or Enqueue took is stored by the broker or still in the
\* agent's custody, unless a fault has happened: every hand-over between the
\* goroutines, the refused Produce of the drain loop and the failed report included.
NothingAcceptedIsLost ==
  ~Faulty => \A e \in accepted : e \in Custody \/ stored[e] > 0

\* The broker stores an event a second time only after a report said that it had
\* not stored it: no interleaving of the goroutines, and no restart, sends an
\* event twice by itself.
NoUnreportedDuplicate ==
  \A e \in Events : stored[e] + (IF e \in Custody THEN 1 ELSE 0) <= 1 + failures[e]

\* The delivery path keeps the promise EventRelay states, step by step.
Relay == INSTANCE EventRelay WITH
  taken <- accepted, held <- Custody, stored <- stored, failed <- failures, faulty <- Faulty
RelayRefined == Relay!RelaySpec

\* Every accepted event reaches the broker if no fault comes in between: the
\* ticker, the re-queueing and the reconnect loop never leave it stranded.
AcceptedIsDelivered ==
  \A e \in Events : e \in accepted ~> stored[e] > 0 \/ Faulty

\* "Dequeue removes an item from the queue" (secure_queue.go:48): an event in the
\* offline queue leaves it.
QueueDrains ==
  \A e \in Events : e \in Queued ~> e \notin Queued

================================================================================
