-------------------------- MODULE AgentDeliveryProofs --------------------------
(***************************************************************************)
(* The delivery path of the agent, for every set of events, every buffer   *)
(* size and any number of faults: types, single custody, and the promise   *)
(* of EventRelay.  Each action is shown to be a step of EventRelay or to   *)
(* change none of its variables; the invariants of EventRelay then hold of *)
(* the agent.                                                              *)
(***************************************************************************)
EXTENDS AgentDelivery, FiniteSetTheorems, SequenceTheorems, TLAPS

\* Enqueue puts e behind the other files.  If it says ok and no file name was
\* used twice, exactly e is new; otherwise a fault is on record.
LEMMA EnqueueEffect ==
  ASSUME NEW e \in Events, NEW ok \in BOOLEAN, QueueTypeOK, Enqueue(e, ok),
         OneFileEach(dir), e \notin Queued
  PROVE  /\ QueueTypeOK'
         /\ OneFileEach(dir')
         /\ Queued' \subseteq Queued \cup {e}
         /\ ok => e \in Queued'
         /\ ~ok => Queued' = Queued
         /\ Queued' = Queued \cup {e} \/ Faulty'
         /\ ok \/ Faulty'
         /\ Faulty' \/ Faulty' = Faulty
<1> USE QueueAssumption DEF QueueTypeOK
<1> DEFINE n == Len(dir)
<1>0. n \in Nat /\ NoEvent \notin Events
  OBVIOUS
<1>1. ASSUME ok, WriteNewFile(e)
      PROVE  /\ QueueTypeOK' /\ OneFileEach(dir')
             /\ Queued' = Queued \cup {e}
             /\ Faulty' = Faulty
  <2>1. dir' = Append(dir, Sealed(e)) /\ Sealed(e) \in File /\ UNCHANGED <<key, diskFaults, collisions>>
    BY <1>1 DEF WriteNewFile, Sealed, File
  <2>2. /\ Len(dir') = n + 1
        /\ dir'[n + 1].data = e
        /\ \A i \in 1..n : dir'[i] = dir[i]
    BY <2>1 DEF Sealed
  <2>3. \A i \in 1..n : dir[i].data # e
    BY <1>0 DEF Queued, Contents
  <2>4. OneFileEach(dir')
    BY <2>2, <2>3, <1>0 DEF OneFileEach
  <2>5. Queued' = Queued \cup {e}
    BY <2>2, <1>0 DEF Queued, Contents
  <2>6. QueueTypeOK'
    BY <2>1
  <2> QED
    BY <2>1, <2>4, <2>5, <2>6 DEF Faulty
<1>2. ASSUME ok, OverwriteNewest(e)
      PROVE  /\ QueueTypeOK' /\ OneFileEach(dir')
             /\ Queued' \subseteq Queued \cup {e}
             /\ e \in Queued'
             /\ Faulty'
  <2>1. /\ dir' = [dir EXCEPT ![n] = Sealed(e)]
        /\ Sealed(e) \in File
        /\ n \in 1..Len(dir)
        /\ UNCHANGED <<key, diskFaults>>
        /\ collisions' = collisions + 1
        /\ collisions < MaxCollisions
    BY <1>2 DEF OverwriteNewest, Sealed, File
  <2>2. /\ dir' \in Seq(File)
        /\ Len(dir') = n
        /\ dir'[n].data = e
        /\ \A i \in 1..n : i # n => dir'[i] = dir[i]
    BY <2>1 DEF Sealed
  <2>3. \A i \in 1..n : dir[i].data # e
    BY <1>0 DEF Queued, Contents
  <2>4. OneFileEach(dir')
    BY <2>2, <2>3, <1>0 DEF OneFileEach
  <2>5. Queued' \subseteq Queued \cup {e}
    <3>1. ASSUME NEW x \in Queued' PROVE x \in Queued \cup {e}
      <4>1. PICK i \in 1..n : dir'[i].data = x
        BY <3>1, <2>2 DEF Queued, Contents
      <4>2. x # NoEvent
        BY <3>1 DEF Queued, Contents
      <4> QED
        BY <4>1, <4>2, <2>2 DEF Queued, Contents
    <3> QED
      BY <3>1
  <2>6. e \in Queued'
    BY <2>1, <2>2, <1>0 DEF Queued, Contents
  <2>7. QueueTypeOK' /\ Faulty'
    <3>1. collisions' \in 0..MaxCollisions /\ collisions' > 0
      BY <2>1
    <3> QED
      BY <3>1, <2>1, <2>2 DEF Faulty
  <2> QED
    BY <2>4, <2>5, <2>6, <2>7
<1>3. ASSUME ~ok, WriteFails
      PROVE  /\ QueueTypeOK' /\ OneFileEach(dir')
             /\ Queued' = Queued
             /\ Faulty'
  <2>1. /\ dir' \in {dir, Append(dir, Sealed(NoEvent))}
        /\ Sealed(NoEvent) \in File
        /\ UNCHANGED <<key, collisions>>
        /\ diskFaults' = diskFaults + 1
        /\ diskFaults < MaxDiskFaults
    BY <1>3 DEF WriteFails, Sealed, File
  <2>2. QueueTypeOK' /\ Faulty'
    BY <2>1 DEF Faulty
  <2>3. CASE dir' = dir
    BY <2>3, <2>2 DEF Queued, OneFileEach
  <2>4. CASE dir' = Append(dir, Sealed(NoEvent))
    <3>1. /\ Len(dir') = n + 1
          /\ dir'[n + 1].data = NoEvent
          /\ \A i \in 1..n : dir'[i] = dir[i]
      BY <2>4, <2>1 DEF Sealed
    <3>2. OneFileEach(dir')
      BY <3>1, <1>0 DEF OneFileEach
    <3>3. Queued' = Queued
      BY <3>1, <1>0 DEF Queued, Contents
    <3> QED
      BY <2>2, <3>2, <3>3
  <2> QED
    BY <2>1, <2>3, <2>4
<1> QED
  BY <1>1, <1>2, <1>3, <1>0 DEF Enqueue

\* Dequeue takes exactly the event it returns out of the directory.
LEMMA DequeueEffect ==
  ASSUME NEW e \in Events, QueueTypeOK, Dequeue(e), OneFileEach(dir)
  PROVE  /\ QueueTypeOK'
         /\ OneFileEach(dir')
         /\ e \in Queued
         /\ Queued' = Queued \ {e}
         /\ Faulty' = Faulty
<1> USE QueueAssumption DEF QueueTypeOK
<1> DEFINE n == Len(dir)
<1>1. /\ dir # <<>> /\ e = dir[1].data /\ dir' = Tail(dir)
      /\ UNCHANGED <<key, diskFaults, collisions>>
  BY DEF Dequeue, HeadDecrypts
<1>2. /\ n \in Nat \ {0}
      /\ dir' \in Seq(File)
      /\ Len(dir') = n - 1
      /\ \A i \in 1..(n - 1) : dir'[i] = dir[i + 1]
  BY <1>1
<1>3. \A i \in 2..n : dir[i].data # e
  BY <1>1, <1>2 DEF OneFileEach
<1>4. OneFileEach(dir')
  BY <1>2 DEF OneFileEach
<1>5. e \in Queued
  BY <1>1, <1>2 DEF Queued, Contents
<1>6. Queued' = Queued \ {e}
  <2>1. ASSUME NEW x \in Queued' PROVE x \in Queued \ {e}
    BY <2>1, <1>2, <1>3 DEF Queued, Contents
  <2>2. ASSUME NEW x \in Queued \ {e} PROVE x \in Queued'
    <3>1. PICK i \in 1..n : dir[i].data = x
      BY <2>2 DEF Queued, Contents
    <3>2. i # 1 /\ i - 1 \in 1..(n - 1) /\ dir'[i - 1] = dir[i]
      BY <3>1, <2>2, <1>1, <1>2
    <3> QED
      BY <3>1, <3>2, <2>2, <1>2 DEF Queued, Contents
  <2> QED
    BY <2>1, <2>2
<1> QED
  BY <1>1, <1>2, <1>4, <1>5, <1>6 DEF Faulty

--------------------------------------------------------------------------------

\* What the step lemmas assume, and what each of them shows of its action.
Before == TypeOK /\ SingleCustody /\ Custody \subseteq accepted
After == TypeOK' /\ SingleCustody' /\ [Relay!RelayNext]_(Relay!relayVars)

\* A message in librdkafka's buffer is one more, within its capacity.
LEMMA ProduceEffect ==
  ASSUME TypeOK, NEW m \in Message, Produce(m)
  PROVE  /\ buffer' = buffer \cup {m}
         /\ buffer' \subseteq Message
         /\ IsFiniteSet(buffer')
         /\ Cardinality(buffer') <= BufferCap
         /\ Buffered' = Buffered \cup {m.event}
<1>1. /\ IsFiniteSet(buffer \cup {m})
      /\ Cardinality(buffer \cup {m}) = Cardinality(buffer)
           \/ Cardinality(buffer \cup {m}) = Cardinality(buffer) + 1
  BY FS_AddElement DEF TypeOK
<1>2. Cardinality(buffer) < BufferCap /\ Cardinality(buffer) \in Nat
  BY FS_CardinalityType, DeliveryAssumption DEF Produce, BufferFull, TypeOK
<1> QED
  BY <1>1, <1>2, DeliveryAssumption DEF Produce, Buffered, TypeOK

\* A message that leaves the buffer leaves nothing of its event behind.
LEMMA ReportEffect ==
  ASSUME Before, NEW m \in buffer, buffer' = buffer \ {m}
  PROVE  /\ m.event \in Buffered
         /\ m.event \in Events
         /\ IsFiniteSet(buffer')
         /\ Cardinality(buffer') <= BufferCap
         /\ Buffered' = Buffered \ {m.event}
<1>1. IsFiniteSet(buffer') /\ Cardinality(buffer') <= Cardinality(buffer)
  BY FS_Subset DEF Before, TypeOK
<1>2. Cardinality(buffer) \in Nat /\ Cardinality(buffer') \in Nat
  BY <1>1, FS_CardinalityType DEF Before, TypeOK
<1>3. Buffered' = Buffered \ {m.event}
  BY DEF Buffered, Before, SingleCustody
<1> QED
  BY <1>1, <1>2, <1>3, DeliveryAssumption DEF Before, TypeOK, Buffered, Message

\* The process loop, the flow monitor and the watchers hand over a new event.
LEMMA HandStep ==
  ASSUME Before, NEW e \in Events \ captured, Hand(e),
         UNCHANGED <<producer, reports, drain, hand, stored, failures>>
  PROVE  After
<1> DEFINE m == Direct(e)
<1>1. m \in Message /\ m.event = e
  BY DEF Direct, Message, Topics
<1>2. /\ buffer' = buffer \cup {m} /\ buffer' \subseteq Message
      /\ IsFiniteSet(buffer') /\ Cardinality(buffer') <= BufferCap
      /\ Buffered' = Buffered \cup {e}
  BY <1>1, ProduceEffect DEF Before, Hand
<1>3. /\ e \notin accepted /\ e \notin Custody
      /\ accepted' = accepted \cup {e} /\ captured' = captured \cup {e}
      /\ UNCHANGED queueVars
  BY DEF Before, TypeOK, Hand, Take
<1>4. TypeOK'
  BY <1>2, <1>3 DEF Before, TypeOK, QueueTypeOK, queueVars
<1>5. Queued' = Queued /\ Faulty' = Faulty
  BY <1>3 DEF queueVars, Queued, Faulty
<1>6. SingleCustody'
  <2>1. \A x, y \in buffer' : x.event = y.event => x = y
    BY <1>1, <1>2, <1>3 DEF Before, SingleCustody, Custody, Buffered
  <2> QED
    BY <2>1, <1>2, <1>3, <1>5, QueueAssumption
      DEF Before, SingleCustody, Custody, queueVars
<1>7. Custody' = Custody \cup {e}
  BY <1>2, <1>5 DEF Custody
<1>8. Relay!Accept(e)
  BY <1>3, <1>5, <1>7 DEF Relay!Accept
<1> QED
  BY <1>4, <1>6, <1>8 DEF After, Relay!RelayNext

\* They queue a new event; a fault may cost one that was queued before.
LEMMA KeepStep ==
  ASSUME Before, NEW e \in Events \ captured, Keep(e),
         UNCHANGED <<producer, reports, drain, hand, stored, failures>>
  PROVE  After
<1>1. PICK ok \in BOOLEAN : /\ Enqueue(e, ok)
                            /\ captured' = captured \cup {e}
                            /\ ok => accepted' = accepted \cup {e}
                            /\ ~ok => accepted' = accepted
                            /\ UNCHANGED buffer
  BY DEF Keep, Take, LetFall
<1>2. e \notin accepted /\ e \notin Custody
  BY DEF Before, TypeOK
<1>3. /\ QueueTypeOK' /\ OneFileEach(dir')
      /\ Queued' \subseteq Queued \cup {e}
      /\ ok => e \in Queued'
      /\ ~ok => Queued' = Queued
      /\ Queued' = Queued \cup {e} \/ Faulty'
      /\ ok \/ Faulty'
      /\ Faulty' \/ Faulty' = Faulty
  BY <1>1, <1>2, EnqueueEffect DEF Before, TypeOK, SingleCustody, Custody
<1>4. TypeOK'
  BY <1>1, <1>3 DEF Before, TypeOK
<1>5. Buffered' = Buffered /\ reports' = reports /\ hand' = hand
  BY <1>1 DEF Buffered
<1>6. SingleCustody'
  BY <1>1, <1>2, <1>3, <1>5, QueueAssumption DEF Before, SingleCustody, Custody
<1>7. CASE ~Faulty'
  <2>1. /\ accepted' = accepted \cup {e}
        /\ Custody' = Custody \cup {e}
        /\ Faulty' = Faulty
    BY <1>7, <1>1, <1>3, <1>5 DEF Custody
  <2>2. Relay!Accept(e)
    BY <2>1, <1>2 DEF Relay!Accept
  <2> QED
    BY <1>4, <1>6, <2>2 DEF After, Relay!RelayNext
<1>8. CASE Faulty'
  <2>1. Custody' \subseteq Custody \cup (accepted' \ accepted)
    <3>1. CASE ok
      BY <3>1, <1>1, <1>2, <1>3, <1>5 DEF Custody
    <3>2. CASE ~ok
      BY <3>2, <1>1, <1>3, <1>5 DEF Custody
    <3> QED
      BY <3>1, <3>2
  <2>2. accepted \subseteq accepted' /\ accepted' \subseteq Events /\ Faulty' = TRUE
    BY <1>8, <1>1, <1>4 DEF TypeOK, Before, Faulty
  <2>3. Relay!Fault
    BY <2>1, <2>2 DEF Relay!Fault
  <2> QED
    BY <1>4, <1>6, <2>3 DEF After, Relay!RelayNext
<1> QED
  BY <1>7, <1>8

\* They let a new event fall.
LEMMA DropStep ==
  ASSUME Before, NEW e \in Events \ captured, Drop(e),
         UNCHANGED <<producer, reports, drain, hand, stored, failures>>
  PROVE  After
<1>1. /\ captured' = captured \cup {e} /\ UNCHANGED <<queueVars, buffer, accepted>>
  BY DEF Drop, LetFall
<1>2. Queued' = Queued /\ Buffered' = Buffered /\ Faulty' = Faulty
  BY <1>1 DEF Queued, Buffered, Faulty, queueVars
<1>3. UNCHANGED Relay!relayVars
  BY <1>1, <1>2 DEF Relay!relayVars, Custody
<1>4. TypeOK' /\ SingleCustody'
  BY <1>1, <1>2 DEF Before, TypeOK, SingleCustody, QueueTypeOK, queueVars
<1> QED
  BY <1>3, <1>4 DEF After

LEMMA CaptureStep ==
  ASSUME Before, NEW e \in Events,
         CaptureProcess(e) \/ CaptureFlow(e) \/ CaptureWatch(e)
  PROVE  After
<1>1. /\ e \in Events \ captured
      /\ UNCHANGED <<producer, reports, drain, hand, stored, failures>>
      /\ Hand(e) \/ Keep(e) \/ Drop(e)
  BY DEF CaptureProcess, CaptureFlow, CaptureWatch
<1> QED
  BY <1>1, HandStep, KeepStep, DropStep

\* An event of the report channel or of the drain loop's hand goes back to the
\* queue: without a fault it stays in custody, with one it may be lost.
LEMMA RequeueStep ==
  ASSUME Before, NEW e \in Events, NEW ok \in BOOLEAN, Enqueue(e, ok),
         \/ e \in reports /\ reports' = reports \ {e} /\ hand' = hand
         \/ e = hand /\ hand' = NoEvent /\ reports' = reports,
         drain' \in {"wait", "run"},
         UNCHANGED <<producer, buffer, historyVars>>
  PROVE  After
<1>1. e \in Custody /\ e \notin Queued /\ e \notin Buffered
  BY QueueAssumption DEF Before, SingleCustody, Custody
<1>2. /\ QueueTypeOK' /\ OneFileEach(dir')
      /\ Queued' \subseteq Queued \cup {e}
      /\ Queued' = Queued \cup {e} \/ Faulty'
      /\ Faulty' \/ Faulty' = Faulty
  BY <1>1, EnqueueEffect DEF Before, TypeOK, SingleCustody
<1>3. Buffered' = Buffered
  BY DEF Buffered
<1>4. TypeOK'
  BY <1>2 DEF Before, TypeOK, historyVars
<1>5. SingleCustody'
  <2>1. NoEvent \notin Queued' /\ NoEvent \notin Buffered' /\ NoEvent \notin reports'
    BY <1>4, QueueAssumption DEF TypeOK, Buffered, Message, Queued, Contents
  <2>2. Queued' \cap (Buffered' \cup reports' \cup {hand'}) = {}
    BY <2>1, <1>1, <1>2, <1>3 DEF Before, SingleCustody
  <2> QED
    BY <2>1, <2>2, <1>2, <1>3 DEF Before, SingleCustody
<1>6. Custody' \subseteq Custody
  BY <1>1, <1>2, <1>3 DEF Custody
<1>7. CASE ~Faulty'
  <2>1. Custody \subseteq Custody'
    BY <1>7, <1>1, <1>2, <1>3, QueueAssumption DEF Custody, Before, SingleCustody
  <2>2. UNCHANGED Relay!relayVars
    BY <2>1, <1>6, <1>7, <1>2 DEF Relay!relayVars, historyVars
  <2> QED
    BY <1>4, <1>5, <2>2 DEF After
<1>8. CASE Faulty'
  <2>1. Relay!Fault
    BY <1>4, <1>6, <1>8 DEF Relay!Fault, historyVars, TypeOK, Faulty
  <2> QED
    BY <1>4, <1>5, <2>1 DEF After, Relay!RelayNext
<1> QED
  BY <1>7, <1>8

\* The drain loop takes the oldest event into its hand, or gives it to Produce.
LEMMA DrainDequeueStep ==
  ASSUME Before, DrainDequeue
  PROVE  After
<1>1. PICK e \in Events : Dequeue(e) /\ hand' = e
  BY DEF DrainDequeue
<1>2. hand = NoEvent /\ UNCHANGED <<producer, buffer, reports, drain, historyVars>>
  BY DEF DrainDequeue
<1>3. /\ QueueTypeOK' /\ OneFileEach(dir')
      /\ e \in Queued /\ Queued' = Queued \ {e}
      /\ Faulty' = Faulty
  BY <1>1, DequeueEffect DEF Before, TypeOK, SingleCustody
<1>4. Buffered' = Buffered
  BY <1>2 DEF Buffered
<1>5. TypeOK'
  BY <1>1, <1>2, <1>3 DEF Before, TypeOK, historyVars
<1>6. SingleCustody'
  BY <1>1, <1>2, <1>3, <1>4 DEF Before, SingleCustody
<1>7. Custody' = Custody
  BY <1>1, <1>2, <1>3, <1>4, QueueAssumption DEF Custody
<1> QED
  BY <1>2, <1>3, <1>5, <1>6, <1>7 DEF After, Relay!relayVars, historyVars

LEMMA DrainProduceStep ==
  ASSUME Before, DrainProduce
  PROVE  After
<1> DEFINE m == FromQueue(hand)
<1>1. /\ hand \in Events /\ hand # NoEvent /\ hand' = NoEvent
      /\ UNCHANGED <<queueVars, producer, reports, drain, historyVars>>
      /\ Produce(m)
  BY DEF DrainProduce, Before, TypeOK
<1>2. m \in Message /\ m.event = hand
  BY <1>1 DEF FromQueue, Message, Topics
<1>3. /\ buffer' = buffer \cup {m} /\ buffer' \subseteq Message
      /\ IsFiniteSet(buffer') /\ Cardinality(buffer') <= BufferCap
      /\ Buffered' = Buffered \cup {hand}
  BY <1>1, <1>2, ProduceEffect DEF Before
<1>4. Queued' = Queued /\ Faulty' = Faulty
  BY <1>1 DEF queueVars, Queued, Faulty
<1>5. TypeOK'
  BY <1>1, <1>3 DEF Before, TypeOK, QueueTypeOK, queueVars, historyVars
<1>6. SingleCustody'
  <2>1. hand \notin Buffered
    BY DEF Before, SingleCustody
  <2>2. \A x, y \in buffer' : x.event = y.event => x = y
    BY <2>1, <1>2, <1>3 DEF Before, SingleCustody, Buffered
  <2>3. NoEvent \notin Queued' /\ NoEvent \notin Buffered' /\ NoEvent \notin reports'
    BY <1>5, <1>3, QueueAssumption DEF TypeOK, Buffered, Message, Queued, Contents
  <2> QED
    BY <2>2, <2>3, <1>1, <1>3, <1>4 DEF Before, SingleCustody, queueVars
<1>7. Custody' = Custody
  BY <1>1, <1>3, <1>4 DEF Custody
<1> QED
  BY <1>1, <1>4, <1>5, <1>6, <1>7 DEF After, Relay!relayVars, historyVars

\* The broker stores a message, or its report says "failed".
LEMMA DeliverStep ==
  ASSUME Before, NEW m \in buffer, Deliver(m)
  PROVE  After
<1> DEFINE e == m.event
<1>1. /\ buffer' = buffer \ {m}
      /\ stored' = [stored EXCEPT ![e] = @ + 1]
      /\ UNCHANGED <<queueVars, producer, reports, drain, hand, captured, accepted, failures>>
  BY DEF Deliver
<1>2. /\ e \in Buffered /\ e \in Events
      /\ IsFiniteSet(buffer') /\ Cardinality(buffer') <= BufferCap
      /\ Buffered' = Buffered \ {e}
  BY <1>1, ReportEffect
<1>3. Queued' = Queued /\ Faulty' = Faulty
  BY <1>1 DEF queueVars, Queued, Faulty
<1>4. TypeOK'
  BY <1>1, <1>2 DEF Before, TypeOK, QueueTypeOK, queueVars
<1>5. SingleCustody'
  BY <1>1, <1>2, <1>3 DEF Before, SingleCustody, queueVars
<1>6. Custody' = Custody \ {e}
  BY <1>1, <1>2, <1>3 DEF Before, SingleCustody, Custody
<1>7. Relay!Deliver(e)
  BY <1>1, <1>2, <1>3, <1>6 DEF Relay!Deliver, Custody
<1> QED
  BY <1>2, <1>4, <1>5, <1>7 DEF After, Relay!RelayNext

LEMMA FailDeliveryStep ==
  ASSUME Before, NEW m \in buffer, FailDelivery(m)
  PROVE  After
<1> DEFINE e == m.event
<1>1. /\ buffer' = buffer \ {m}
      /\ reports' = reports \cup {e}
      /\ failures[e] < MaxReports
      /\ failures' = [failures EXCEPT ![e] = @ + 1]
      /\ stored' \in {stored, [stored EXCEPT ![e] = @ + 1]}
      /\ UNCHANGED <<queueVars, producer, drain, hand, captured, accepted>>
  BY DEF FailDelivery
<1>2. /\ e \in Buffered /\ e \in Events
      /\ IsFiniteSet(buffer') /\ Cardinality(buffer') <= BufferCap
      /\ Buffered' = Buffered \ {e}
  BY <1>1, ReportEffect
<1>3. Queued' = Queued /\ Faulty' = Faulty
  BY <1>1 DEF queueVars, Queued, Faulty
<1>4. TypeOK'
  <2>1. failures' \in [Events -> 0..MaxReports] /\ stored' \in [Events -> Nat]
    BY <1>1, <1>2, DeliveryAssumption DEF Before, TypeOK
  <2> QED
    BY <2>1, <1>1, <1>2 DEF Before, TypeOK, QueueTypeOK, queueVars
<1>5. SingleCustody'
  BY <1>1, <1>2, <1>3 DEF Before, SingleCustody, queueVars
<1>6. Custody' = Custody
  BY <1>1, <1>2, <1>3 DEF Custody
<1>7. Relay!ReportFailure(e)
  BY <1>1, <1>2, <1>3, <1>6 DEF Relay!ReportFailure, Custody
<1> QED
  BY <1>2, <1>4, <1>5, <1>7 DEF After, Relay!RelayNext

\* A restart keeps the directory only, and is a fault.
LEMMA RestartStep ==
  ASSUME Before, Restart
  PROVE  After
<1>1. /\ key' = key + 1 /\ UNCHANGED <<dir, diskFaults, collisions, historyVars>>
      /\ producer' = "none" /\ buffer' = {} /\ reports' = {}
      /\ drain' = "wait" /\ hand' = NoEvent
  BY DEF Restart, QueueRestart
<1>2. Queued' = Queued /\ Buffered' = {} /\ NoEvent \notin Queued
  BY <1>1 DEF Queued, Buffered, Contents
<1>3. TypeOK' /\ Faulty'
  <2>1. Cardinality(buffer') = 0 /\ IsFiniteSet(buffer')
    BY <1>1, FS_EmptySet
  <2> QED
    BY <2>1, <1>1, DeliveryAssumption DEF Before, TypeOK, QueueTypeOK, historyVars, Faulty
<1>4. SingleCustody'
  BY <1>1, <1>2 DEF Before, SingleCustody
<1>5. Relay!Fault
  BY <1>1, <1>2, <1>3 DEF Relay!Fault, Custody, historyVars, TypeOK, Faulty
<1> QED
  BY <1>3, <1>4, <1>5 DEF After, Relay!RelayNext

\* The remaining actions move no event.
LEMMA IdleStep ==
  ASSUME Before, Connect \/ DrainTick \/ DrainBreak \/ DrainReadFails \/ UNCHANGED vars
  PROVE  After
<1>1. /\ UNCHANGED <<queueVars, buffer, reports, hand, historyVars>>
      /\ producer' \in {producer, "up"} /\ drain' \in {drain, "run", "wait"}
  BY DEF Connect, DrainTick, DrainBreak, DequeueNothing, DrainReadFails, DequeueFails,
         vars, agentVars
<1>2. Queued' = Queued /\ Buffered' = Buffered /\ Faulty' = Faulty
  BY <1>1 DEF Queued, Buffered, Faulty, queueVars
<1>3. UNCHANGED Relay!relayVars
  BY <1>1, <1>2 DEF Relay!relayVars, Custody, historyVars
<1>4. TypeOK' /\ SingleCustody'
  BY <1>1, <1>2 DEF Before, TypeOK, SingleCustody, QueueTypeOK, queueVars, historyVars
<1> QED
  BY <1>3, <1>4 DEF After

--------------------------------------------------------------------------------

LEMMA NextStep ==
  ASSUME Before, [Next]_vars
  PROVE  After
<1>1. CASE \E e \in Events : CaptureProcess(e) \/ CaptureFlow(e) \/ CaptureWatch(e)
  BY <1>1, CaptureStep
<1>2. CASE DrainDequeue
  BY <1>2, DrainDequeueStep
<1>3. CASE DrainProduce
  BY <1>3, DrainProduceStep
<1>4. CASE DrainRequeue
  <2>1. PICK ok \in BOOLEAN : Enqueue(hand, ok)
    BY <1>4 DEF DrainRequeue
  <2>2. /\ hand \in Events /\ hand' = NoEvent /\ drain' = "wait"
        /\ UNCHANGED <<producer, buffer, reports, historyVars>>
    BY <1>4 DEF DrainRequeue, Before, TypeOK
  <2> QED
    BY <2>1, <2>2, RequeueStep
<1>5. CASE \E m \in buffer : Deliver(m) \/ FailDelivery(m)
  BY <1>5, DeliverStep, FailDeliveryStep
<1>6. CASE \E e \in reports : HandleReport(e)
  <2>1. PICK e \in reports : HandleReport(e)
    BY <1>6
  <2>2. PICK ok \in BOOLEAN : Enqueue(e, ok)
    BY <2>1 DEF HandleReport
  <2>3. /\ e \in Events /\ e \in reports /\ reports' = reports \ {e}
        /\ hand' = hand /\ drain' \in {"wait", "run"}
        /\ UNCHANGED <<producer, buffer, historyVars>>
    BY <2>1 DEF HandleReport, Before, TypeOK
  <2> QED
    BY <2>2, <2>3, RequeueStep
<1>7. CASE Restart
  BY <1>7, RestartStep
<1>8. CASE Connect \/ DrainTick \/ DrainBreak \/ DrainReadFails \/ UNCHANGED vars
  BY <1>8, IdleStep
<1> QED
  BY <1>1, <1>2, <1>3, <1>4, <1>5, <1>6, <1>7, <1>8 DEF Next, DrainStep

\* Nothing is taken yet.
LEMMA RelayInitInv ==
  ASSUME Relay!RelayInit
  PROVE  Relay!RelayInv
<1> USE DEF Relay!RelayInit
<1>1. Relay!RelayTypeOK
  BY DEF Relay!RelayTypeOK
<1>2. Relay!NothingLost
  BY DEF Relay!NothingLost
<1>3. Relay!NoSpareCopy
  <2>1. ASSUME NEW e \in Events
        PROVE  stored[e] = 0 /\ failures[e] = 0 /\ e \notin Custody
    OBVIOUS
  <2>2. ASSUME NEW e \in Events
        PROVE  stored[e] + (IF e \in Custody THEN 1 ELSE 0) <= 1 + failures[e]
    <3> HIDE DEF Relay!RelayInit
    <3> QED
      BY <2>1
  <2> QED
    BY <2>2 DEF Relay!NoSpareCopy
<1>4. Relay!UntakenIsNew
  BY DEF Relay!UntakenIsNew
<1> QED
  BY <1>1, <1>2, <1>3, <1>4 DEF Relay!RelayInv

\* The invariants of EventRelay are inductive for every keeper of its promise.
LEMMA RelayInductive ==
  ASSUME Relay!RelayInv, [Relay!RelayNext]_(Relay!relayVars)
  PROVE  Relay!RelayInv'
<1> DEFINE RI == Relay!RelayInv
<1> USE DEF Relay!RelayInv, Relay!RelayTypeOK, Relay!NothingLost, Relay!NoSpareCopy,
            Relay!UntakenIsNew
<1>1. ASSUME NEW e \in Events, Relay!Accept(e) PROVE RI'
  BY <1>1 DEF Relay!Accept
<1>2. ASSUME NEW e \in Events, Relay!Deliver(e) PROVE RI'
  BY <1>2 DEF Relay!Deliver
<1>3. ASSUME NEW e \in Events, Relay!ReportFailure(e) PROVE RI'
  BY <1>3 DEF Relay!ReportFailure
<1>4. ASSUME Relay!Fault PROVE RI'
  BY <1>4 DEF Relay!Fault
<1>5. ASSUME UNCHANGED Relay!relayVars PROVE RI'
  BY <1>5 DEF Relay!relayVars
<1> QED
  BY <1>1, <1>2, <1>3, <1>4, <1>5 DEF Relay!RelayNext

--------------------------------------------------------------------------------

\* The inductive invariant: where an event is (SingleCustody) and what became of
\* it (the invariant of EventRelay, which holds that custody lies in accepted).
IInv == TypeOK /\ SingleCustody /\ Relay!RelayInv

LEMMA InitIInv ==
  ASSUME Init
  PROVE  IInv /\ Relay!RelayInit
<1> USE QueueAssumption, DeliveryAssumption DEF Init, QueueInit
<1>1. IsFiniteSet(buffer) /\ Cardinality(buffer) = 0
  BY FS_EmptySet
<1>2. Queued = {} /\ Buffered = {} /\ Custody = {} /\ Faulty = FALSE
  BY DEF Queued, Contents, Buffered, Custody, Faulty
<1>3. TypeOK
  BY <1>1 DEF TypeOK, QueueTypeOK
<1>4. SingleCustody
  BY <1>2 DEF SingleCustody, OneFileEach
<1>5. Relay!RelayInit
  BY <1>2 DEF Relay!RelayInit
<1>6. Relay!RelayInv
  BY <1>5, RelayInitInv
<1> QED
  BY <1>3, <1>4, <1>5, <1>6 DEF IInv

LEMMA IInvStep ==
  ASSUME IInv, [Next]_vars
  PROVE  IInv' /\ [Relay!RelayNext]_(Relay!relayVars)
<1>1. Before
  BY DEF IInv, Before, Relay!RelayInv, Relay!RelayTypeOK
<1>2. After
  BY <1>1, NextStep
<1>3. Relay!RelayInv'
  BY <1>2, RelayInductive DEF IInv, After
<1> QED
  BY <1>2, <1>3 DEF IInv, After

LEMMA Inductive == Spec => []IInv
<1>1. Init => IInv
  BY InitIInv
<1>2. IInv /\ [Next]_vars => IInv'
  BY IInvStep
<1> QED
  BY <1>1, <1>2, PTL DEF Spec

\* Every variable keeps its type, and librdkafka's buffer its capacity.
THEOREM TypeCorrect == Spec => []TypeOK
<1>1. IInv => TypeOK
  BY DEF IInv
<1> QED
  BY <1>1, Inductive, PTL

\* An event is never in two of the places the five goroutines move it between:
\* directory, buffer, report channel and the drain loop's hand.
THEOREM CustodyIsSingle == Spec => []SingleCustody
<1>1. IInv => SingleCustody
  BY DEF IInv
<1> QED
  BY <1>1, Inductive, PTL

\* Without a restart, a failed write or a shared file name, an event that Produce
\* or Enqueue took is stored by the broker or still kept by the agent.
THEOREM AcceptedIsNeverLost == Spec => []NothingAcceptedIsLost
<1>1. IInv => NothingAcceptedIsLost
  BY DEF IInv, Relay!RelayInv, Relay!NothingLost, NothingAcceptedIsLost
<1> QED
  BY <1>1, Inductive, PTL

\* Whatever happens, the broker stores an event once, and once more for each
\* report that said it had not.
THEOREM DuplicatesAreReported == Spec => []NoUnreportedDuplicate
<1>1. IInv => NoUnreportedDuplicate
  BY DEF IInv, Relay!RelayInv, Relay!NoSpareCopy, NoUnreportedDuplicate
<1> QED
  BY <1>1, Inductive, PTL

\* The delivery path implements EventRelay: every step of a goroutine, of the
\* broker or of a restart is a step of the relay or changes nothing of it.
THEOREM AgentRefinesRelay == Spec => RelayRefined
<1>1. Init => Relay!RelayInit
  BY InitIInv
<1>2. IInv /\ [Next]_vars => [Relay!RelayNext]_(Relay!relayVars)
  BY IInvStep
<1> QED
  BY <1>1, <1>2, Inductive, PTL DEF Spec, RelayRefined, Relay!RelaySpec

--------------------------------------------------------------------------------

\* The oldest file was sealed by an earlier run of the process.
StaleHead == dir # <<>> /\ Head(dir).key < key

\* Dequeue fails on it and leaves it, every other file is written behind it, and
\* keys only grow.
LEMMA StaleHeadStep ==
  ASSUME IInv, StaleHead, [Next]_vars
  PROVE  StaleHead' /\ Head(dir') = Head(dir)
<1> USE DEF StaleHead
<1>0. dir \in Seq(File) /\ key \in Nat /\ dir # <<>>
  BY DEF IInv, TypeOK, QueueTypeOK
<1>1. dir \in Seq(File) /\ key \in Nat /\ dir # <<>> /\ Head(dir).key \in Nat
  <2>1. Head(dir) \in File
    BY <1>0, HeadTailProperties
  <2> QED
    BY <1>0, <2>1 DEF File
<1>2. ~HeadDecrypts
  BY <1>1 DEF HeadDecrypts, Decrypts
<1>3. ASSUME NEW e, NEW ok \in BOOLEAN, Enqueue(e, ok)
      PROVE  StaleHead' /\ Head(dir') = Head(dir)
  <2>1. CASE WriteNewFile(e)
    BY <2>1, <1>1 DEF WriteNewFile
  <2>2. CASE OverwriteNewest(e)
    BY <2>2, <1>1 DEF OverwriteNewest
  <2>3. CASE WriteFails
    BY <2>3, <1>1 DEF WriteFails
  <2> QED
    BY <1>3, <2>1, <2>2, <2>3 DEF Enqueue
<1>4. ASSUME dir' = dir, key' \in {key, key + 1}
      PROVE  StaleHead' /\ Head(dir') = Head(dir)
  BY <1>4, <1>1
<1>5. \/ \E e : \E ok \in BOOLEAN : Enqueue(e, ok)
      \/ dir' = dir /\ key' \in {key, key + 1}
  <2> USE DEF queueVars, DequeueNothing, DequeueFails
  <2>1. CASE \E e \in Events : CaptureProcess(e) \/ CaptureFlow(e) \/ CaptureWatch(e)
    BY <2>1 DEF CaptureProcess, CaptureFlow, CaptureWatch, Hand, Keep, Drop
  <2>2. CASE DrainStep
    BY <2>2, <1>2 DEF DrainStep, DrainTick, DrainBreak, DrainReadFails, DrainDequeue, Dequeue,
                      DrainProduce, DrainRequeue
  <2>3. CASE \E m \in buffer : Deliver(m) \/ FailDelivery(m)
    BY <2>3 DEF Deliver, FailDelivery
  <2>4. CASE \E e \in reports : HandleReport(e)
    BY <2>4 DEF HandleReport
  <2>5. CASE Connect \/ Restart \/ UNCHANGED vars
    BY <2>5 DEF Connect, Restart, QueueRestart, vars
  <2> QED
    BY <2>1, <2>2, <2>3, <2>4, <2>5 DEF Next
<1> QED
  BY <1>3, <1>4, <1>5

\* Once a restart has left a file of the old key at the head, no step of any
\* later run removes it, whatever the disk, the broker and the clock do.
THEOREM StaleHeadStays == Spec => [][StaleHead => StaleHead' /\ Head(dir') = Head(dir)]_vars
<1>1. IInv /\ [Next]_vars => [StaleHead => StaleHead' /\ Head(dir') = Head(dir)]_vars
  BY StaleHeadStep
<1> QED
  BY <1>1, Inductive, PTL DEF Spec

================================================================================
