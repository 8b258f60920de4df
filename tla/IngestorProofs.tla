----------------------------- MODULE IngestorProofs -----------------------------
(***************************************************************************)
(* Theorems about the ingestor, for any topic, any capacity of its queues  *)
(* and any number of workers, events and restarts.                         *)
(***************************************************************************)
EXTENDS Ingestor, FiniteSetTheorems, SequenceTheorems, TLAPS

--------------------------------------------------------------------------------
\* Counting copies.

\* The workers that are at an event, by the assignment of events to workers.
AtWork(f, e) == Cardinality({w \in Workers : f[w] = e})

LEMMA CopiesAreCounted ==
  ASSUME NEW S, NEW s \in Seq(S), NEW e
  PROVE  IsFiniteSet({i \in 1..Len(s) : s[i] = e}) /\ InSeq(s, e) \in Nat
<1>1. IsFiniteSet(1..Len(s))
  BY FS_Interval
<1>2. {i \in 1..Len(s) : s[i] = e} \in SUBSET (1..Len(s))
  OBVIOUS
<1> QED
  BY <1>1, <1>2, FS_Subset, FS_CardinalityType DEF InSeq

LEMMA CopiesInEmpty ==
  ASSUME NEW e
  PROVE  InSeq(<<>>, e) = 0
<1>1. {i \in 1..Len(<<>>) : <<>>[i] = e} = {}
  OBVIOUS
<1> QED
  BY <1>1, FS_EmptySet DEF InSeq

\* What is appended is one copy more.
LEMMA CopiesInAppend ==
  ASSUME NEW S, NEW s \in Seq(S), NEW x \in S, NEW e
  PROVE  InSeq(Append(s, x), e) = InSeq(s, e) + AtPlace(x, e)
<1> DEFINE old == {i \in 1..Len(s) : s[i] = e}
           new == {i \in 1..Len(Append(s, x)) : Append(s, x)[i] = e}
           n == Len(s) + 1
<1>1. /\ Len(Append(s, x)) = n /\ n \in Nat \ {0} /\ n \notin 1..Len(s)
      /\ \A i \in 1..n : Append(s, x)[i] = IF i = n THEN x ELSE s[i]
  BY AppendProperties
<1>2. IsFiniteSet(old) /\ Cardinality(old) \in Nat
  BY CopiesAreCounted DEF InSeq
<1>3. n \notin old
  BY <1>1
<1>4. Cardinality(new) = Cardinality(old) + AtPlace(x, e)
  <2>1. CASE x = e
    <3>1. new = old \cup {n}
      BY <1>1, <2>1
    <3> QED
      BY <1>2, <1>3, <2>1, <3>1, FS_AddElement DEF AtPlace
  <2>2. CASE x # e
    <3>1. new = old
      BY <1>1, <2>2
    <3> HIDE DEF new, old
    <3> QED
      BY <1>2, <2>2, <3>1 DEF AtPlace
  <2> QED
    BY <2>1, <2>2
<1> QED
  BY <1>4 DEF InSeq

\* What is taken from the front is one copy less.
LEMMA CopiesInTail ==
  ASSUME NEW S, NEW s \in Seq(S), s # <<>>, NEW e
  PROVE  /\ Head(s) \in S /\ Tail(s) \in Seq(S) /\ Len(Tail(s)) = Len(s) - 1
         /\ InSeq(s, e) = InSeq(Tail(s), e) + AtPlace(Head(s), e)
<1> DEFINE all == {i \in 1..Len(s) : s[i] = e}
           rest == {i \in 1..Len(Tail(s)) : Tail(s)[i] = e}
           shift == [i \in rest |-> i + 1]
           moved == {i \in all : i # 1}
<1>1. /\ Len(s) \in Nat \ {0} /\ Head(s) = s[1] /\ Head(s) \in S
      /\ Tail(s) \in Seq(S) /\ Len(Tail(s)) = Len(s) - 1
      /\ \A i \in 1..(Len(s) - 1) : Tail(s)[i] = s[i + 1]
  BY HeadTailProperties
<1>2. IsFiniteSet(rest) /\ Cardinality(rest) \in Nat
  BY <1>1, CopiesAreCounted DEF InSeq
<1>3. shift \in Bijection(rest, moved)
  <2>1. \A i \in rest : shift[i] \in moved
    BY <1>1
  <2>2. \A i, j \in rest : shift[i] = shift[j] => i = j
    OBVIOUS
  <2>3. ASSUME NEW i \in moved PROVE \E j \in rest : shift[j] = i
    <3>1. i - 1 \in rest /\ i \in Nat
      BY <1>1
    <3>2. shift[i - 1] = i
      BY <3>1
    <3> QED
      BY <3>1, <3>2
  <2> QED
    BY <2>1, <2>2, <2>3 DEF Bijection, Injection, Surjection, IsInjective
<1>4. IsFiniteSet(moved) /\ Cardinality(moved) = Cardinality(rest)
  BY <1>2, <1>3, FS_Bijection DEF ExistsBijection
<1>5. Cardinality(all) = Cardinality(rest) + AtPlace(Head(s), e)
  <2>1. CASE Head(s) = e
    <3>1. all = moved \cup {1} /\ 1 \notin moved
      BY <1>1, <2>1
    <3> QED
      BY <1>4, <2>1, <3>1, FS_AddElement DEF AtPlace
  <2>2. CASE Head(s) # e
    <3>1. all = moved
      BY <1>1, <2>2
    <3> HIDE DEF all, rest, moved
    <3> QED
      BY <1>2, <1>4, <2>2, <3>1 DEF AtPlace
  <2> QED
    BY <2>1, <2>2
<1> QED
  BY <1>1, <1>5 DEF InSeq

\* A worker that goes from one event to another.
LEMMA WorkersMove ==
  ASSUME NEW f, NEW g, NEW w \in Workers, NEW e,
         \A v \in Workers \ {w} : g[v] = f[v]
  PROVE  /\ AtWork(f, e) \in Nat /\ AtWork(g, e) \in Nat
         /\ AtWork(f, e) + AtPlace(g[w], e) = AtWork(g, e) + AtPlace(f[w], e)
<1> DEFINE others == {v \in Workers : v # w /\ f[v] = e}
           F == {v \in Workers : f[v] = e}
           G == {v \in Workers : g[v] = e}
<1>1. IsFiniteSet(others)
  BY IngestorAssumption, FS_Subset
<1>2. IsFiniteSet(others) /\ Cardinality(others) \in Nat
  BY <1>1, FS_CardinalityType
<1>3. Cardinality(F) = Cardinality(others) + AtPlace(f[w], e)
  <2>1. CASE f[w] = e
    <3>1. F = others \cup {w} /\ w \notin others
      BY <2>1
    <3> QED
      BY <1>2, <2>1, <3>1, FS_AddElement DEF AtPlace
  <2>2. CASE f[w] # e
    <3>1. F = others
      BY <2>2
    <3> QED
      BY <1>2, <2>2, <3>1 DEF AtPlace
  <2> QED
    BY <2>1, <2>2
<1>4. Cardinality(G) = Cardinality(others) + AtPlace(g[w], e)
  <2>1. CASE g[w] = e
    <3>1. G = others \cup {w} /\ w \notin others
      BY <2>1
    <3> QED
      BY <1>2, <2>1, <3>1, FS_AddElement DEF AtPlace
  <2>2. CASE g[w] # e
    <3>1. G = others
      BY <2>2
    <3> QED
      BY <1>2, <2>2, <3>1 DEF AtPlace
  <2> QED
    BY <2>1, <2>2
<1> QED
  BY <1>2, <1>3, <1>4 DEF AtWork, AtPlace

--------------------------------------------------------------------------------
\* The inductive invariant.

\* The events whose correlation is behind their worker, while it is still at them.
Past == [w \in Workers |-> IF stage[w] \in {"index", "broadcast"} THEN job[w] ELSE NoEvent]

\* Every time an event went past its correlation, and only then, there is an incident or
\* a logged failure: it has finished, was lost after it, or is on its last steps.
Correlated ==
  \A e \in Suspicious :
    /\ finished[e] + AtWork(Past, e) <= incidents[e] + dbErrors[e]
    /\ incidents[e] + dbErrors[e] <= finished[e] + lost[e] + AtWork(Past, e)

IInv == TypeOK /\ EveryCopyIsAccounted /\ Correlated /\ NothingIsSkipped

\* TypeOK in four parts: what a step leaves alone keeps its part.
SourceTypes ==
  /\ position \in 0..Len(KafkaLog) /\ committed \in 0..position
  /\ hand \in EventOrNone
  /\ channel \in Seq(Internal) /\ Len(channel) <= ChanCap
  /\ forward \in Internal \cup {NoEvent}
  /\ emitted \subseteq Internal

WorkTypes ==
  /\ jobs \in Seq(Events) /\ Len(jobs) <= QueueCap
  /\ job \in [Workers -> EventOrNone]
  /\ stage \in [Workers -> {"idle", "persist", "correlate", "index", "broadcast"}]
  /\ \A w \in Workers : stage[w] = "idle" <=> job[w] = NoEvent

StoreTypes ==
  /\ rows \in [Tables -> SUBSET [name : Names, event : Events]]
  /\ saved \subseteq Events
  /\ incidents \in [Events -> Nat] /\ dbErrors \in [Events -> Nat]

CountTypes ==
  /\ taken \in [Events -> Nat] /\ finished \in [Events -> Nat] /\ lost \in [Events -> Nat]
  /\ crashes \in 0..MaxCrashes

LEMMA Types ==
  /\ TypeOK <=> SourceTypes /\ WorkTypes /\ StoreTypes /\ CountTypes
  /\ TypeOK' <=> SourceTypes' /\ WorkTypes' /\ StoreTypes' /\ CountTypes'
BY DEF TypeOK, SourceTypes, WorkTypes, StoreTypes, CountTypes

LEMMA SuspiciousEvents == Suspicious \subseteq Events /\ Internal \subseteq Events
BY IngestorAssumption

LEMMA CountOne ==
  ASSUME NEW f \in [Events -> Nat], NEW d \in Events
  PROVE  /\ Count(f, d) \in [Events -> Nat]
         /\ \A e \in Events : Count(f, d)[e] = f[e] + AtPlace(d, e)
BY DEF Count, AtPlace

\* What InFlight adds up.
LEMMA Parts ==
  ASSUME TypeOK, NEW e \in Events
  PROVE  /\ e # NoEvent /\ AtPlace(NoEvent, e) = 0
         /\ AtPlace(hand, e) \in Nat /\ AtPlace(forward, e) \in Nat
         /\ InSeq(channel, e) \in Nat /\ InSeq(jobs, e) \in Nat
         /\ AtWork(job, e) \in Nat /\ AtWork(Past, e) \in Nat
         /\ AtWork(Past, e) <= AtWork(job, e)
         /\ InFlight(e) = AtPlace(hand, e) + InSeq(channel, e) + AtPlace(forward, e)
                            + InSeq(jobs, e) + AtWork(job, e)
         /\ InFlight(e) \in Nat
<1>1. e # NoEvent
  BY IngestorAssumption
<1>2. AtPlace(NoEvent, e) = 0 /\ AtPlace(hand, e) \in Nat /\ AtPlace(forward, e) \in Nat
  BY <1>1 DEF AtPlace
<1>3. InSeq(channel, e) \in Nat /\ InSeq(jobs, e) \in Nat
  BY CopiesAreCounted DEF TypeOK
<1>4. /\ AtWork(job, e) \in Nat /\ AtWork(Past, e) \in Nat
      /\ AtWork(Past, e) <= AtWork(job, e)
  <2> DEFINE J == {w \in Workers : job[w] = e}
             P == {w \in Workers : Past[w] = e}
  <2>1. IsFiniteSet(J) /\ J \in SUBSET Workers
    BY IngestorAssumption, FS_Subset
  <2>2. P \in SUBSET J
    BY <1>1 DEF Past
  <2>3. IsFiniteSet(P) /\ Cardinality(P) <= Cardinality(J)
    BY <2>1, <2>2, FS_Subset
  <2> QED
    BY <2>1, <2>3, FS_CardinalityType DEF AtWork
<1>5. InFlight(e) = AtPlace(hand, e) + InSeq(channel, e) + AtPlace(forward, e)
                      + InSeq(jobs, e) + AtWork(job, e)
  BY DEF InFlight, AtWork
<1> QED
  BY <1>1, <1>2, <1>3, <1>4, <1>5

LEMMA InitHolds == Init => IInv
<1> SUFFICES ASSUME Init PROVE IInv
  OBVIOUS
<1>1. Zero \in [Events -> Nat]
  BY DEF Zero
<1>2. TypeOK
  <2>1. <<>> \in Seq(Internal) /\ <<>> \in Seq(Events) /\ Len(<<>>) = 0
    OBVIOUS
  <2>2. Len(KafkaLog) \in Nat /\ MaxCrashes \in Nat
    BY IngestorAssumption
  <2> QED
    BY <1>1, <2>1, <2>2, IngestorAssumption DEF Init, TypeOK, EventOrNone, Tables
<1>3. ASSUME NEW e \in Events
      PROVE  /\ InFlight(e) = 0 /\ AtWork(Past, e) = 0
             /\ finished[e] = 0 /\ lost[e] = 0 /\ taken[e] = 0
             /\ incidents[e] = 0 /\ dbErrors[e] = 0
  <2>1. e # NoEvent
    BY IngestorAssumption
  <2>2. AtWork(job, e) = 0 /\ AtWork(Past, e) = 0
    <3>1. {w \in Workers : job[w] = e} = {} /\ {w \in Workers : Past[w] = e} = {}
      BY <2>1 DEF Init, Past
    <3> QED
      BY <3>1, FS_EmptySet DEF AtWork
  <2>3. InSeq(channel, e) = 0 /\ InSeq(jobs, e) = 0
    BY CopiesInEmpty DEF Init
  <2>4. AtPlace(hand, e) = 0 /\ AtPlace(forward, e) = 0
    BY <2>1 DEF Init, AtPlace
  <2>5. InFlight(e) = 0
    BY <2>2, <2>3, <2>4 DEF InFlight, AtWork
  <2> QED
    BY <2>2, <2>5 DEF Init, Zero
<1>4. EveryCopyIsAccounted /\ Correlated
  BY <1>3, SuspiciousEvents DEF EveryCopyIsAccounted, Correlated
<1>5. NothingIsSkipped
  BY DEF Init, NothingIsSkipped
<1> QED
  BY <1>2, <1>4, <1>5 DEF IInv

--------------------------------------------------------------------------------
\* The sources: the consumer, the collectors and the forwarder.

\* A step that leaves the workers and the incidents alone keeps what holds of them.
LEMMA WorkersIdle ==
  ASSUME Correlated, UNCHANGED <<workVars, incidents, dbErrors, finished, lost>>
  PROVE  Correlated'
BY DEF Correlated, workVars, Past, AtWork

LEMMA ConsumeStep ==
  ASSUME IInv, Consume
  PROVE  IInv'
<1>1. TypeOK /\ SourceTypes /\ WorkTypes /\ StoreTypes /\ CountTypes
  BY Types DEF IInv
<1>2. PICK e \in Events : e = KafkaLog[position + 1] /\ position \in Nat /\ position + 1 \in 1..Len(KafkaLog)
  BY <1>1, IngestorAssumption DEF Consume, SourceTypes
<1>3. /\ hand = NoEvent /\ position' = position + 1
      /\ UNCHANGED <<committed, channel, forward, emitted, jobs, workVars, storeVars, finished, lost,
                     crashes>>
  BY DEF Consume
<1>4. WorkTypes' /\ StoreTypes' /\ Correlated'
  BY <1>1, <1>3, WorkersIdle DEF WorkTypes, StoreTypes, workVars, storeVars, IInv
<1>5. \A i \in 1..position' : i \in 1..position \/ i = position + 1
  BY <1>2, <1>3
<1>6. CASE Kind[e] = "garbage"
  <2>1. UNCHANGED <<hand, taken>>
    BY <1>2, <1>6 DEF Consume
  <2>2. SourceTypes' /\ CountTypes'
    BY <1>1, <1>2, <1>3, <2>1 DEF SourceTypes, CountTypes
  <2>3. EveryCopyIsAccounted'
    BY <1>3, <2>1 DEF IInv, EveryCopyIsAccounted, InFlight, workVars
  <2>4. NothingIsSkipped'
    BY <1>2, <1>5, <1>6, <2>1 DEF IInv, NothingIsSkipped
  <2> QED
    BY <1>4, <2>2, <2>3, <2>4, Types DEF IInv
<1>7. CASE Kind[e] # "garbage"
  <2>1. hand' = e /\ taken' = Count(taken, e)
    BY <1>2, <1>7 DEF Consume
  <2>2. taken' \in [Events -> Nat] /\ \A d \in Events : taken'[d] = taken[d] + AtPlace(e, d)
    BY <1>1, <2>1, CountOne DEF CountTypes
  <2>3. SourceTypes'
    BY <1>1, <1>2, <1>3, <2>1 DEF SourceTypes, EventOrNone
  <2>4. CountTypes'
    BY <1>1, <1>3, <2>2 DEF CountTypes
  <2>5. ASSUME NEW d \in Events PROVE InFlight(d)' + finished'[d] + lost'[d] = taken'[d]
    <3>1. InFlight(d)' = AtPlace(e, d) + InSeq(channel, d) + AtPlace(forward, d)
                           + InSeq(jobs, d) + AtWork(job, d)
      BY <1>3, <2>1 DEF InFlight, AtWork, workVars
    <3>2. InFlight(d)' = InFlight(d) + AtPlace(e, d)
      <4>1. AtPlace(hand, d) = 0 /\ AtPlace(e, d) \in Nat
        BY <1>1, <1>3, Parts DEF AtPlace
      <4> QED
        BY <1>1, <3>1, <4>1, Parts
    <3> QED
      BY <1>1, <1>3, <2>2, <3>2, Parts DEF IInv, EveryCopyIsAccounted, CountTypes, AtPlace
  <2>6. NothingIsSkipped'
    <3>1. \A i \in 1..Len(KafkaLog) : KafkaLog[i] \in Events
      BY IngestorAssumption
    <3>2. \A d \in Events : taken[d] \in Nat /\ (taken[d] > 0 => taken'[d] > 0)
      BY <1>1, <2>2 DEF CountTypes, AtPlace
    <3>3. taken'[e] > 0
      BY <1>2, <2>2, <3>2 DEF AtPlace
    <3> QED
      BY <1>1, <1>2, <1>5, <3>1, <3>2, <3>3 DEF IInv, NothingIsSkipped, SourceTypes
  <2> QED
    BY <1>4, <2>3, <2>4, <2>5, <2>6, Types DEF IInv, EveryCopyIsAccounted
<1> QED
  BY <1>6, <1>7

LEMMA EmitStep ==
  ASSUME IInv, NEW e \in Internal, Emit(e)
  PROVE  IInv'
<1>1. TypeOK /\ SourceTypes /\ WorkTypes /\ StoreTypes /\ CountTypes
  BY Types DEF IInv
<1>2. /\ emitted' = emitted \cup {e}
      /\ UNCHANGED <<position, committed, hand, forward, jobs, workVars, storeVars, finished, lost, crashes>>
  BY DEF Emit
<1>3. WorkTypes' /\ StoreTypes' /\ Correlated'
  BY <1>1, <1>2, WorkersIdle DEF WorkTypes, StoreTypes, workVars, storeVars, IInv
<1>4. e \in Events /\ ChanCap \in Nat
  BY IngestorAssumption
<1>5. CASE UNCHANGED <<channel, taken>>
  <2>1. SourceTypes' /\ CountTypes'
    BY <1>1, <1>2, <1>5 DEF SourceTypes, CountTypes
  <2>2. EveryCopyIsAccounted' /\ NothingIsSkipped'
    BY <1>2, <1>5 DEF IInv, EveryCopyIsAccounted, InFlight, NothingIsSkipped, workVars
  <2> QED
    BY <1>3, <2>1, <2>2, Types DEF IInv
<1>6. CASE Len(channel) < ChanCap /\ channel' = Append(channel, e) /\ taken' = Count(taken, e)
  <2>1. taken' \in [Events -> Nat] /\ \A d \in Events : taken'[d] = taken[d] + AtPlace(e, d)
    BY <1>1, <1>4, <1>6, CountOne DEF CountTypes
  <2>2. channel' \in Seq(Internal) /\ Len(channel') = Len(channel) + 1 /\ Len(channel) \in Nat
    BY <1>1, <1>6, AppendProperties DEF SourceTypes
  <2>3. SourceTypes' /\ CountTypes'
    BY <1>1, <1>2, <1>4, <1>6, <2>1, <2>2 DEF SourceTypes, CountTypes
  <2>4. ASSUME NEW d \in Events PROVE InFlight(d)' + finished'[d] + lost'[d] = taken'[d]
    <3>1. InSeq(channel', d) = InSeq(channel, d) + AtPlace(e, d)
      BY <1>1, <1>6, CopiesInAppend DEF SourceTypes
    <3>2. InFlight(d)' = AtPlace(hand, d) + InSeq(channel', d) + AtPlace(forward, d)
                           + InSeq(jobs, d) + AtWork(job, d)
      BY <1>2 DEF InFlight, AtWork, workVars
    <3>3. AtPlace(e, d) \in Nat
      BY DEF AtPlace
    <3>4. InFlight(d)' = InFlight(d) + AtPlace(e, d)
      BY <1>1, <3>1, <3>2, <3>3, Parts
    <3> QED
      BY <1>1, <1>2, <2>1, <3>3, <3>4, Parts DEF IInv, EveryCopyIsAccounted, CountTypes
  <2>5. NothingIsSkipped'
    <3>1. \A i \in 1..position : KafkaLog[i] \in Events
      BY <1>1, IngestorAssumption DEF SourceTypes
    <3>2. \A d \in Events : taken[d] > 0 => taken'[d] > 0
      BY <1>1, <2>1 DEF CountTypes, AtPlace
    <3> QED
      BY <1>2, <3>1, <3>2 DEF IInv, NothingIsSkipped
  <2> QED
    BY <1>3, <2>3, <2>4, <2>5, Types DEF IInv, EveryCopyIsAccounted
<1> QED
  BY <1>5, <1>6 DEF Emit

\* The steps that hand an event on to the next place, and the commit of the offset.
LEMMA HandOverStep ==
  ASSUME IInv, EnqueueJob \/ AutoCommit \/ Forward \/ ForwardJob
  PROVE  IInv'
<1>1. TypeOK /\ SourceTypes /\ WorkTypes /\ StoreTypes /\ CountTypes
  BY Types DEF IInv
<1>2. UNCHANGED <<position, emitted, workVars, storeVars, countVars>>
  BY DEF EnqueueJob, AutoCommit, Forward, ForwardJob
<1>3. StoreTypes' /\ CountTypes' /\ Correlated'
  BY <1>1, <1>2, WorkersIdle DEF StoreTypes, CountTypes, workVars, storeVars, countVars, IInv
<1>4. NothingIsSkipped'
  BY <1>2 DEF IInv, NothingIsSkipped, countVars
<1>5. QueueCap \in Nat /\ Internal \subseteq Events
  BY IngestorAssumption
<1>6. ASSUME NEW x \in Events, Len(jobs) < QueueCap, jobs' = Append(jobs, x)
      PROVE  WorkTypes' /\ \A d \in Events : InSeq(jobs', d) = InSeq(jobs, d) + AtPlace(x, d)
  <2>1. jobs' \in Seq(Events) /\ Len(jobs') = Len(jobs) + 1 /\ Len(jobs) \in Nat
    BY <1>1, <1>6, AppendProperties DEF WorkTypes
  <2>2. WorkTypes'
    BY <1>1, <1>2, <1>5, <1>6, <2>1 DEF WorkTypes, workVars
  <2> QED
    BY <1>1, <1>6, <2>2, CopiesInAppend DEF WorkTypes
<1>7. SourceTypes' /\ WorkTypes' /\ \A d \in Events : InFlight(d)' = InFlight(d)
  <2>1. ASSUME EnqueueJob PROVE SourceTypes' /\ WorkTypes' /\ \A d \in Events : InFlight(d)' = InFlight(d)
    <3>1. /\ hand \in Events /\ Len(jobs) < QueueCap /\ jobs' = Append(jobs, hand) /\ hand' = NoEvent
          /\ UNCHANGED <<committed, channel, forward>>
      BY <1>1, <2>1 DEF EnqueueJob, SourceTypes, EventOrNone
    <3>2. SourceTypes'
      BY <1>1, <1>2, <3>1 DEF SourceTypes, EventOrNone
    <3>3. ASSUME NEW d \in Events PROVE InFlight(d)' = InFlight(d)
      <4>1. InFlight(d)' = AtPlace(NoEvent, d) + InSeq(channel, d) + AtPlace(forward, d)
                             + InSeq(jobs', d) + AtWork(job, d)
        BY <1>2, <3>1 DEF InFlight, AtWork, workVars
      <4>2. InSeq(jobs', d) = InSeq(jobs, d) + AtPlace(hand, d)
        BY <1>6, <3>1
      <4> QED
        BY <1>1, <4>1, <4>2, Parts
    <3> QED
      BY <1>6, <3>1, <3>2, <3>3
  <2>2. ASSUME ForwardJob PROVE SourceTypes' /\ WorkTypes' /\ \A d \in Events : InFlight(d)' = InFlight(d)
    <3>1. /\ forward \in Events /\ Len(jobs) < QueueCap /\ jobs' = Append(jobs, forward)
          /\ forward' = NoEvent
          /\ UNCHANGED <<committed, channel, hand>>
      BY <1>1, <1>5, <2>2 DEF ForwardJob, SourceTypes
    <3>2. SourceTypes'
      BY <1>1, <1>2, <3>1 DEF SourceTypes
    <3>3. ASSUME NEW d \in Events PROVE InFlight(d)' = InFlight(d)
      <4>1. InFlight(d)' = AtPlace(hand, d) + InSeq(channel, d) + AtPlace(NoEvent, d)
                             + InSeq(jobs', d) + AtWork(job, d)
        BY <1>2, <3>1 DEF InFlight, AtWork, workVars
      <4>2. InSeq(jobs', d) = InSeq(jobs, d) + AtPlace(forward, d)
        BY <1>6, <3>1
      <4> QED
        BY <1>1, <4>1, <4>2, Parts
    <3> QED
      BY <1>6, <3>1, <3>2, <3>3
  <2>3. ASSUME Forward PROVE SourceTypes' /\ WorkTypes' /\ \A d \in Events : InFlight(d)' = InFlight(d)
    <3>1. /\ forward = NoEvent /\ channel # <<>> /\ forward' = Head(channel) /\ channel' = Tail(channel)
          /\ UNCHANGED <<committed, hand, jobs>>
      BY <2>3 DEF Forward
    <3>2. /\ Head(channel) \in Internal /\ Tail(channel) \in Seq(Internal)
          /\ Len(Tail(channel)) = Len(channel) - 1
          /\ \A d \in Events : InSeq(channel, d) = InSeq(Tail(channel), d) + AtPlace(Head(channel), d)
      BY <1>1, <3>1, CopiesInTail DEF SourceTypes
    <3>3. SourceTypes'
      <4>1. Len(channel) \in Nat /\ ChanCap \in Nat
        BY <1>1, IngestorAssumption DEF SourceTypes
      <4> QED
        BY <1>1, <1>2, <3>1, <3>2, <4>1 DEF SourceTypes
    <3>4. WorkTypes'
      BY <1>1, <1>2, <3>1 DEF WorkTypes, workVars
    <3>5. ASSUME NEW d \in Events PROVE InFlight(d)' = InFlight(d)
      <4>1. InFlight(d)' = AtPlace(hand, d) + InSeq(Tail(channel), d) + AtPlace(Head(channel), d)
                             + InSeq(jobs, d) + AtWork(job, d)
        BY <1>2, <3>1 DEF InFlight, AtWork, workVars
      <4>2. InSeq(Tail(channel), d) \in Nat /\ AtPlace(Head(channel), d) \in Nat
        BY <3>2, CopiesAreCounted DEF AtPlace
      <4> QED
        BY <1>1, <3>1, <3>2, <4>1, <4>2, Parts
    <3> QED
      BY <3>3, <3>4, <3>5
  <2>4. ASSUME AutoCommit PROVE SourceTypes' /\ WorkTypes' /\ \A d \in Events : InFlight(d)' = InFlight(d)
    <3>1. committed' = position /\ UNCHANGED <<hand, channel, forward, jobs>>
      BY <2>4 DEF AutoCommit
    <3>2. SourceTypes'
      BY <1>1, <1>2, <3>1 DEF SourceTypes
    <3> QED
      BY <1>1, <1>2, <3>1, <3>2 DEF WorkTypes, InFlight, workVars
  <2> QED
    BY <2>1, <2>2, <2>3, <2>4
<1>8. EveryCopyIsAccounted'
  BY <1>2, <1>7 DEF IInv, EveryCopyIsAccounted, countVars
<1> QED
  BY <1>3, <1>4, <1>7, <1>8, Types DEF IInv

--------------------------------------------------------------------------------
\* The workers.

\* What a step of a worker w leaves alone, and what it does to the stages.
WorkerMoves(w, s) ==
  /\ stage' = [stage EXCEPT ![w] = s]
  /\ UNCHANGED <<sourceVars, taken, lost, crashes>>

\* The event of a worker that is not idle, and the stages and pasts of the others.
LEMMA AtStage ==
  ASSUME TypeOK, NEW w \in Workers, stage[w] # "idle"
  PROVE  job[w] \in Events /\ job[w] # NoEvent
BY IngestorAssumption DEF TypeOK, EventOrNone

LEMMA PastMoves ==
  ASSUME NEW w \in Workers, NEW s, TypeOK, stage' = [stage EXCEPT ![w] = s],
         \A v \in Workers \ {w} : job'[v] = job[v],
         NEW d \in Events
  PROVE  /\ AtWork(Past, d) \in Nat /\ AtWork(Past', d) \in Nat
         /\ AtWork(Past, d) + AtPlace(Past'[w], d) = AtWork(Past', d) + AtPlace(Past[w], d)
         /\ AtWork(Past, d)' = AtWork(Past', d)
         /\ Past[w] = IF stage[w] \in {"index", "broadcast"} THEN job[w] ELSE NoEvent
         /\ Past'[w] = IF s \in {"index", "broadcast"} THEN job'[w] ELSE NoEvent
<1>1. stage'[w] = s /\ \A v \in Workers \ {w} : stage'[v] = stage[v]
  BY DEF TypeOK
<1>2. \A v \in Workers \ {w} : Past'[v] = Past[v]
  BY <1>1 DEF Past
<1>3. AtWork(Past, d)' = AtWork(Past', d)
  BY DEF AtWork
<1> QED
  BY <1>1, <1>2, <1>3, WorkersMove DEF Past

\* A step that goes on with the same event.
LEMMA SameEventStep ==
  ASSUME IInv, NEW w \in Workers, NEW s \in {"correlate", "index", "broadcast"},
         WorkerMoves(w, s), stage[w] # "idle", UNCHANGED <<jobs, job, finished>>, StoreTypes',
         \A d \in Suspicious :
           LET past == AtPlace(Past[w], d)
               goes == AtPlace(Past'[w], d)
           IN  incidents'[d] + dbErrors'[d] + past = incidents[d] + dbErrors[d] + goes
  PROVE  IInv'
<1>1. TypeOK /\ SourceTypes /\ WorkTypes /\ StoreTypes /\ CountTypes
  BY Types DEF IInv
<1>2. SourceTypes' /\ CountTypes'
  BY <1>1 DEF WorkerMoves, SourceTypes, CountTypes, sourceVars
<1>3. WorkTypes'
  BY <1>1 DEF WorkerMoves, WorkTypes
<1>4. EveryCopyIsAccounted' /\ NothingIsSkipped'
  BY DEF IInv, EveryCopyIsAccounted, InFlight, NothingIsSkipped, WorkerMoves, sourceVars
<1>5. ASSUME NEW d \in Suspicious
      PROVE  /\ finished'[d] + AtWork(Past, d)' <= incidents'[d] + dbErrors'[d]
             /\ incidents'[d] + dbErrors'[d] <= finished'[d] + lost'[d] + AtWork(Past, d)'
  <2>1. d \in Events
    BY SuspiciousEvents
  <2>2. /\ AtWork(Past, d) \in Nat /\ AtWork(Past', d) \in Nat
        /\ AtWork(Past, d) + AtPlace(Past'[w], d) = AtWork(Past', d) + AtPlace(Past[w], d)
        /\ AtWork(Past, d)' = AtWork(Past', d)
    BY <1>1, <2>1, PastMoves DEF WorkerMoves
  <2>3. AtPlace(Past[w], d) \in Nat /\ AtPlace(Past'[w], d) \in Nat
    BY DEF AtPlace
  <2>4. /\ incidents[d] \in Nat /\ dbErrors[d] \in Nat /\ incidents'[d] \in Nat /\ dbErrors'[d] \in Nat
        /\ finished[d] \in Nat /\ lost[d] \in Nat /\ finished'[d] = finished[d] /\ lost'[d] = lost[d]
    BY <1>1, <2>1 DEF StoreTypes, CountTypes, WorkerMoves
  <2>5. /\ finished[d] + AtWork(Past, d) <= incidents[d] + dbErrors[d]
        /\ incidents[d] + dbErrors[d] <= finished[d] + lost[d] + AtWork(Past, d)
    BY DEF IInv, Correlated
  <2>6. incidents'[d] + dbErrors'[d] + AtPlace(Past[w], d)
          = incidents[d] + dbErrors[d] + AtPlace(Past'[w], d)
    OBVIOUS
  <2> QED
    BY <2>2, <2>3, <2>4, <2>5, <2>6
<1>6. Correlated'
  BY <1>5 DEF Correlated
<1> QED
  BY <1>2, <1>3, <1>4, <1>6, Types DEF IInv

\* Saving the asset, or going past it: nothing has been correlated yet.
LEMMA PersistStep ==
  ASSUME IInv, NEW w \in Workers, PersistAsset(w) \/ NothingToPersist(w)
  PROVE  IInv'
<1>1. TypeOK /\ SourceTypes /\ WorkTypes /\ StoreTypes /\ CountTypes
  BY Types DEF IInv
<1>2. /\ WorkerMoves(w, "correlate") /\ stage[w] = "persist"
      /\ UNCHANGED <<jobs, job, finished, incidents, dbErrors>>
  BY DEF PersistAsset, NothingToPersist, WorkerMoves, Goto, countVars, storeVars
<1>3. job[w] \in Events
  BY <1>1, <1>2, AtStage
<1>4. StoreTypes'
  <2>1. CASE Kind[job[w]] \in Tables /\ Upsert(job[w])
    <3>1. PICK t \in Tables : t = Kind[job[w]]
      BY <2>1
    <3>2. PICK e \in Events : e = job[w]
      BY <1>3
    <3>3. /\ rows' = [rows EXCEPT ![t] = {r \in @ : r.name # NoKey} \cup {[name |-> NoKey, event |-> e]}]
          /\ saved' = saved \cup {e}
      BY <2>1, <3>1, <3>2 DEF Upsert, NormalizeEvent
    <3>4. [name |-> NoKey, event |-> e] \in [name : Names, event : Events]
      BY DEF Names
    <3>5. rows' \in [Tables -> SUBSET [name : Names, event : Events]]
      BY <1>1, <3>3, <3>4 DEF StoreTypes
    <3> QED
      BY <1>1, <1>2, <3>3, <3>5 DEF StoreTypes
  <2>2. CASE UNCHANGED <<rows, saved>>
    BY <1>1, <1>2, <2>2 DEF StoreTypes
  <2> QED
    BY <2>1, <2>2 DEF PersistAsset, NothingToPersist, storeVars
<1>5. ASSUME NEW d \in Events PROVE AtPlace(Past[w], d) = 0 /\ AtPlace(Past'[w], d) = 0
  <2>1. Past[w] = NoEvent /\ Past'[w] = NoEvent
    BY <1>1, <1>2, <1>5, PastMoves DEF WorkerMoves
  <2> QED
    BY <1>1, <2>1, Parts
<1>6. ASSUME NEW d \in Suspicious
      PROVE  incidents'[d] + dbErrors'[d] + AtPlace(Past[w], d)
               = incidents[d] + dbErrors[d] + AtPlace(Past'[w], d)
  <2>1. d \in Events
    BY SuspiciousEvents
  <2> QED
    BY <1>2, <1>5, <2>1
<1> QED
  BY <1>2, <1>4, <1>6, SameEventStep

\* The correlation: one incident or one logged failure for a suspicious event.
LEMMA CorrelateStep ==
  ASSUME IInv, NEW w \in Workers, CorrelateMatch(w) \/ NoMatch(w)
  PROVE  IInv'
<1>1. TypeOK /\ SourceTypes /\ WorkTypes /\ StoreTypes /\ CountTypes
  BY Types DEF IInv
<1>2. /\ WorkerMoves(w, "index") /\ stage[w] = "correlate"
      /\ UNCHANGED <<jobs, job, finished, rows, saved>>
  BY DEF CorrelateMatch, NoMatch, WorkerMoves, Goto, countVars, storeVars
<1>3. PICK e \in Events : e = job[w]
  BY <1>1, <1>2, AtStage
<1>4. \A d \in Events : Past[w] = NoEvent /\ Past'[w] = e
  BY <1>1, <1>2, <1>3, PastMoves DEF WorkerMoves
<1>5. ASSUME NEW d \in Events PROVE AtPlace(Past[w], d) = 0 /\ AtPlace(Past'[w], d) = AtPlace(e, d)
  BY <1>1, <1>4, Parts
<1>6. CASE e \in Suspicious /\ CorrelateMatch(w)
  <2>1. \/ incidents' = Count(incidents, e) /\ UNCHANGED dbErrors
        \/ dbErrors' = Count(dbErrors, e) /\ UNCHANGED incidents
    BY <1>3, <1>6 DEF CorrelateMatch
  <2>2. /\ incidents' \in [Events -> Nat] /\ dbErrors' \in [Events -> Nat]
        /\ \A d \in Events : incidents'[d] + dbErrors'[d] = incidents[d] + dbErrors[d] + AtPlace(e, d)
    <3>1. \A d \in Events : incidents[d] \in Nat /\ dbErrors[d] \in Nat /\ AtPlace(e, d) \in Nat
      BY <1>1 DEF StoreTypes, AtPlace
    <3>2. CASE incidents' = Count(incidents, e) /\ UNCHANGED dbErrors
      BY <1>1, <3>1, <3>2, CountOne DEF StoreTypes
    <3>3. CASE dbErrors' = Count(dbErrors, e) /\ UNCHANGED incidents
      BY <1>1, <3>1, <3>3, CountOne DEF StoreTypes
    <3> QED
      BY <2>1, <3>2, <3>3
  <2>3. StoreTypes'
    BY <1>1, <1>2, <2>2 DEF StoreTypes
  <2>4. ASSUME NEW d \in Suspicious
        PROVE  incidents'[d] + dbErrors'[d] + AtPlace(Past[w], d)
                 = incidents[d] + dbErrors[d] + AtPlace(Past'[w], d)
    <3>1. d \in Events
      BY SuspiciousEvents
    <3> QED
      BY <1>1, <1>5, <2>2, <2>3, <3>1 DEF StoreTypes
  <2> QED
    BY <1>2, <2>3, <2>4, SameEventStep
<1>7. CASE e \notin Suspicious /\ NoMatch(w)
  <2>1. UNCHANGED <<incidents, dbErrors>>
    BY <1>7 DEF NoMatch, storeVars
  <2>2. StoreTypes'
    BY <1>1, <1>2, <2>1 DEF StoreTypes
  <2>3. ASSUME NEW d \in Suspicious
        PROVE  incidents'[d] + dbErrors'[d] + AtPlace(Past[w], d)
                 = incidents[d] + dbErrors[d] + AtPlace(Past'[w], d)
    <3>1. d \in Events /\ AtPlace(e, d) = 0
      BY <1>7, SuspiciousEvents DEF AtPlace
    <3> QED
      BY <1>5, <2>1, <3>1
  <2> QED
    BY <1>2, <2>2, <2>3, SameEventStep
<1> QED
  BY <1>3, <1>6, <1>7 DEF CorrelateMatch, NoMatch

LEMMA IndexAnsweredStep ==
  ASSUME IInv, NEW w \in Workers, IndexAnswered(w)
  PROVE  IInv'
<1>1. TypeOK /\ StoreTypes
  BY Types DEF IInv
<1>2. /\ WorkerMoves(w, "broadcast") /\ stage[w] = "index"
      /\ UNCHANGED <<jobs, job, finished, rows, saved, incidents, dbErrors>>
  BY DEF IndexAnswered, WorkerMoves, Goto, countVars, storeVars
<1>3. StoreTypes'
  BY <1>1, <1>2 DEF StoreTypes
<1>4. ASSUME NEW d \in Suspicious PROVE AtPlace(Past[w], d) = AtPlace(Past'[w], d)
  <2>1. d \in Events
    BY SuspiciousEvents
  <2> QED
    BY <1>1, <1>2, <2>1, PastMoves DEF WorkerMoves
<1>5. ASSUME NEW d \in Suspicious
      PROVE  incidents'[d] + dbErrors'[d] + AtPlace(Past[w], d)
               = incidents[d] + dbErrors[d] + AtPlace(Past'[w], d)
  BY <1>2, <1>4
<1> QED
  BY <1>2, <1>3, <1>5, SameEventStep

\* An event leaves the queue and is the worker's.
LEMMA TakeJobStep ==
  ASSUME IInv, NEW w \in Workers, TakeJob(w)
  PROVE  IInv'
<1>1. TypeOK /\ SourceTypes /\ WorkTypes /\ StoreTypes /\ CountTypes
  BY Types DEF IInv
<1>2. /\ stage[w] = "idle" /\ job[w] = NoEvent /\ stage' = [stage EXCEPT ![w] = "persist"]
      /\ UNCHANGED <<sourceVars, storeVars, countVars>>
  BY <1>1 DEF TakeJob, Goto, WorkTypes
<1>3. PICK e \in Events : /\ jobs # <<>> /\ e = Head(jobs) /\ jobs' = Tail(jobs)
                          /\ job' = [job EXCEPT ![w] = e]
  BY <1>1, CopiesInTail DEF TakeJob, WorkTypes
<1>4. SourceTypes' /\ StoreTypes' /\ CountTypes'
  BY <1>1, <1>2 DEF SourceTypes, StoreTypes, CountTypes, sourceVars, storeVars, countVars
<1>5. /\ jobs' \in Seq(Events) /\ Len(jobs') = Len(jobs) - 1
      /\ \A d \in Events : InSeq(jobs, d) = InSeq(jobs', d) + AtPlace(e, d) /\ InSeq(jobs', d) \in Nat
  <2>1. /\ Tail(jobs) \in Seq(Events) /\ Len(Tail(jobs)) = Len(jobs) - 1
        /\ \A d \in Events : InSeq(jobs, d) = InSeq(Tail(jobs), d) + AtPlace(Head(jobs), d)
    BY <1>1, <1>3, CopiesInTail DEF WorkTypes
  <2> QED
    BY <1>3, <2>1, CopiesAreCounted
<1>6. WorkTypes'
  <2>1. e # NoEvent /\ QueueCap \in Nat /\ Len(jobs) \in Nat
    BY <1>1, IngestorAssumption DEF WorkTypes
  <2>2. job' \in [Workers -> EventOrNone] /\ stage' \in [Workers -> {"idle", "persist", "correlate", "index", "broadcast"}]
    BY <1>1, <1>2, <1>3 DEF WorkTypes, EventOrNone
  <2>3. \A v \in Workers : stage'[v] = "idle" <=> job'[v] = NoEvent
    BY <1>1, <1>2, <1>3, <2>1 DEF WorkTypes
  <2>4. Len(jobs') <= QueueCap
    BY <1>1, <1>5, <2>1 DEF WorkTypes
  <2> QED
    BY <1>5, <2>2, <2>3, <2>4 DEF WorkTypes
<1>7. job'[w] = e /\ \A v \in Workers \ {w} : job'[v] = job[v]
  BY <1>1, <1>3 DEF WorkTypes
<1>8. ASSUME NEW d \in Events PROVE InFlight(d)' = InFlight(d)
  <2>1. AtWork(job, d) + AtPlace(e, d) = AtWork(job', d) + AtPlace(NoEvent, d) /\ AtWork(job', d) \in Nat
    BY <1>2, <1>7, WorkersMove
  <2>2. InFlight(d)' = AtPlace(hand, d) + InSeq(channel, d) + AtPlace(forward, d)
                         + InSeq(jobs', d) + AtWork(job', d)
    BY <1>2 DEF InFlight, AtWork, sourceVars
  <2>3. AtPlace(e, d) \in Nat
    BY DEF AtPlace
  <2>4. InSeq(jobs, d) = InSeq(jobs', d) + AtPlace(e, d) /\ InSeq(jobs', d) \in Nat
    BY <1>5
  <2>5. /\ AtPlace(NoEvent, d) = 0 /\ AtPlace(hand, d) \in Nat /\ AtPlace(forward, d) \in Nat
        /\ InSeq(channel, d) \in Nat /\ AtWork(job, d) \in Nat
        /\ InFlight(d) = AtPlace(hand, d) + InSeq(channel, d) + AtPlace(forward, d)
                           + InSeq(jobs, d) + AtWork(job, d)
    BY <1>1, Parts
  <2> QED
    BY <2>1, <2>2, <2>3, <2>4, <2>5
<1>9. EveryCopyIsAccounted' /\ NothingIsSkipped'
  <2>1. UNCHANGED <<position, taken, finished, lost>>
    BY <1>2 DEF sourceVars, countVars
  <2> QED
    BY <1>8, <2>1 DEF IInv, EveryCopyIsAccounted, NothingIsSkipped
<1>10. ASSUME NEW d \in Events PROVE AtWork(Past, d)' = AtWork(Past, d)
  <2>1. TypeOK /\ stage' = [stage EXCEPT ![w] = "persist"] /\ \A v \in Workers \ {w} : job'[v] = job[v]
    BY <1>1, <1>2, <1>7
  <2>2. /\ AtWork(Past, d) \in Nat /\ AtWork(Past', d) \in Nat
        /\ AtWork(Past, d) + AtPlace(Past'[w], d) = AtWork(Past', d) + AtPlace(Past[w], d)
        /\ AtWork(Past, d)' = AtWork(Past', d)
    BY <2>1, PastMoves
  <2>3. Past[w] = NoEvent /\ Past'[w] = NoEvent
    BY <1>2, <2>1 DEF Past, TypeOK
  <2> QED
    BY <2>2, <2>3 DEF AtPlace
<1>11. Correlated'
  BY <1>2, <1>10, SuspiciousEvents DEF IInv, Correlated, storeVars, countVars
<1> QED
  BY <1>4, <1>6, <1>9, <1>11, Types DEF IInv

\* ProcessEvent returns, with the incident behind it.
LEMMA FinishStep ==
  ASSUME IInv, NEW w \in Workers, IndexUnreachable(w) \/ Broadcast(w)
  PROVE  IInv'
<1>1. TypeOK /\ SourceTypes /\ WorkTypes /\ StoreTypes /\ CountTypes
  BY Types DEF IInv
<1>2. /\ stage[w] \in {"index", "broadcast"} /\ stage' = [stage EXCEPT ![w] = "idle"]
      /\ job' = [job EXCEPT ![w] = NoEvent]
      /\ UNCHANGED <<sourceVars, jobs, storeVars, taken, lost, crashes>>
  BY DEF IndexUnreachable, Broadcast, Finish, Goto
<1>3. PICK e \in Events : e = job[w] /\ e # NoEvent /\ finished' = Count(finished, e)
  BY <1>1, <1>2, AtStage DEF IndexUnreachable, Broadcast, Finish
<1>4. finished' \in [Events -> Nat] /\ \A d \in Events : finished'[d] = finished[d] + AtPlace(e, d)
  BY <1>1, <1>3, CountOne DEF CountTypes
<1>5. SourceTypes' /\ StoreTypes' /\ CountTypes'
  BY <1>1, <1>2, <1>4 DEF SourceTypes, StoreTypes, CountTypes, sourceVars, storeVars
<1>6. WorkTypes'
  BY <1>1, <1>2 DEF WorkTypes, EventOrNone
<1>7. job'[w] = NoEvent /\ \A v \in Workers \ {w} : job'[v] = job[v]
  BY <1>1, <1>2 DEF WorkTypes
<1>8. ASSUME NEW d \in Events
      PROVE  /\ AtPlace(NoEvent, d) = 0 /\ AtPlace(e, d) \in Nat
             /\ finished[d] \in Nat /\ lost[d] \in Nat /\ taken[d] \in Nat
             /\ finished'[d] = finished[d] + AtPlace(e, d)
  BY <1>1, <1>4, Parts DEF CountTypes, AtPlace
<1>9. ASSUME NEW d \in Events PROVE InFlight(d)' + finished'[d] + lost'[d] = taken'[d]
  <2>1. AtWork(job, d) + AtPlace(NoEvent, d) = AtWork(job', d) + AtPlace(e, d) /\ AtWork(job', d) \in Nat
    BY <1>3, <1>7, WorkersMove
  <2>2. InFlight(d)' = AtPlace(hand, d) + InSeq(channel, d) + AtPlace(forward, d)
                         + InSeq(jobs, d) + AtWork(job', d)
    BY <1>2 DEF InFlight, AtWork, sourceVars
  <2>3. InFlight(d) = InFlight(d)' + AtPlace(e, d) /\ InFlight(d)' \in Nat
    BY <1>1, <1>8, <2>1, <2>2, Parts
  <2>4. InFlight(d) + finished[d] + lost[d] = taken[d] /\ taken'[d] = taken[d] /\ lost'[d] = lost[d]
    BY <1>2 DEF IInv, EveryCopyIsAccounted
  <2> QED
    BY <1>8, <2>3, <2>4
<1>10. NothingIsSkipped'
  BY <1>2 DEF IInv, NothingIsSkipped, sourceVars
<1>11. ASSUME NEW d \in Suspicious
       PROVE  /\ finished'[d] + AtWork(Past, d)' <= incidents'[d] + dbErrors'[d]
              /\ incidents'[d] + dbErrors'[d] <= finished'[d] + lost'[d] + AtWork(Past, d)'
  <2>1. d \in Events
    BY SuspiciousEvents
  <2>2. TypeOK /\ stage' = [stage EXCEPT ![w] = "idle"] /\ \A v \in Workers \ {w} : job'[v] = job[v]
    BY <1>1, <1>2, <1>7
  <2>3. /\ AtWork(Past, d) \in Nat /\ AtWork(Past', d) \in Nat
        /\ AtWork(Past, d) + AtPlace(Past'[w], d) = AtWork(Past', d) + AtPlace(Past[w], d)
        /\ AtWork(Past, d)' = AtWork(Past', d)
    BY <2>1, <2>2, PastMoves
  <2>4. Past[w] = e /\ Past'[w] = NoEvent
    BY <1>2, <1>3, <2>2 DEF Past, TypeOK
  <2>5. /\ incidents[d] \in Nat /\ dbErrors[d] \in Nat
        /\ incidents'[d] = incidents[d] /\ dbErrors'[d] = dbErrors[d] /\ lost'[d] = lost[d]
    BY <1>1, <1>2, <2>1 DEF StoreTypes, storeVars
  <2>6. /\ finished[d] + AtWork(Past, d) <= incidents[d] + dbErrors[d]
        /\ incidents[d] + dbErrors[d] <= finished[d] + lost[d] + AtWork(Past, d)
    BY DEF IInv, Correlated
  <2>7. AtWork(Past, d) = AtWork(Past, d)' + AtPlace(e, d)
    BY <1>8, <2>1, <2>3, <2>4
  <2> QED
    BY <1>8, <2>1, <2>3, <2>5, <2>6, <2>7
<1> QED
  BY <1>5, <1>6, <1>9, <1>10, <1>11, Types DEF IInv, EveryCopyIsAccounted, Correlated

--------------------------------------------------------------------------------
\* The end of the process, and the theorems.

\* What was on its way is lost: no event past its correlation is on its way now.
LEMMA RestartStep ==
  ASSUME IInv, Restart
  PROVE  IInv'
<1>1. TypeOK /\ SourceTypes /\ WorkTypes /\ StoreTypes /\ CountTypes
  BY Types DEF IInv
<1>2. /\ crashes < MaxCrashes /\ crashes' = crashes + 1
      /\ position' = committed /\ hand' = NoEvent /\ forward' = NoEvent
      /\ job' = [w \in Workers |-> NoEvent] /\ stage' = [w \in Workers |-> "idle"]
      /\ lost' = [e \in Events |-> lost[e] + InFlight(e)]
      /\ UNCHANGED <<committed, emitted, storeVars, taken, finished>>
  BY DEF Restart
<1>3. channel' = <<>> /\ jobs' = <<>>
  BY DEF Restart
<1>4. SourceTypes' /\ WorkTypes'
  <2>1. <<>> \in Seq(Internal) /\ <<>> \in Seq(Events) /\ Len(<<>>) = 0
    OBVIOUS
  <2>2. ChanCap \in Nat /\ QueueCap \in Nat
    BY IngestorAssumption
  <2>3. SourceTypes'
    BY <1>1, <1>2, <1>3, <2>1, <2>2 DEF SourceTypes, EventOrNone
  <2>4. WorkTypes'
    BY <1>2, <1>3, <2>1, <2>2 DEF WorkTypes, EventOrNone
  <2> QED
    BY <2>3, <2>4
<1>5. StoreTypes' /\ CountTypes'
  <2>1. \A e \in Events : lost[e] \in Nat /\ InFlight(e) \in Nat
    BY <1>1, Parts DEF CountTypes
  <2>2. lost' \in [Events -> Nat]
    BY <1>2, <2>1
  <2>3. crashes' \in 0..MaxCrashes
    BY <1>1, <1>2, IngestorAssumption DEF CountTypes
  <2> QED
    BY <1>1, <1>2, <2>2, <2>3 DEF StoreTypes, CountTypes, storeVars
<1>6. ASSUME NEW d \in Events PROVE InFlight(d)' = 0 /\ AtWork(Past, d)' = 0
  <2>1. d # NoEvent
    BY IngestorAssumption
  <2>2. {w \in Workers : job'[w] = d} = {} /\ {w \in Workers : Past'[w] = d} = {}
    BY <1>2, <2>1 DEF Past
  <2>3. AtWork(job', d) = 0 /\ AtWork(Past, d)' = 0
    BY <2>2, FS_EmptySet DEF AtWork
  <2>4. InSeq(channel', d) = 0 /\ InSeq(jobs', d) = 0
    BY <1>3, CopiesInEmpty
  <2>5. AtPlace(hand', d) = 0 /\ AtPlace(forward', d) = 0
    BY <1>2, <2>1 DEF AtPlace
  <2> QED
    BY <2>3, <2>4, <2>5 DEF InFlight, AtWork
<1>7. ASSUME NEW d \in Events
      PROVE  /\ lost'[d] = lost[d] + InFlight(d) /\ InFlight(d) \in Nat
             /\ lost[d] \in Nat /\ finished[d] \in Nat /\ taken[d] \in Nat
             /\ finished'[d] = finished[d] /\ taken'[d] = taken[d]
  BY <1>1, <1>2, Parts DEF CountTypes
<1>8. EveryCopyIsAccounted'
  BY <1>6, <1>7 DEF IInv, EveryCopyIsAccounted
<1>9. NothingIsSkipped'
  <2>1. \A i \in 1..position' : i \in 1..position
    BY <1>1, <1>2, IngestorAssumption DEF SourceTypes
  <2> QED
    BY <1>2, <2>1 DEF IInv, NothingIsSkipped
<1>10. ASSUME NEW d \in Suspicious
       PROVE  /\ finished'[d] + AtWork(Past, d)' <= incidents'[d] + dbErrors'[d]
              /\ incidents'[d] + dbErrors'[d] <= finished'[d] + lost'[d] + AtWork(Past, d)'
  <2>1. d \in Events
    BY SuspiciousEvents
  <2>2. AtWork(Past, d) \in Nat /\ AtWork(Past, d) <= InFlight(d)
    BY <1>1, <2>1, Parts
  <2>3. /\ incidents[d] \in Nat /\ dbErrors[d] \in Nat
        /\ incidents'[d] = incidents[d] /\ dbErrors'[d] = dbErrors[d]
    BY <1>1, <1>2, <2>1 DEF StoreTypes, storeVars
  <2>4. /\ finished[d] + AtWork(Past, d) <= incidents[d] + dbErrors[d]
        /\ incidents[d] + dbErrors[d] <= finished[d] + lost[d] + AtWork(Past, d)
    BY DEF IInv, Correlated
  <2> QED
    BY <1>6, <1>7, <2>1, <2>2, <2>3, <2>4
<1> QED
  BY <1>4, <1>5, <1>8, <1>9, <1>10, Types DEF IInv, Correlated

LEMMA StepHolds == IInv /\ [Next]_vars => IInv'
<1> SUFFICES ASSUME IInv, [Next]_vars PROVE IInv'
  OBVIOUS
<1>1. CASE Consume \/ EnqueueJob \/ AutoCommit \/ Forward \/ ForwardJob
  BY <1>1, ConsumeStep, HandOverStep
<1>2. CASE \E e \in Internal : Emit(e)
  BY <1>2, EmitStep
<1>3. CASE \E w \in Workers : WorkerStep(w)
  BY <1>3, TakeJobStep, PersistStep, CorrelateStep, IndexAnsweredStep, FinishStep DEF WorkerStep
<1>4. CASE Restart
  BY <1>4, RestartStep
<1>5. CASE UNCHANGED vars
  BY <1>5 DEF IInv, TypeOK, EveryCopyIsAccounted, Correlated, NothingIsSkipped, InFlight, Past, AtWork,
              vars, sourceVars, workVars, storeVars, countVars
<1> QED
  BY <1>1, <1>2, <1>3, <1>4, <1>5 DEF Next

LEMMA Invariance == Spec => []IInv
<1> QED
  BY InitHolds, StepHolds, PTL DEF Spec

\* Queue and channel stay within their capacities, a worker is idle exactly when it has
\* no event, and the committed offset never overtakes the position.
THEOREM TypeCorrect == Spec => []TypeOK
<1>1. IInv => TypeOK
  BY DEF IInv
<1> QED
  BY <1>1, Invariance, PTL

\* For any number of workers, any capacities and any topic: every copy of an event that
\* entered the pipeline is at exactly one place, was processed, or was lost in a restart.
THEOREM NothingDropsOrDoubles == Spec => []EveryCopyIsAccounted
<1>1. IInv => EveryCopyIsAccounted
  BY DEF IInv
<1> QED
  BY <1>1, Invariance, PTL

\* The incident of a suspicious event survives everything ProcessEvent may end early for,
\* and is not saved more often than the event was taken.
THEOREM IncidentsSurvive == Spec => []IncidentSurvives
<1>1. ASSUME IInv, NEW d \in Suspicious
      PROVE  /\ finished[d] <= incidents[d] + dbErrors[d]
             /\ incidents[d] + dbErrors[d] <= taken[d]
  <2>1. d \in Events /\ TypeOK
    BY <1>1, SuspiciousEvents DEF IInv
  <2>2. /\ AtWork(Past, d) \in Nat /\ AtWork(Past, d) <= InFlight(d) /\ InFlight(d) \in Nat
    <3>1. AtWork(Past, d) <= AtWork(job, d)
      BY <2>1, Parts
    <3> QED
      BY <2>1, <3>1, Parts
  <2>3. /\ incidents[d] \in Nat /\ dbErrors[d] \in Nat /\ finished[d] \in Nat /\ lost[d] \in Nat
        /\ taken[d] \in Nat
    BY <2>1, Types DEF StoreTypes, CountTypes
  <2>4. /\ finished[d] + AtWork(Past, d) <= incidents[d] + dbErrors[d]
        /\ incidents[d] + dbErrors[d] <= finished[d] + lost[d] + AtWork(Past, d)
        /\ InFlight(d) + finished[d] + lost[d] = taken[d]
    BY <1>1, <2>1 DEF IInv, Correlated, EveryCopyIsAccounted
  <2> QED
    BY <2>2, <2>3, <2>4
<1>2. IInv => IncidentSurvives
  BY <1>1 DEF IncidentSurvives
<1> QED
  BY <1>2, Invariance, PTL

\* Whatever a restart makes the consumer read again, it resumes in front of nothing it
\* has not read.
THEOREM NothingSkipped == Spec => []NothingIsSkipped
<1>1. IInv => NothingIsSkipped
  BY DEF IInv
<1> QED
  BY <1>1, Invariance, PTL

================================================================================
