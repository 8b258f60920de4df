------------------------------- MODULE Ingestor --------------------------------
(***************************************************************************)
(* The ingestor of the API (internal/ingestor/ingestor.go).  A Kafka       *)
(* consumer and a forwarder of the internal channel feed one bounded job   *)
(* queue; workers take events from it and run ProcessEvent: save the asset, *)
(* correlate and save the incident, index, broadcast.  Offsets are         *)
(* committed by the client library, of every message the consumer has      *)
(* read, whatever the workers have done with it.  Nothing is drained when   *)
(* the process ends: a restart and a crash are the same step.              *)
(***************************************************************************)
EXTENDS Integers, Sequences, FiniteSets

CONSTANTS
  Events,      \* the events, as their identities
  NoEvent,     \* nothing at hand
  KafkaLog,    \* the topic nexdefend-events, in the order of its one partition
  Internal,    \* the events of the collectors inside the API process
  Kind,        \* of each event: "pod" or "cloud" asset, "host" (from an agent's
               \* watchers), "collected" in the API, or "garbage": not JSON
  Key,         \* of each event: the name its data carries
  Suspicious,  \* the events a correlation rule matches: "auth" and "fim" ones
  NoKey,       \* the empty name
  Workers,     \* the goroutines of the worker pool, 3 in the code
  QueueCap,    \* capacity of jobQueue, 1000 in the code
  ChanCap,     \* capacity of the internal channel, 1000 in the code
  MaxCrashes   \* bound: restarts of the API

ASSUME IngestorAssumption ==
  /\ IsFiniteSet(Workers)
  /\ KafkaLog \in Seq(Events)
  /\ Internal \subseteq Events
  /\ NoEvent \notin Events
  /\ Kind \in [Events -> {"pod", "cloud", "host", "collected", "garbage"}]
  /\ \A e \in Events : Kind[e] = "collected" <=> e \in Internal
  /\ \A e \in Events : Key[e] # NoKey
  /\ Suspicious \subseteq {e \in Events : Kind[e] = "host"}
  /\ QueueCap \in Nat \ {0}
  /\ ChanCap \in Nat \ {0}
  /\ MaxCrashes \in Nat

VARIABLES
  position,   \* how far the consumer has read the log
  committed,  \* how far its group has committed
  hand,       \* what the consumer holds while jobQueue is full
  channel,    \* the internal channel
  forward,    \* what the forwarder holds while jobQueue is full
  jobs,       \* jobQueue
  job,        \* the event each worker is at
  stage,      \* and where in ProcessEvent it is
  rows,       \* the rows of each asset table: their name, the event last written
  saved,      \* the events whose asset was written without an error
  incidents,  \* how many incidents were saved for each event
  emitted,    \* the internal events a collector has sent or dropped
  taken,      \* how often each event entered the pipeline
  finished,   \* how often ProcessEvent returned for it
  lost,       \* how often a restart found it on its way
  dbErrors,   \* how often saving its incident failed
  crashes     \* how many restarts there were

sourceVars == <<position, committed, hand, channel, forward, emitted>>
workVars == <<job, stage>>
storeVars == <<rows, saved, incidents, dbErrors>>
countVars == <<taken, finished, lost, crashes>>
vars == <<sourceVars, jobs, workVars, storeVars, countVars>>

Tables == {"pod", "cloud"}
Names == {NoKey} \cup {Key[e] : e \in Events}

Zero == [e \in Events |-> 0]
Count(f, e) == [f EXCEPT ![e] = @ + 1]

\* The number of copies of e in a sequence, and at a place that holds one event.
InSeq(s, e) == Cardinality({i \in 1..Len(s) : s[i] = e})
AtPlace(p, e) == IF p = e THEN 1 ELSE 0

\* The copies of e in the pipeline.
InFlight(e) ==
  AtPlace(hand, e) + InSeq(channel, e) + AtPlace(forward, e) + InSeq(jobs, e)
    + Cardinality({w \in Workers : job[w] = e})

--------------------------------------------------------------------------------

Init ==
  /\ position = 0
  /\ committed = 0
  /\ hand = NoEvent
  /\ channel = <<>>
  /\ forward = NoEvent
  /\ jobs = <<>>
  /\ job = [w \in Workers |-> NoEvent]
  /\ stage = [w \in Workers |-> "idle"]
  /\ rows = [t \in Tables |-> {}]
  /\ saved = {}
  /\ incidents = Zero
  /\ emitted = {}
  /\ taken = Zero
  /\ finished = Zero
  /\ lost = Zero
  /\ dbErrors = Zero
  /\ crashes = 0

\* ReadMessage returns; a message that is not JSON is skipped.
Consume ==
  /\ hand = NoEvent
  /\ position < Len(KafkaLog)
  /\ position' = position + 1
  /\ LET e == KafkaLog[position + 1]
     IN  IF Kind[e] = "garbage"
         THEN UNCHANGED <<hand, taken>>
         ELSE hand' = e /\ taken' = Count(taken, e)
  /\ UNCHANGED <<committed, channel, forward, emitted, jobs, workVars, storeVars, finished, lost, crashes>>

\* A consumer that drops the event when the queue is full.
EnqueueOrDrop ==
  /\ hand # NoEvent
  /\ hand' = NoEvent
  /\ jobs' = IF Len(jobs) < QueueCap THEN Append(jobs, hand) ELSE jobs
  /\ UNCHANGED <<position, committed, channel, forward, emitted, workVars, storeVars, countVars>>

\* jobQueue <- normalizedEvent
EnqueueJob ==
  /\ hand # NoEvent
  /\ Len(jobs) < QueueCap
  /\ jobs' = Append(jobs, hand)
  /\ hand' = NoEvent
  /\ UNCHANGED <<position, committed, channel, forward, emitted, workVars, storeVars, countVars>>

\* The client library commits the offset after the last message it returned.
AutoCommit ==
  /\ committed # position
  /\ committed' = position
  /\ UNCHANGED <<position, hand, channel, forward, emitted, jobs, workVars, storeVars, countVars>>

\* A collector sends an event, or drops it when the channel is full.
Emit(e) ==
  /\ e \in Internal \ emitted
  /\ emitted' = emitted \cup {e}
  /\ IF Len(channel) < ChanCap
     THEN channel' = Append(channel, e) /\ taken' = Count(taken, e)
     ELSE UNCHANGED <<channel, taken>>
  /\ UNCHANGED <<position, committed, hand, forward, jobs, workVars, storeVars, finished, lost, crashes>>

\* The forwarder takes an event from the internal channel ...
Forward ==
  /\ forward = NoEvent
  /\ channel # <<>>
  /\ forward' = Head(channel)
  /\ channel' = Tail(channel)
  /\ UNCHANGED <<position, committed, hand, emitted, jobs, workVars, storeVars, countVars>>

\* ... and puts it into the job queue.
ForwardJob ==
  /\ forward # NoEvent
  /\ Len(jobs) < QueueCap
  /\ jobs' = Append(jobs, forward)
  /\ forward' = NoEvent
  /\ UNCHANGED <<position, committed, hand, channel, emitted, workVars, storeVars, countVars>>

--------------------------------------------------------------------------------

Goto(w, s) == stage' = [stage EXCEPT ![w] = s]

\* ProcessEvent returns.
Finish(w) ==
  /\ finished' = Count(finished, job[w])
  /\ job' = [job EXCEPT ![w] = NoEvent]
  /\ Goto(w, "idle")
  /\ UNCHANGED <<taken, lost, crashes>>

\* A worker takes the next event from the job queue.
TakeJob(w) ==
  /\ stage[w] = "idle"
  /\ jobs # <<>>
  /\ job' = [job EXCEPT ![w] = Head(jobs)]
  /\ jobs' = Tail(jobs)
  /\ Goto(w, "persist")
  /\ UNCHANGED <<sourceVars, storeVars, countVars>>

\* NormalizeEvent keeps what an agent sent as data in RawEvent; Data stays nil.
NormalizeEvent(e) == [RawEvent |-> Key[e], Data |-> NoKey]

\* The upsert of an asset by the name in Data: an empty one, when Data is nil.
Upsert(e) ==
  LET name == NormalizeEvent(e).Data
  IN  /\ rows' = [rows EXCEPT ![Kind[e]] =
                    {r \in @ : r.name # name} \cup {[name |-> name, event |-> e]}]
      /\ saved' = saved \cup {e}

\* saveCloudAsset, saveKubernetesPod; an error is logged.
PersistAsset(w) ==
  /\ stage[w] = "persist"
  /\ Kind[job[w]] \in Tables
  /\ Upsert(job[w]) \/ UNCHANGED <<rows, saved>>
  /\ Goto(w, "correlate")
  /\ UNCHANGED <<sourceVars, jobs, job, incidents, dbErrors, countVars>>

\* A ProcessEvent that correlates in a branch other events do not take.
OnlyIndex(w) ==
  /\ stage[w] = "persist"
  /\ Kind[job[w]] \notin Tables
  /\ Goto(w, "index")
  /\ UNCHANGED <<sourceVars, jobs, job, storeVars, countVars>>

NothingToPersist(w) ==
  /\ stage[w] = "persist"
  /\ Kind[job[w]] \notin Tables
  /\ Goto(w, "correlate")
  /\ UNCHANGED <<sourceVars, jobs, job, storeVars, countVars>>

\* Correlate: the first rule that matches makes an incident; an error in saving
\* it is logged.
CorrelateMatch(w) ==
  /\ stage[w] = "correlate"
  /\ job[w] \in Suspicious
  /\ \/ incidents' = Count(incidents, job[w]) /\ UNCHANGED dbErrors
     \/ dbErrors' = Count(dbErrors, job[w]) /\ UNCHANGED incidents
  /\ Goto(w, "index")
  /\ UNCHANGED <<sourceVars, jobs, job, rows, saved, countVars>>

NoMatch(w) ==
  /\ stage[w] = "correlate"
  /\ job[w] \notin Suspicious
  /\ Goto(w, "index")
  /\ UNCHANGED <<sourceVars, jobs, job, storeVars, countVars>>

\* The search service answers; that the answer is an error is ignored.
IndexAnswered(w) ==
  /\ stage[w] = "index"
  /\ Goto(w, "broadcast")
  /\ UNCHANGED <<sourceVars, jobs, job, storeVars, countVars>>

\* A worker that ends where ProcessEvent returns.
WorkerEnds(w) ==
  /\ stage[w] = "index"
  /\ finished' = Count(finished, job[w])
  /\ job' = [job EXCEPT ![w] = NoEvent]
  /\ Goto(w, "ended")
  /\ UNCHANGED <<sourceVars, jobs, storeVars, taken, lost, crashes>>

\* The search service cannot be reached: ProcessEvent returns early.
IndexUnreachable(w) ==
  /\ stage[w] = "index"
  /\ Finish(w)
  /\ UNCHANGED <<sourceVars, jobs, storeVars>>

\* The hub takes the event (WebsocketHub: BroadcastIsTaken).
Broadcast(w) ==
  /\ stage[w] = "broadcast"
  /\ Finish(w)
  /\ UNCHANGED <<sourceVars, jobs, storeVars>>

\* A restart that resumes behind what was read, committed or not.
RestartAtEnd ==
  /\ crashes < MaxCrashes
  /\ crashes' = crashes + 1
  /\ \E p \in position..Len(KafkaLog) : position' = p /\ committed' = p
  /\ hand' = NoEvent /\ channel' = <<>> /\ forward' = NoEvent /\ jobs' = <<>>
  /\ job' = [w \in Workers |-> NoEvent]
  /\ stage' = [w \in Workers |-> "idle"]
  /\ lost' = [e \in Events |-> lost[e] + InFlight(e)]
  /\ UNCHANGED <<emitted, storeVars, taken, finished>>

\* The process ends and a new one starts: it resumes behind the committed offset.
Restart ==
  /\ crashes < MaxCrashes
  /\ crashes' = crashes + 1
  /\ position' = committed
  /\ hand' = NoEvent
  /\ channel' = <<>>
  /\ forward' = NoEvent
  /\ jobs' = <<>>
  /\ job' = [w \in Workers |-> NoEvent]
  /\ stage' = [w \in Workers |-> "idle"]
  /\ lost' = [e \in Events |-> lost[e] + InFlight(e)]
  /\ UNCHANGED <<committed, emitted, storeVars, taken, finished>>

WorkerStep(w) ==
  \/ TakeJob(w)
  \/ PersistAsset(w) \/ NothingToPersist(w)
  \/ CorrelateMatch(w) \/ NoMatch(w)
  \/ IndexAnswered(w) \/ IndexUnreachable(w)
  \/ Broadcast(w)

Next ==
  \/ Consume \/ EnqueueJob \/ AutoCommit
  \/ \E e \in Internal : Emit(e)
  \/ Forward \/ ForwardJob
  \/ \E w \in Workers : WorkerStep(w)
  \/ Restart

\* Goroutines run, and the database, the search service and the hub answer or
\* fail.  Senders blocked on jobQueue are served in order.
Fairness ==
  /\ WF_vars(Consume) /\ SF_vars(EnqueueJob)
  /\ WF_vars(Forward) /\ SF_vars(ForwardJob)
  /\ \A w \in Workers : WF_vars(WorkerStep(w))

Spec == Init /\ [][Next]_vars /\ Fairness

--------------------------------------------------------------------------------

EventOrNone == Events \cup {NoEvent}

TypeOK ==
  /\ position \in 0..Len(KafkaLog)
  /\ committed \in 0..position
  /\ hand \in EventOrNone
  /\ channel \in Seq(Internal) /\ Len(channel) <= ChanCap
  /\ forward \in Internal \cup {NoEvent}
  /\ jobs \in Seq(Events) /\ Len(jobs) <= QueueCap
  /\ job \in [Workers -> EventOrNone]
  /\ stage \in [Workers -> {"idle", "persist", "correlate", "index", "broadcast"}]
  /\ \A w \in Workers : stage[w] = "idle" <=> job[w] = NoEvent
  /\ rows \in [Tables -> SUBSET [name : Names, event : Events]]
  /\ saved \subseteq Events
  /\ emitted \subseteq Internal
  /\ {incidents, dbErrors, taken, finished, lost} \subseteq [Events -> Nat]
  /\ crashes \in 0..MaxCrashes

\* However often an event enters the pipeline, each copy is on its way at exactly
\* one place, was processed once, or was on its way when the process ended: two
\* sources that block on one queue and the workers neither drop nor double it.
EveryCopyIsAccounted ==
  \A e \in Events : InFlight(e) + finished[e] + lost[e] = taken[e]

\* The correlation of a suspicious event comes before everything that may end
\* ProcessEvent early: when it has returned, the incident was saved or the failure
\* logged, once for each time, and never more often than the event was taken.
IncidentSurvives ==
  \A e \in Suspicious :
    /\ finished[e] <= incidents[e] + dbErrors[e]
    /\ incidents[e] + dbErrors[e] <= taken[e]

\* A restart resumes at the committed offset: it may read an event again and it
\* may have lost one, but it never skips one that was not read.
NothingIsSkipped ==
  \A i \in 1..position : Kind[KafkaLog[i]] # "garbage" => taken[KafkaLog[i]] > 0

\* The topic is read to its end and the pipeline runs empty: no worker, full
\* queue or failed service stops it.
PipelineRunsEmpty ==
  <>[](position = Len(KafkaLog) /\ \A e \in Events : InFlight(e) = 0)

\* "Upsert based on Name + Namespace" (ingestor.go:102): an asset that was saved
\* without an error has the row of its own name, whatever was saved after it.
EachAssetHasItsRow ==
  \A e \in saved : \E r \in rows[Kind[e]] : r.name = Key[e]

================================================================================
