------------------------------- MODULE UebaWorker -------------------------------
(***************************************************************************)
(* The background worker of the AI service: one thread reads events, keeps *)
(* a baseline of each user in a cache whose entries expire and make room   *)
(* for others, saves the changed ones to the database from time to time,   *)
(* and lets a pool of threads post an incident for what a baseline does    *)
(* not know yet.                                                           *)
(***************************************************************************)
EXTENDS Naturals, Sequences, FiniteSets

CONSTANTS
  Users,      \* the users the events name
  Types,      \* the types of events
  Log,        \* the topic nexdefend-events: a sequence of a user and a type
  CacheSize,  \* models in the cache, 1000 in the code
  MaxStarts   \* bound: times the container is started again

ASSUME UebaAssumption ==
  /\ Log \in Seq([user : Users, type : Types])
  /\ CacheSize \in Nat \ {0}
  /\ MaxStarts \in Nat

VARIABLES
  read,      \* how many messages the consumer has polled
  step,      \* where in process_event it is; "ended" when an exception left the loop
  cached,    \* the users in behavior_models whose entry has not expired
  baseline,  \* the counts of each cached model, by type
  dirty,     \* the models that have changed since they were loaded or saved
  stored,    \* the counts in the table ueba_models
  pending,   \* the incidents the executor has not posted yet
  posted,    \* history: the requests to make an incident the executor has sent
  starts,    \* how often the container was started again
  observed,  \* history: the events of each user and type that went into a baseline
  raised,    \* history: the anomalies found
  forgot     \* history: the users of whom counts were lost

modelVars == <<cached, baseline, dirty, stored, forgot>>
alertVars == <<pending, posted, raised>>
uebaVars == <<read, step, modelVars, alertVars, starts, observed>>

Empty == [t \in Types |-> 0]
None == [u \in Users |-> Empty]

UebaInit ==
  /\ read = 0 /\ step = "poll" /\ starts = 0
  /\ cached = {} /\ dirty = {} /\ forgot = {}
  /\ baseline = None /\ stored = None /\ observed = None
  /\ pending = None /\ posted = None /\ raised = None

\* The event process_event is at.
User == Log[read].user
Type == Log[read].type

CountOne(f) == [f EXCEPT ![User][Type] = @ + 1]

--------------------------------------------------------------------------------

\* save_to_db, for models that are dirty: their rows are written.
Written(users) == [u \in Users |-> IF u \in users THEN baseline[u] ELSE stored[u]]

\* A save that takes the flag back before it knows.
SavedHopefully ==
  /\ step = "poll"
  /\ \E written \in SUBSET dirty : stored' = Written(written)
  /\ dirty' = {}
  /\ UNCHANGED <<read, step, cached, baseline, forgot, alertVars, starts, observed>>

\* Every minute.  A failed save keeps the flag, also when the row was written.
PeriodicSave ==
  /\ step = "poll"
  /\ \E written \in SUBSET dirty : \E told \in SUBSET written :
       stored' = Written(written) /\ dirty' = dirty \ told
  /\ UNCHANGED <<read, step, cached, baseline, forgot, alertVars, starts, observed>>

\* Whom the cache gives up for a new entry.  (The order of use is left out.)
Victims == IF Cardinality(cached) < CacheSize THEN {{}} ELSE {{v} : v \in cached}

\* An eviction that saves nothing.
LoadUnsaving(u) ==
  \E out \in Victims :
    /\ cached' = (cached \ out) \cup {u}
    /\ baseline' = [v \in Users |-> IF v = u THEN stored[u] ELSE IF v \in out THEN Empty ELSE baseline[v]]
    /\ dirty' = dirty \ out
    /\ UNCHANGED <<stored, forgot>>

\* A model is constructed from its row, or empty when that cannot be read, and put into
\* the cache; popitem saves the model that has to go.
Load(u) ==
  \E row \in {stored[u], Empty}, out \in Victims : \E written \in SUBSET (out \cap dirty) :
    /\ cached' = (cached \ out) \cup {u}
    /\ baseline' = [v \in Users |-> IF v = u THEN row ELSE IF v \in out THEN Empty ELSE baseline[v]]
    /\ dirty' = dirty \ out
    /\ stored' = Written(written)
    /\ forgot' = forgot \cup ((out \cap dirty) \ written) \cup {v \in {u} : row # stored[u]}

\* poll returns an event; process_event makes sure of a model.
TakeEvent ==
  /\ step = "poll"
  /\ read < Len(Log)
  /\ read' = read + 1
  /\ step' = "detect"
  /\ LET u == Log[read + 1].user
     IN  IF u \in cached THEN UNCHANGED modelVars ELSE Load(u)
  /\ UNCHANGED <<alertVars, starts, observed>>

\* detect_anomalies: a type the baseline has not counted is an anomaly.
Detect ==
  /\ step = "detect"
  /\ User \in cached
  /\ step' = "update"
  /\ IF baseline[User][Type] = 0
     THEN pending' = CountOne(pending) /\ raised' = CountOne(raised)
     ELSE UNCHANGED <<pending, raised>>
  /\ UNCHANGED <<read, modelVars, posted, starts, observed>>

\* update_baseline
Update ==
  /\ step = "update"
  /\ User \in cached
  /\ step' = "poll"
  /\ baseline' = CountOne(baseline)
  /\ dirty' = dirty \cup {User}
  /\ observed' = CountOne(observed)
  /\ UNCHANGED <<read, cached, stored, forgot, alertVars, starts>>

\* An hour after it was put in, a model is gone, saved or not.
Expire(u) ==
  /\ u \in cached
  /\ cached' = cached \ {u}
  /\ baseline' = [baseline EXCEPT ![u] = Empty]
  /\ dirty' = dirty \ {u}
  /\ forgot' = forgot \cup (dirty \cap {u})
  /\ UNCHANGED <<read, step, stored, alertVars, starts, observed>>

\* What memory held is lost: unsaved counts, and an event between its alert and its
\* count.
Lose ==
  /\ cached' = {} /\ dirty' = {} /\ baseline' = None
  /\ forgot' = forgot \cup dirty \cup (IF step = "update" THEN {User} ELSE {})
  /\ UNCHANGED <<stored, posted, raised, observed>>

\* A model has expired since it was found, by process_event or by the loop of the
\* periodic save, which holds a message already: an exception nobody catches ends the
\* worker.  What the executor has is still posted; start.sh does not notice.
MissingKey ==
  /\ \/ step \in {"detect", "update"} /\ User \notin cached /\ UNCHANGED read
     \/ step = "poll" /\ cached # {} /\ read' \in {read, read + 1} \cap 0..Len(Log)
  /\ step' = "ended"
  /\ Lose
  /\ UNCHANGED <<pending, starts>>

\* The container is started again.  The consumer resumes behind the offset that was
\* committed last, the executor's queue is gone.
StartAgain ==
  /\ starts < MaxStarts
  /\ starts' = starts + 1
  /\ step' = "poll"
  /\ read' \in 0..read
  /\ pending' = None
  /\ Lose

\* _send_request: one attempt, whatever the answer.  (CreateIncident refuses it: the
\* disposition "Not Reviewed" is none that its validation knows.)
Post(u, t) ==
  /\ pending[u][t] > 0
  /\ pending' = [pending EXCEPT ![u][t] = @ - 1]
  /\ posted' = [posted EXCEPT ![u][t] = @ + 1]
  /\ UNCHANGED <<read, step, modelVars, raised, starts, observed>>

UebaStep ==
  \/ TakeEvent \/ Detect \/ Update
  \/ PeriodicSave
  \/ \E u \in Users : Expire(u)
  \/ MissingKey
  \/ StartAgain
  \/ \E u \in Users, t \in Types : Post(u, t)

UebaSpec == UebaInit /\ [][UebaStep]_uebaVars

--------------------------------------------------------------------------------

\* What is known of a user is all that was counted, in the cache or in the table:
\* through evictions, failed and repeated saves and loads.  Only an unsaved model that
\* expires, a failed load, or a restart loses counts.
BaselineIsComplete ==
  \A u \in Users \ forgot :
    /\ u \in cached => baseline[u] = observed[u]
    /\ u \notin dirty => stored[u] = observed[u]

\* The first event of a type is an anomaly, posted at most once; no later one is, as
\* long as the worker forgets nothing of the user.
AlertedOnce ==
  \A u \in Users \ forgot, t \in Types :
    /\ observed[u][t] > 0 => raised[u][t] = 1
    /\ posted[u][t] + pending[u][t] <= raised[u][t]
    /\ raised[u][t] <= 1

================================================================================
