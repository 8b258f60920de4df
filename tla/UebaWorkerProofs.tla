---------------------------- MODULE UebaWorkerProofs ----------------------------
(***************************************************************************)
(* Theorems about the worker of the AI service, for any topic, any size of *)
(* the cache, any number of restarts, and whatever expires or fails when.  *)
(***************************************************************************)
EXTENDS UebaWorker, TLAPS

Counts == [Users -> [Types -> Nat]]

WhereTypes ==
  /\ read \in 0..Len(Log)
  /\ step \in {"poll", "detect", "update", "ended"}
  /\ step \in {"detect", "update"} => read > 0
  /\ starts \in Nat

\* Only a cached model is dirty.
ModelTypes ==
  /\ cached \subseteq Users /\ dirty \subseteq cached /\ forgot \subseteq Users
  /\ baseline \in Counts /\ stored \in Counts /\ observed \in Counts

AlertTypes == pending \in Counts /\ posted \in Counts /\ raised \in Counts

\* The event of u and t was looked at and is not counted yet.
Between(u, t) == step = "update" /\ User = u /\ Type = t

\* A type that was counted, or is just about to be, has been raised once, any other never.
Raised ==
  \A u \in Users \ forgot, t \in Types :
    raised[u][t] = IF observed[u][t] > 0 \/ Between(u, t) THEN 1 ELSE 0

\* Every incident that is posted or waits for it was raised.
Queued == \A u \in Users, t \in Types : posted[u][t] + pending[u][t] <= raised[u][t]

UInv == WhereTypes /\ ModelTypes /\ AlertTypes /\ BaselineIsComplete /\ Raised /\ Queued

--------------------------------------------------------------------------------

LEMMA Messages ==
  ASSUME NEW i \in 1..Len(Log)
  PROVE  Log[i].user \in Users /\ Log[i].type \in Types
<1> DEFINE Message == [user : Users, type : Types]
<1>1. Log \in Seq(Message)
  BY UebaAssumption
<1>2. Log[i] \in Message
  <2> HIDE DEF Message
  <2> QED
    BY <1>1
<1> QED
  BY <1>2

LEMMA CurrentEvent ==
  ASSUME WhereTypes, read > 0
  PROVE  User \in Users /\ Type \in Types
<1>1. read \in 1..Len(Log)
  BY UebaAssumption DEF WhereTypes
<1> QED
  BY <1>1, Messages DEF User, Type

LEMMA CountedOne ==
  ASSUME WhereTypes, read > 0, NEW f \in Counts
  PROVE  /\ CountOne(f) \in Counts
         /\ \A u \in Users, t \in Types :
              CountOne(f)[u][t] = IF u = User /\ t = Type THEN f[u][t] + 1 ELSE f[u][t]
         /\ \A u \in Users \ {User} : CountOne(f)[u] = f[u]
<1>1. PICK v \in Users, s \in Types : v = User /\ s = Type
  BY CurrentEvent
<1>2. CountOne(f) = [f EXCEPT ![v] = [f[v] EXCEPT ![s] = f[v][s] + 1]]
  BY <1>1 DEF CountOne
<1> QED
  BY <1>1, <1>2 DEF Counts

LEMMA NoneCounts == None \in Counts /\ \A u \in Users, t \in Types : None[u] = Empty /\ Empty[t] = 0
BY DEF None, Empty, Counts

LEMMA InitHolds == UebaInit => UInv
<1> SUFFICES ASSUME UebaInit PROVE UInv
  OBVIOUS
<1>1. WhereTypes /\ ModelTypes /\ AlertTypes
  BY NoneCounts, UebaAssumption DEF UebaInit, WhereTypes, ModelTypes, AlertTypes
<1>2. BaselineIsComplete
  BY DEF UebaInit, BaselineIsComplete
<1>3. Raised /\ Queued
  BY NoneCounts DEF UebaInit, Raised, Queued, Between
<1> QED
  BY <1>1, <1>2, <1>3 DEF UInv

\* What is written of dirty models is what was observed.
LEMMA WrittenRows ==
  ASSUME ModelTypes, NEW users \in SUBSET dirty
  PROVE  /\ Written(users) \in Counts
         /\ \A u \in users : Written(users)[u] = baseline[u]
         /\ \A u \in Users \ users : Written(users)[u] = stored[u]
BY DEF ModelTypes, Written, Counts

LEMMA VictimsAreCached ==
  ASSUME NEW out \in Victims
  PROVE  out \subseteq cached
BY DEF Victims

--------------------------------------------------------------------------------
\* The steps.

LEMMA PeriodicSaveStep ==
  ASSUME UInv, PeriodicSave
  PROVE  UInv'
<1>1. PICK written \in SUBSET dirty : \E told \in SUBSET written :
        stored' = Written(written) /\ dirty' = dirty \ told
  BY DEF PeriodicSave
<1>2. PICK told \in SUBSET written : stored' = Written(written) /\ dirty' = dirty \ told
  BY <1>1
<1>3. UNCHANGED <<read, step, cached, baseline, forgot, pending, posted, raised, starts, observed>>
  BY DEF PeriodicSave, alertVars
<1>4. WhereTypes' /\ ModelTypes' /\ AlertTypes'
  BY <1>2, <1>3, WrittenRows DEF UInv, WhereTypes, ModelTypes, AlertTypes
<1>5. BaselineIsComplete'
  <2>1. ASSUME NEW u \in Users \ forgot, u \notin dirty' PROVE stored'[u] = observed[u]
    BY <1>2, <2>1, WrittenRows DEF UInv, ModelTypes, BaselineIsComplete
  <2> QED
    BY <1>3, <2>1 DEF UInv, BaselineIsComplete
<1>6. Raised' /\ Queued'
  BY <1>3 DEF UInv, Raised, Queued, Between, User, Type
<1> QED
  BY <1>4, <1>5, <1>6 DEF UInv

\* Making room and loading keep what is known of everybody who is not forgotten.
LEMMA LoadStep ==
  ASSUME UInv, NEW u \in Users \ cached, Load(u), UNCHANGED observed
  PROVE  ModelTypes' /\ BaselineIsComplete' /\ forgot \subseteq forgot'
<1>1. PICK row \in {stored[u], Empty}, out \in Victims : \E written \in SUBSET (out \cap dirty) :
        /\ cached' = (cached \ out) \cup {u}
        /\ baseline' = [v \in Users |-> IF v = u THEN row ELSE IF v \in out THEN Empty ELSE baseline[v]]
        /\ dirty' = dirty \ out
        /\ stored' = Written(written)
        /\ forgot' = forgot \cup ((out \cap dirty) \ written) \cup {v \in {u} : row # stored[u]}
  BY DEF Load
<1>2. PICK written \in SUBSET (out \cap dirty) :
        /\ cached' = (cached \ out) \cup {u}
        /\ baseline' = [v \in Users |-> IF v = u THEN row ELSE IF v \in out THEN Empty ELSE baseline[v]]
        /\ dirty' = dirty \ out
        /\ stored' = Written(written)
        /\ forgot' = forgot \cup ((out \cap dirty) \ written) \cup {v \in {u} : row # stored[u]}
  BY <1>1
<1>3. out \subseteq cached /\ ModelTypes /\ BaselineIsComplete
  BY VictimsAreCached DEF UInv
<1>4. row \in [Types -> Nat] /\ Empty \in [Types -> Nat]
  BY <1>3 DEF ModelTypes, Counts, Empty
<1>5. ModelTypes'
  <2>1. baseline' \in Counts
    BY <1>2, <1>3, <1>4 DEF ModelTypes, Counts
  <2>2. stored' \in Counts
    BY <1>2, <1>3, WrittenRows
  <2> QED
    BY <1>2, <1>3, <2>1, <2>2 DEF ModelTypes
<1>6. ASSUME NEW v \in Users \ forgot', v \in cached' PROVE baseline'[v] = observed[v]
  <2>1. CASE v = u
    <3>1. row = stored[u] /\ u \notin dirty /\ u \notin forgot
      BY <1>2, <1>3, <1>6, <2>1 DEF ModelTypes
    <3> QED
      BY <1>2, <1>3, <2>1, <3>1 DEF BaselineIsComplete
  <2>2. CASE v # u
    <3>1. v \in cached /\ v \notin out /\ v \notin forgot
      BY <1>2, <1>6, <2>2
    <3> QED
      BY <1>2, <1>3, <2>2, <3>1 DEF BaselineIsComplete
  <2> QED
    BY <2>1, <2>2
<1>7. ASSUME NEW v \in Users \ forgot', v \notin dirty' PROVE stored'[v] = observed[v]
  <2>1. v \notin forgot
    BY <1>2, <1>7
  <2>2. CASE v \in written
    BY <1>2, <1>3, <2>1, <2>2, WrittenRows DEF ModelTypes, BaselineIsComplete
  <2>3. CASE v \notin written
    <3>1. v \notin dirty
      BY <1>2, <1>7, <2>3
    <3> QED
      BY <1>2, <1>3, <2>1, <2>3, <3>1, WrittenRows DEF BaselineIsComplete
  <2> QED
    BY <2>2, <2>3
<1> QED
  BY <1>2, <1>5, <1>6, <1>7 DEF BaselineIsComplete

LEMMA TakeEventStep ==
  ASSUME UInv, TakeEvent
  PROVE  UInv'
<1>1. /\ step = "poll" /\ read < Len(Log) /\ read' = read + 1 /\ step' = "detect"
      /\ UNCHANGED <<pending, posted, raised, starts, observed>>
  BY DEF TakeEvent, alertVars
<1>2. ModelTypes' /\ BaselineIsComplete' /\ forgot \subseteq forgot'
  <2>1. read \in Nat /\ read + 1 \in 1..Len(Log)
    BY <1>1, UebaAssumption DEF UInv, WhereTypes
  <2>2. PICK u \in Users : u = Log[read + 1].user
    BY <2>1, Messages
  <2>3. CASE u \in cached
    BY <1>1, <2>2, <2>3 DEF TakeEvent, modelVars, UInv, ModelTypes, BaselineIsComplete
  <2>4. CASE u \notin cached
    <3>1. Load(u)
      BY <2>2, <2>4 DEF TakeEvent
    <3> QED
      BY <1>1, <2>4, <3>1, LoadStep
  <2> QED
    BY <2>3, <2>4
<1>3. WhereTypes' /\ AlertTypes'
  BY <1>1, UebaAssumption DEF UInv, WhereTypes, AlertTypes
<1>4. Raised' /\ Queued'
  BY <1>1, <1>2 DEF UInv, Raised, Queued, Between
<1> QED
  BY <1>2, <1>3, <1>4 DEF UInv

LEMMA DetectStep ==
  ASSUME UInv, Detect
  PROVE  UInv'
<1>1. /\ step = "detect" /\ User \in cached /\ step' = "update"
      /\ UNCHANGED <<read, cached, baseline, dirty, stored, forgot, posted, starts, observed>>
  BY DEF Detect, modelVars
<1>2. WhereTypes /\ ModelTypes /\ AlertTypes /\ read > 0
  BY <1>1 DEF UInv, WhereTypes
<1>3. UNCHANGED <<User, Type>> /\ User \in Users /\ Type \in Types
  BY <1>1, <1>2, CurrentEvent DEF User, Type
<1>4. WhereTypes' /\ ModelTypes' /\ BaselineIsComplete'
  BY <1>1, <1>2 DEF UInv, WhereTypes, ModelTypes, BaselineIsComplete
<1>5. User \notin forgot => baseline[User][Type] = observed[User][Type] /\ observed[User][Type] \in Nat
  BY <1>1, <1>2, <1>3 DEF UInv, BaselineIsComplete, ModelTypes, Counts
<1>6. CASE baseline[User][Type] = 0
  <2>1. pending' = CountOne(pending) /\ raised' = CountOne(raised)
    BY <1>6 DEF Detect
  <2>2. AlertTypes'
    BY <1>1, <1>2, <2>1, CountedOne DEF AlertTypes
  <2>3. ASSUME NEW u \in Users, NEW t \in Types
        PROVE  /\ raised'[u][t] = IF u = User /\ t = Type THEN raised[u][t] + 1 ELSE raised[u][t]
               /\ pending'[u][t] = IF u = User /\ t = Type THEN pending[u][t] + 1 ELSE pending[u][t]
    BY <1>2, <2>1, CountedOne DEF AlertTypes
  <2>4. Queued'
    BY <1>1, <1>2, <2>3 DEF UInv, Queued, AlertTypes, Counts
  <2>5. ASSUME NEW u \in Users \ forgot, NEW t \in Types
        PROVE  raised'[u][t] = IF observed[u][t] > 0 \/ Between(u, t)' THEN 1 ELSE 0
    <3>1. raised[u][t] = IF observed[u][t] > 0 THEN 1 ELSE 0
      BY <1>1 DEF UInv, Raised, Between
    <3>2. Between(u, t)' <=> u = User /\ t = Type
      BY <1>1, <1>3 DEF Between
    <3> QED
      BY <1>5, <1>6, <2>3, <3>1, <3>2
  <2> QED
    BY <1>1, <1>4, <2>2, <2>4, <2>5 DEF UInv, Raised
<1>7. CASE baseline[User][Type] # 0
  <2>1. UNCHANGED <<pending, raised>>
    BY <1>7 DEF Detect
  <2>2. AlertTypes' /\ Queued'
    BY <1>1, <1>2, <2>1 DEF UInv, AlertTypes, Queued
  <2>3. ASSUME NEW u \in Users \ forgot, NEW t \in Types
        PROVE  raised'[u][t] = IF observed[u][t] > 0 \/ Between(u, t)' THEN 1 ELSE 0
    <3>1. raised[u][t] = IF observed[u][t] > 0 THEN 1 ELSE 0
      BY <1>1 DEF UInv, Raised, Between
    <3>2. Between(u, t)' <=> u = User /\ t = Type
      BY <1>1, <1>3 DEF Between
    <3> QED
      BY <1>5, <1>7, <2>1, <3>1, <3>2
  <2> QED
    BY <1>1, <1>4, <2>2, <2>3 DEF UInv, Raised
<1> QED
  BY <1>6, <1>7

LEMMA UpdateStep ==
  ASSUME UInv, Update
  PROVE  UInv'
<1>1. /\ step = "update" /\ User \in cached /\ step' = "poll"
      /\ baseline' = CountOne(baseline) /\ dirty' = dirty \cup {User} /\ observed' = CountOne(observed)
      /\ UNCHANGED <<read, cached, stored, forgot, pending, posted, raised, starts>>
  BY DEF Update, alertVars
<1>2. WhereTypes /\ ModelTypes /\ AlertTypes /\ read > 0
  BY <1>1 DEF UInv, WhereTypes
<1>3. WhereTypes' /\ AlertTypes'
  BY <1>1, <1>2 DEF WhereTypes, AlertTypes
<1>4. ModelTypes'
  BY <1>1, <1>2, CountedOne DEF ModelTypes
<1>5. BaselineIsComplete'
  <2>1. ASSUME NEW u \in Users \ forgot, u \in cached PROVE baseline'[u] = observed'[u]
    <3>1. baseline[u] = observed[u]
      BY <2>1 DEF UInv, BaselineIsComplete
    <3>2. baseline'[u] \in [Types -> Nat] /\ observed'[u] \in [Types -> Nat]
      BY <1>4 DEF ModelTypes, Counts
    <3>3. ASSUME NEW t \in Types PROVE baseline'[u][t] = observed'[u][t]
      BY <1>1, <1>2, <3>1, CountedOne DEF ModelTypes
    <3> QED
      BY <3>2, <3>3
  <2>2. ASSUME NEW u \in Users \ forgot, u \notin dirty' PROVE stored[u] = observed'[u]
    <3>1. u # User /\ u \notin dirty
      BY <1>1, <2>2
    <3>2. observed'[u] = observed[u]
      BY <1>1, <1>2, <3>1, CountedOne DEF ModelTypes
    <3> QED
      BY <3>1, <3>2 DEF UInv, BaselineIsComplete
  <2> QED
    BY <1>1, <2>1, <2>2 DEF BaselineIsComplete
<1>6. Queued'
  BY <1>1 DEF UInv, Queued
<1>7. ASSUME NEW u \in Users \ forgot, NEW t \in Types
      PROVE  raised[u][t] = IF observed'[u][t] > 0 \/ Between(u, t)' THEN 1 ELSE 0
  <2>1. raised[u][t] = IF observed[u][t] > 0 \/ (u = User /\ t = Type) THEN 1 ELSE 0
    BY <1>1 DEF UInv, Raised, Between
  <2>2. /\ observed'[u][t] = IF u = User /\ t = Type THEN observed[u][t] + 1 ELSE observed[u][t]
        /\ observed[u][t] \in Nat
    BY <1>1, <1>2, CountedOne DEF ModelTypes, Counts
  <2>3. ~Between(u, t)'
    BY <1>1 DEF Between
  <2> QED
    BY <2>1, <2>2, <2>3
<1> QED
  BY <1>1, <1>3, <1>4, <1>5, <1>6, <1>7 DEF UInv, Raised

LEMMA ExpireStep ==
  ASSUME UInv, NEW u \in Users, Expire(u)
  PROVE  UInv'
<1>1. /\ u \in cached /\ cached' = cached \ {u} /\ baseline' = [baseline EXCEPT ![u] = Empty]
      /\ dirty' = dirty \ {u} /\ forgot' = forgot \cup (dirty \cap {u})
      /\ UNCHANGED <<read, step, stored, pending, posted, raised, starts, observed>>
  BY DEF Expire, alertVars
<1>2. WhereTypes' /\ AlertTypes'
  BY <1>1 DEF UInv, WhereTypes, AlertTypes
<1>3. ModelTypes'
  <2>1. Empty \in [Types -> Nat]
    BY DEF Empty
  <2>2. baseline' \in Counts
    BY <1>1, <2>1 DEF UInv, ModelTypes, Counts
  <2> QED
    BY <1>1, <2>2 DEF UInv, ModelTypes
<1>4. BaselineIsComplete'
  BY <1>1 DEF UInv, ModelTypes, Counts, BaselineIsComplete
<1>5. Raised' /\ Queued'
  BY <1>1 DEF UInv, Raised, Queued, Between, User, Type
<1> QED
  BY <1>2, <1>3, <1>4, <1>5 DEF UInv

\* The end of the worker and its new start: who has an unsaved model, or an event between
\* its alert and its count, is forgotten.
LEMMA LoseStep ==
  ASSUME UInv, MissingKey \/ StartAgain
  PROVE  UInv'
<1>1. /\ cached' = {} /\ dirty' = {} /\ baseline' = None
      /\ forgot' = forgot \cup dirty \cup (IF step = "update" THEN {User} ELSE {})
      /\ UNCHANGED <<stored, posted, raised, observed>>
      /\ step' \in {"ended", "poll"} /\ starts' \in {starts, starts + 1}
      /\ pending' \in {pending, None}
  BY DEF MissingKey, StartAgain, Lose
<1>2. read' \in 0..Len(Log)
  <2>1. CASE MissingKey
    BY <2>1 DEF MissingKey, UInv, WhereTypes
  <2>2. CASE StartAgain
    BY <2>2, UebaAssumption DEF StartAgain, UInv, WhereTypes
  <2> QED
    BY <2>1, <2>2
<1>3. WhereTypes' /\ AlertTypes'
  BY <1>1, <1>2, NoneCounts DEF UInv, WhereTypes, AlertTypes
<1>4. ModelTypes'
  <2>1. step = "update" => User \in Users
    BY CurrentEvent DEF UInv, WhereTypes
  <2> QED
    BY <1>1, <2>1, NoneCounts DEF UInv, ModelTypes
<1>5. BaselineIsComplete'
  BY <1>1 DEF UInv, BaselineIsComplete
<1>6. Queued'
  BY <1>1, NoneCounts DEF UInv, AlertTypes, Counts, Queued
<1>7. Raised'
  BY <1>1 DEF UInv, Raised, Between
<1> QED
  BY <1>3, <1>4, <1>5, <1>6, <1>7 DEF UInv

LEMMA PostStep ==
  ASSUME UInv, NEW u \in Users, NEW t \in Types, Post(u, t)
  PROVE  UInv'
<1>1. /\ pending[u][t] > 0
      /\ pending' = [pending EXCEPT ![u] = [pending[u] EXCEPT ![t] = pending[u][t] - 1]]
      /\ posted' = [posted EXCEPT ![u] = [posted[u] EXCEPT ![t] = posted[u][t] + 1]]
      /\ UNCHANGED <<read, step, cached, baseline, dirty, stored, forgot, raised, starts, observed>>
  BY DEF Post, modelVars
<1>2. WhereTypes' /\ ModelTypes' /\ BaselineIsComplete' /\ Raised'
  BY <1>1 DEF UInv, WhereTypes, ModelTypes, BaselineIsComplete, Raised, Between, User, Type
<1>3. AlertTypes'
  BY <1>1 DEF UInv, AlertTypes, Counts
<1>4. Queued'
  BY <1>1 DEF UInv, AlertTypes, Counts, Queued
<1> QED
  BY <1>2, <1>3, <1>4 DEF UInv

LEMMA StepHolds == UInv /\ [UebaStep]_uebaVars => UInv'
<1> SUFFICES ASSUME UInv, [UebaStep]_uebaVars PROVE UInv'
  OBVIOUS
<1>1. CASE TakeEvent \/ Detect \/ Update \/ PeriodicSave
  BY <1>1, TakeEventStep, DetectStep, UpdateStep, PeriodicSaveStep
<1>2. CASE \E u \in Users : Expire(u)
  BY <1>2, ExpireStep
<1>3. CASE MissingKey \/ StartAgain
  BY <1>3, LoseStep
<1>4. CASE \E u \in Users, t \in Types : Post(u, t)
  BY <1>4, PostStep
<1>5. CASE UNCHANGED uebaVars
  BY <1>5 DEF UInv, WhereTypes, ModelTypes, AlertTypes, BaselineIsComplete, Raised, Queued, Between, User,
              Type, uebaVars, modelVars, alertVars
<1> QED
  BY <1>1, <1>2, <1>3, <1>4, <1>5 DEF UebaStep

LEMMA Invariance == UebaSpec => []UInv
<1> QED
  BY InitHolds, StepHolds, PTL DEF UebaSpec

\* Every event that went into a baseline is in the cache or in the table, for any size of
\* the cache and any failures of saves, unless counts of its user were lost.
THEOREM NothingIsForgotten == UebaSpec => []BaselineIsComplete
<1>1. UInv => BaselineIsComplete
  BY DEF UInv
<1> QED
  BY <1>1, Invariance, PTL

\* The first event of a type is raised, and posted at most once, and no later one is, for
\* a user of whom nothing was lost.
THEOREM AlertsComeOnce == UebaSpec => []AlertedOnce
<1>1. ASSUME UInv, NEW u \in Users \ forgot, NEW t \in Types
      PROVE  /\ observed[u][t] > 0 => raised[u][t] = 1
             /\ posted[u][t] + pending[u][t] <= raised[u][t]
             /\ raised[u][t] <= 1
  BY <1>1 DEF UInv, Raised, Queued
<1>2. UInv => AlertedOnce
  BY <1>1 DEF AlertedOnce
<1> QED
  BY <1>2, Invariance, PTL

================================================================================
