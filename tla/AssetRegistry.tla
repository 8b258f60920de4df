----------------------------- MODULE AssetRegistry -----------------------------
(***************************************************************************)
(* The rows of one host in the table of assets: its agent's heartbeats,    *)
(* the edits of users, and the job that marks silent hosts offline.        *)
(***************************************************************************)
EXTENDS RowHandlers

CONSTANTS
  Bodies,    \* bound: what users send of an asset, by a name: each body has some of its fields
  MaxWrites  \* bound: how often users write: they create, edit or delete an asset

VARIABLES
  created,  \* the ids the database has given out
  writes    \* how often users have written

counts == <<created, writes>>

Write == writes < MaxWrites /\ writes' = writes + 1

\* Age counts the collector's ticks since last_heartbeat, up to the first at which it
\* is surely longer ago than ten minutes: two ticks of five minutes and what was left
\* of the one before.
Silent == 3

\* The name is the agent's host or not.  The address stands for all that a heartbeat
\* reports, the criticality for what only users write.  The last two are history: who
\* wrote the name, and who wrote the status and the age.
AssetRow ==
  [there : {TRUE}, name : {"host", "other"}, address : {"none", "reported", "edited"},
   status : {"none", "online", "offline"}, age : 0..Silent, criticality : {"none", "high"},
   nameBy : {"agent", "user"}, statusBy : {"agent", "user"}]

\* What a body says of a field, or what the field was.
Of(body, field, old) == IF field \in DOMAIN body THEN body[field] ELSE old

Decoded(row, body) ==
  [there |-> TRUE, name |-> Of(body, "name", row.name), address |-> Of(body, "address", row.address),
   status |-> Of(body, "status", row.status), age |-> Of(body, "age", row.age),
   criticality |-> Of(body, "criticality", row.criticality),
   nameBy |-> IF "name" \in DOMAIN body THEN "user" ELSE row.nameBy,
   statusBy |-> IF {"status", "age"} \cap DOMAIN body # {} THEN "user" ELSE row.statusBy]

\* A struct before its body is decoded, and the row the agent's first heartbeat makes.
Blank ==
  [there |-> TRUE, name |-> "other", address |-> "none", status |-> "none", age |-> Silent,
   criticality |-> "none", nameBy |-> "user", statusBy |-> "user"]

Reported ==
  [there |-> TRUE, name |-> "host", address |-> "reported", status |-> "online", age |-> 0,
   criticality |-> "none", nameBy |-> "agent", statusBy |-> "agent"]

\* What a heartbeat changes of a row.
Refreshed(row) ==
  [there |-> TRUE, name |-> row.name, address |-> "reported", status |-> "online", age |-> 0,
   criticality |-> row.criticality, nameBy |-> row.nameBy, statusBy |-> "agent"]

\* What users were told of a row that is there: a value of a field, or "any".
NothingSaid == [there |-> TRUE, name |-> "any", address |-> "any", status |-> "any", criticality |-> "any"]

Said(said, body) ==
  [there |-> said.there, name |-> Of(body, "name", said.name), address |-> Of(body, "address", said.address),
   status |-> Of(body, "status", said.status), criticality |-> Of(body, "criticality", said.criticality)]

\* A heartbeat takes its fields back, and the collector the status of a silent host.
Released(said) ==
  [there |-> said.there, name |-> said.name, address |-> "any", status |-> "any",
   criticality |-> said.criticality]

\* The rows of the agent's host.
Known == {id \in AssetIds : Exists(id) /\ table[id].name = "host"}

First == {id \in Known : \A other \in Known : id <= other}

Insert(asset, said) ==
  /\ created < MaxAssets
  /\ created' = created + 1
  /\ table' = [table EXCEPT ![created + 1] = asset]
  /\ agreed' = [agreed EXCEPT ![created + 1] = said]
  /\ UNCHANGED torn

--------------------------------------------------------------------------------

NoneYet(h) ==
  /\ work[h] = Idle
  /\ work' = [work EXCEPT ![h] = [Idle EXCEPT !.op = "register"]]
  /\ UNCHANGED <<table, agreed, torn>>

\* A heartbeat that registers its host whenever it is not online.
HeartbeatReadsOnline(h) ==
  LET online == {id \in Known : table[id].status = "online"}
  IN  /\ \/ \E id \in online : Read(h, "heartbeat", id, "none", Refreshed(table[id]))
         \/ online = {} /\ NoneYet(h)
      /\ UNCHANGED counts

\* A heartbeat whose body replaces the row.
HeartbeatReadsBody(h) ==
  /\ \/ \E id \in First : Read(h, "heartbeat", id, "none", Reported)
     \/ Known = {} /\ NoneYet(h)
  /\ UNCHANGED counts

\* Heartbeat: the first row of the hostname, or none yet.
HeartbeatReads(h) ==
  /\ \/ \E id \in First : Read(h, "heartbeat", id, "none", Refreshed(table[id]))
     \/ Known = {} /\ NoneYet(h)
  /\ UNCHANGED counts

\* The table is made from the struct, whose index on the hostname is not unique.
HeartbeatRegisters(h) ==
  /\ work[h].op = "register"
  /\ Insert(Reported, NothingSaid)
  /\ UNCHANGED writes
  /\ work' = [work EXCEPT ![h] = Idle]

\* From here on the row is as reported, whatever users wrote of that before.
HeartbeatSaves(h) ==
  /\ Save(h, "heartbeat")
  /\ agreed' = [agreed EXCEPT ![work[h].id] = Released(@)]
  /\ UNCHANGED counts

--------------------------------------------------------------------------------

\* CreateAsset: one statement.
CreateAsset(b) ==
  /\ Write
  /\ Insert(Decoded(Blank, Bodies[b]), Said(NothingSaid, Bodies[b]))
  /\ UNCHANGED work

\* UpdateAsset: the body is decoded over the copy.  Bound: its id, if any, is that of the path.
UpdateAssetReads(h) ==
  /\ \E id \in AssetIds, b \in DOMAIN Bodies : Read(h, "edit", id, b, Decoded(table[id], Bodies[b]))
  /\ Write
  /\ UNCHANGED created

UpdateAssetSaves(h) ==
  /\ Save(h, "edit")
  /\ agreed' = [agreed EXCEPT ![work[h].id] = Said(@, Bodies[work[h].arg])]
  /\ UNCHANGED counts

\* DeleteAsset: one statement, also for an id that is not there.
DeleteAsset(id) ==
  /\ Exists(id)
  /\ Write
  /\ table' = [table EXCEPT ![id] = Absent]
  /\ work' = Outdated(id)
  /\ agreed' = [agreed EXCEPT ![id] = [@ EXCEPT !.there = FALSE]]
  /\ UNCHANGED <<torn, created>>

--------------------------------------------------------------------------------
\* The collector.

Older(row) == IF row.there /\ row.age < Silent THEN [row EXCEPT !.age = @ + 1] ELSE row

\* A threshold of five minutes.
MarkedEarly(row) ==
  IF row.there /\ row.age >= Silent - 1 THEN [row EXCEPT !.status = "offline"] ELSE row

Marked(row) == IF row.there /\ row.age = Silent THEN [row EXCEPT !.status = "offline"] ELSE row

\* Five minutes pass for the rows and for the copies of them.  Bound: one tick, not two,
\* may fall into the time a request takes.
Pass(rows) ==
  /\ \A h \in Handlers : ~work[h].late
  /\ table' = rows
  /\ work' = [h \in Handlers |->
                IF work[h] = Idle THEN Idle ELSE [work[h] EXCEPT !.row = Older(@), !.late = TRUE]]
  /\ UNCHANGED <<torn, counts>>

\* StartActiveAgentCollector: one statement, which may fail.
Sweep ==
  /\ Pass([id \in Ids |-> Marked(Older(table[id]))])
  /\ agreed' = [id \in Ids |->
       IF Exists(id) /\ table'[id].age = Silent THEN [agreed[id] EXCEPT !.status = "any"] ELSE agreed[id]]

SweepFails == Pass([id \in Ids |-> Older(table[id])]) /\ UNCHANGED agreed

================================================================================
