----------------------------- MODULE RegistryProofs -----------------------------
(***************************************************************************)
(* For any number of requests at a time, of assets and of edits, whatever  *)
(* fields they have: what a user was told is stored stays until the next   *)
(* one writes it, but for a save that was overtaken; a row its agent has   *)
(* refreshed is online; and an agent makes few rows.                       *)
(***************************************************************************)
EXTENDS Registry, FiniteSetTheorems, TLAPS

IncidentRow == [there : {TRUE}, status : Statuses, notes : SUBSET Notes]

Work ==
  [op : {"idle", "register", "heartbeat", "edit", "incident"}, id : Ids,
   row : {Absent} \cup AssetRow \cup IncidentRow, arg : {"none"} \cup DOMAIN Bodies \cup Notes \cup Statuses,
   stale : BOOLEAN, late : BOOLEAN]

Promise ==
  [there : BOOLEAN, name : {"any", "host", "other"}, address : {"any", "none", "reported", "edited"},
   status : {"any", "none", "online", "offline"}, criticality : {"any", "none", "high"}]

Types ==
  /\ table \in [Ids -> {Absent} \cup AssetRow \cup IncidentRow]
  /\ table[IncidentId] \in {Absent} \cup IncidentRow
  /\ \A id \in AssetIds : table[id] \in {Absent} \cup AssetRow
  /\ work \in [Handlers -> Work]
  /\ agreed \in [Ids -> Promise \cup {"none"} \cup Statuses]
  /\ \A id \in AssetIds : agreed[id] \in Promise
  /\ torn \subseteq Ids
  /\ created \in 0..MaxAssets
  /\ noted \subseteq Notes

\* No id is used before the database gives it out.
Unused == \A id \in AssetIds : id > created => table[id] = Absent

OnlineRow(row) == row.statusBy = "agent" /\ row.age < Silent => row.status = "online"

\* What users will have been told of a row when the copy w of it is saved.
WillSay(w) == IF w.op = "edit" THEN Said(agreed[w.id], Bodies[w.arg]) ELSE Released(agreed[w.id])

\* A copy that nobody has overtaken is one of a row that is there, and keeps what users
\* will have been told.
Holding(h) ==
  LET w == work[h] IN
  /\ w.op \in {"idle", "register"} => w.row = Absent
  /\ w.op \in {"heartbeat", "edit"} =>
       /\ w.id \in 1..created
       /\ w.row \in AssetRow
       /\ w.op = "edit" => w.arg \in DOMAIN Bodies
       /\ OnlineRow(w.row)
       /\ ~w.stale => Exists(w.id)
       /\ ~w.stale /\ w.id \notin torn => Keeps(w.row, WillSay(w))
  /\ w.op = "incident" =>
       /\ w.id = IncidentId
       /\ w.row \in IncidentRow
       /\ Exists(IncidentId)
       /\ w.arg \in Notes \cup Statuses
       /\ ~w.stale =>
            IF w.arg \in Notes
            THEN w.row.status = table[IncidentId].status /\ w.row.notes = table[IncidentId].notes \cup {w.arg}
            ELSE w.row.status = w.arg /\ w.row.notes = table[IncidentId].notes

IInv ==
  /\ Types
  /\ Unused
  /\ \A h \in Handlers : Holding(h)
  /\ EditsAreKept
  /\ ReportingHostIsOnline
  /\ NotesAreKept
  /\ ~Exists(IncidentId) => noted = {}

--------------------------------------------------------------------------------

LEMMA Numbers ==
  /\ MaxAssets \in Nat /\ IncidentId = 0 /\ Ids = 0..MaxAssets /\ AssetIds = 1..MaxAssets
  /\ IncidentId \notin AssetIds /\ IncidentId \in Ids /\ AssetIds \subseteq Ids
  BY RegistryAssumption DEF Ids, AssetIds, IncidentId

LEMMA Rows ==
  /\ Absent.there = FALSE
  /\ \A r \in AssetRow \cup IncidentRow : r.there = TRUE /\ r # Absent
  /\ Idle \in Work /\ Idle.row = Absent /\ Idle.op = "idle"
<1>1. Absent.there = FALSE
  BY DEF Absent
<1>2. \A r \in AssetRow : r.there = TRUE
  BY DEF AssetRow
<1>3. \A r \in IncidentRow : r.there = TRUE
  BY DEF IncidentRow
<1>4. Idle \in Work
  <2>1. Idle.row \in {Absent} \cup AssetRow \cup IncidentRow
    BY DEF Idle
  <2> HIDE DEF Absent, AssetRow, IncidentRow
  <2> QED
    BY <2>1, Numbers DEF Idle, Work
<1>5. Idle.row = Absent /\ Idle.op = "idle"
  BY DEF Idle
<1> QED
  BY <1>1, <1>2, <1>3, <1>4, <1>5

--------------------------------------------------------------------------------
\* What the changes do to a row, and to what users were told of it.

LEMMA BodyTypes ==
  ASSUME NEW b \in DOMAIN Bodies
  PROVE  /\ "name" \in DOMAIN Bodies[b] => Bodies[b]["name"] \in {"host", "other"}
         /\ "address" \in DOMAIN Bodies[b] => Bodies[b]["address"] \in {"none", "reported", "edited"}
         /\ "status" \in DOMAIN Bodies[b] => Bodies[b]["status"] \in {"none", "online", "offline"}
         /\ "age" \in DOMAIN Bodies[b] => Bodies[b]["age"] \in 0..Silent
         /\ "criticality" \in DOMAIN Bodies[b] => Bodies[b]["criticality"] \in {"none", "high"}
<1> DEFINE body == Bodies[b]
<1>1. Decoded(Blank, body) \in AssetRow
  BY RegistryAssumption
<1> HIDE DEF body
<1>2. /\ "name" \in DOMAIN body => body["name"] \in {"host", "other"}
      /\ "address" \in DOMAIN body => body["address"] \in {"none", "reported", "edited"}
      /\ "status" \in DOMAIN body => body["status"] \in {"none", "online", "offline"}
      /\ "age" \in DOMAIN body => body["age"] \in 0..Silent
      /\ "criticality" \in DOMAIN body => body["criticality"] \in {"none", "high"}
  BY <1>1 DEF Decoded, AssetRow, Of
<1> QED
  BY <1>2 DEF body

\* A body that says nothing of the status and of the last heartbeat leaves both.
LEMMA DecodedRow ==
  ASSUME NEW row \in AssetRow, NEW b \in DOMAIN Bodies
  PROVE  /\ Decoded(row, Bodies[b]) \in AssetRow
         /\ OnlineRow(row) => OnlineRow(Decoded(row, Bodies[b]))
<1> DEFINE body == Bodies[b]
<1>1. /\ "name" \in DOMAIN body => body["name"] \in {"host", "other"}
      /\ "address" \in DOMAIN body => body["address"] \in {"none", "reported", "edited"}
      /\ "status" \in DOMAIN body => body["status"] \in {"none", "online", "offline"}
      /\ "age" \in DOMAIN body => body["age"] \in 0..Silent
      /\ "criticality" \in DOMAIN body => body["criticality"] \in {"none", "high"}
  BY BodyTypes
<1> HIDE DEF body
<1>2. Decoded(row, body) \in AssetRow
  BY <1>1 DEF Decoded, AssetRow, Of
<1>3. OnlineRow(row) => OnlineRow(Decoded(row, body))
  BY DEF Decoded, Of, OnlineRow
<1> QED
  BY <1>2, <1>3 DEF body

LEMMA SaidPromise ==
  ASSUME NEW said \in Promise, NEW b \in DOMAIN Bodies
  PROVE  Said(said, Bodies[b]) \in Promise /\ Said(said, Bodies[b]).there = said.there
<1> DEFINE body == Bodies[b]
<1>1. /\ "name" \in DOMAIN body => body["name"] \in {"host", "other"}
      /\ "address" \in DOMAIN body => body["address"] \in {"none", "reported", "edited"}
      /\ "status" \in DOMAIN body => body["status"] \in {"none", "online", "offline"}
      /\ "criticality" \in DOMAIN body => body["criticality"] \in {"none", "high"}
  BY BodyTypes
<1> HIDE DEF body
<1>2. Said(said, body) \in Promise /\ Said(said, body).there = said.there
  BY <1>1 DEF Said, Promise, Of
<1> QED
  BY <1>2 DEF body

LEMMA ReleasedPromise ==
  ASSUME NEW said \in Promise
  PROVE  Released(said) \in Promise /\ Released(said).there = said.there
  BY DEF Released, Promise

LEMMA RefreshedRow ==
  ASSUME NEW row \in AssetRow
  PROVE  Refreshed(row) \in AssetRow /\ OnlineRow(Refreshed(row))
  BY DEF Refreshed, AssetRow, Silent, OnlineRow

\* Each change of a row goes with the change of what is said of it.
LEMMA ChangesKeep ==
  ASSUME NEW row, NEW said, Keeps(row, said)
  PROVE  /\ \A body : Keeps(Decoded(row, body), Said(said, body))
         /\ Keeps(Refreshed(row), Released(said))
  BY DEF Released, Keeps, Decoded, Said, Of, Refreshed

LEMMA NothingSaidHolds ==
  NothingSaid \in Promise /\ NothingSaid.there = TRUE /\ \A row : Keeps(row, NothingSaid)
  BY DEF NothingSaid, Promise, Keeps

LEMMA InitHolds == Init => IInv
<1> SUFFICES ASSUME Init PROVE IInv
  OBVIOUS
<1> USE Rows, RegistryAssumption
<1>1. Types
  BY NothingSaidHolds DEF Init, Types, Ids, AssetIds, IncidentId
<1>2. Unused
  BY DEF Init, Unused, Ids, AssetIds
<1>3. \A h \in Handlers : Holding(h)
  BY DEF Init, Holding, Idle
<1>4. EditsAreKept /\ ReportingHostIsOnline /\ NotesAreKept
  BY DEF Init, EditsAreKept, ReportingHostIsOnline, NotesAreKept, Exists, Absent, NothingSaid, Ids, AssetIds, IncidentId
<1> QED
  BY <1>1, <1>2, <1>3, <1>4 DEF IInv, Init

--------------------------------------------------------------------------------
\* The steps of one handler.

\* A handler reads: nothing but its own copy changes.
LEMMA ReadStep ==
  ASSUME IInv, NEW h \in Handlers, NEW w \in Work, work' = [work EXCEPT ![h] = w],
         UNCHANGED <<table, agreed, torn, created, noted>>,
         Holding(h)'
  PROVE  IInv'
<1>1. Types'
  BY DEF IInv, Types
<1>2. \A g \in Handlers : Holding(g)'
  <2> TAKE g \in Handlers
  <2>1. CASE g = h
    BY <2>1
  <2>2. CASE g # h
    <3>1. work'[g] = work[g]
      BY <2>2 DEF IInv, Types
    <3> QED
      BY <3>1 DEF IInv, Holding, Exists, WillSay
  <2> QED
    BY <2>1, <2>2
<1>3. Unused' /\ EditsAreKept' /\ ReportingHostIsOnline' /\ NotesAreKept' /\ (~Exists(IncidentId) => noted = {})'
  BY DEF IInv, Unused, EditsAreKept, ReportingHostIsOnline, NotesAreKept, Exists
<1> QED
  BY <1>1, <1>2, <1>3 DEF IInv

\* The parts of the invariant, for a step that is about one row.
LEMMA HeartbeatReadsStep ==
  ASSUME IInv, NEW h \in Handlers, HeartbeatReads(h), UNCHANGED noted
  PROVE  IInv'
<1> USE Rows, Numbers
<1>1. CASE NoneYet(h)
  <2> DEFINE w == [Idle EXCEPT !.op = "register"]
  <2>1. w \in Work /\ w.row = Absent /\ w.op = "register"
    BY DEF Work
  <2>2. work' = [work EXCEPT ![h] = w] /\ UNCHANGED <<table, agreed, torn, created, noted>>
    BY <1>1 DEF NoneYet, HeartbeatReads, counts
  <2> HIDE DEF w
  <2>3. work'[h] = w
    BY <2>2 DEF IInv, Types
  <2>4. Holding(h)'
    BY <2>1, <2>3 DEF Holding
  <2> QED
    BY <2>1, <2>2, <2>4, ReadStep
<1>2. ASSUME NEW id \in First,
             Read(h, "heartbeat", id, "none", Refreshed(table[id])),
             UNCHANGED counts
      PROVE  IInv'
  <2> DEFINE row == Refreshed(table[id])
             w == [Idle EXCEPT !.op = "heartbeat", !.id = id, !.arg = "none", !.row = row]
  <2>1. id \in AssetIds /\ Exists(id) /\ table[id] \in AssetRow
    BY <1>2 DEF First, Known, IInv, Types, Exists
  <2>2. id \in 1..created
    BY <2>1 DEF IInv, Types, Unused, Exists
  <2>3. /\ row \in AssetRow /\ OnlineRow(row)
        /\ id \notin torn => Keeps(row, Released(agreed[id]))
    BY <2>1, RefreshedRow, ChangesKeep DEF IInv, EditsAreKept
  <2> HIDE DEF row
  <2>4. /\ w \in Work /\ w.op = "heartbeat" /\ w.id = id /\ w.row = row
    BY <2>1, <2>3 DEF Work, Idle
  <2>5. work' = [work EXCEPT ![h] = w] /\ UNCHANGED <<table, agreed, torn, created, noted>>
    BY <1>2 DEF Read, row, counts
  <2> HIDE DEF w
  <2>6. work'[h] = w
    BY <2>5 DEF IInv, Types
  <2>7. Holding(h)'
    BY <2>1, <2>2, <2>3, <2>4, <2>5, <2>6 DEF Holding, Exists, WillSay
  <2> QED
    BY <2>4, <2>5, <2>7, ReadStep
<1> QED
  BY <1>1, <1>2 DEF HeartbeatReads

LEMMA UpdateAssetReadsStep ==
  ASSUME IInv, NEW h \in Handlers, UpdateAssetReads(h), UNCHANGED noted
  PROVE  IInv'
<1> USE Rows, Numbers
<1>1. PICK id \in AssetIds, b \in DOMAIN Bodies : Read(h, "edit", id, b, Decoded(table[id], Bodies[b]))
  BY DEF UpdateAssetReads
<1> DEFINE row == Decoded(table[id], Bodies[b])
           w == [Idle EXCEPT !.op = "edit", !.id = id, !.arg = b, !.row = row]
<1>2. Exists(id) /\ table[id] \in AssetRow
  BY <1>1 DEF Read, IInv, Types, Exists
<1>3. id \in 1..created
  BY <1>2 DEF IInv, Types, Unused, Exists
<1>4. row \in AssetRow /\ OnlineRow(row)
  BY <1>2, DecodedRow DEF IInv, ReportingHostIsOnline, OnlineRow
<1>5. id \notin torn => Keeps(row, Said(agreed[id], Bodies[b]))
  BY <1>2, ChangesKeep DEF IInv, EditsAreKept
<1> HIDE DEF row
<1>6. w \in Work /\ w.op = "edit" /\ w.id = id /\ w.row = row /\ w.arg = b
  BY <1>4 DEF Work, Idle
<1>7. work' = [work EXCEPT ![h] = w] /\ UNCHANGED <<table, agreed, torn, created, noted>>
  BY <1>1 DEF Read, row, UpdateAssetReads, Write
<1> HIDE DEF w
<1>8. work'[h] = w
  BY <1>7 DEF IInv, Types
<1>9. Holding(h)'
  BY <1>2, <1>3, <1>4, <1>5, <1>6, <1>7, <1>8 DEF Holding, Exists, WillSay
<1> QED
  BY <1>6, <1>7, <1>9, ReadStep

LEMMA UpdateIncidentReadsStep ==
  ASSUME IInv, NEW h \in Handlers, NEW change \in Notes \cup Statuses,
         UpdateIncidentReads(h, change), UNCHANGED counts
  PROVE  IInv'
<1> USE Rows, Numbers
<1> DEFINE old == table[IncidentId]
           row == IF change \in Notes THEN [old EXCEPT !.notes = @ \cup {change}]
                  ELSE [old EXCEPT !.status = change]
           w == [Idle EXCEPT !.op = "incident", !.id = IncidentId, !.arg = change, !.row = row]
<1>1. Exists(IncidentId) /\ old \in IncidentRow
  BY DEF UpdateIncidentReads, Read, IInv, Types, Exists
<1>2. /\ row \in IncidentRow
      /\ IF change \in Notes
         THEN row.status = old.status /\ row.notes = old.notes \cup {change}
         ELSE row.status = change /\ row.notes = old.notes
  BY <1>1 DEF IncidentRow
<1>3. work' = [work EXCEPT ![h] = w] /\ UNCHANGED <<table, agreed, torn, created, noted>>
  BY DEF UpdateIncidentReads, Read, counts
<1> HIDE DEF row
<1>4. w \in Work /\ w.op = "incident" /\ w.id = IncidentId /\ w.row = row /\ w.arg = change
  BY <1>2 DEF Work, Idle
<1> HIDE DEF w
<1>5. work'[h] = w
  BY <1>3 DEF IInv, Types
<1>6. Holding(h)'
  BY <1>1, <1>2, <1>3, <1>4, <1>5 DEF Holding, Exists
<1> QED
  BY <1>3, <1>4, <1>6, ReadStep

LEMMA FailsStep ==
  ASSUME IInv, NEW h \in Handlers, Refused(h)
  PROVE  IInv'
<1> USE Rows, Numbers
<1>1. work' = [work EXCEPT ![h] = Idle] /\ UNCHANGED <<table, agreed, torn, created, noted>>
  BY DEF Refused, Fails, counts
<1>2. work'[h] = Idle
  BY <1>1 DEF IInv, Types
<1>3. Holding(h)'
  BY <1>2 DEF Holding
<1> QED
  BY <1>1, <1>3, ReadStep

--------------------------------------------------------------------------------

\* A handler saves its copy of an asset: a, what the row's users have been told.
LEMMA AssetSaved ==
  ASSUME IInv, NEW h \in Handlers, NEW op \in {"heartbeat", "edit"}, Save(h, op),
         agreed' = [agreed EXCEPT ![work[h].id] = WillSay(work[h])],
         UNCHANGED <<created, noted>>
  PROVE  IInv'
<1> USE Rows, Numbers
<1> DEFINE id == work[h].id
           row == work[h].row
           a == WillSay(work[h])
<1>1. /\ id \in 1..created /\ id \in AssetIds /\ row \in AssetRow /\ OnlineRow(row)
      /\ ~work[h].stale => Exists(id)
      /\ ~work[h].stale /\ id \notin torn => Keeps(row, a)
  BY DEF Save, IInv, Types, Holding
<1>2. /\ table' = [table EXCEPT ![id] = row]
      /\ work' = [Outdated(id) EXCEPT ![h] = Idle]
      /\ torn' = IF work[h].stale THEN torn \cup {id} ELSE torn
      /\ agreed' = [agreed EXCEPT ![id] = a]
      /\ UNCHANGED <<created, noted>>
  BY DEF Save
<1>3. a \in Promise /\ a.there = agreed[id].there
  <2>1. agreed[id] \in Promise /\ (work[h].op = "edit" => work[h].arg \in DOMAIN Bodies)
    BY <1>1 DEF IInv, Types, Holding
  <2> QED
    BY <2>1, SaidPromise, ReleasedPromise DEF WillSay
<1> HIDE DEF id, row, a
<1>4. work'[h] = Idle
  BY <1>2 DEF Outdated
<1>5. \A g \in Handlers \ {h} :
        IF work[g].row.there /\ work[g].id = id THEN work'[g] = [work[g] EXCEPT !.stale = TRUE]
        ELSE work'[g] = work[g]
  BY <1>2 DEF Outdated
<1>6. Types'
  <2>1. work' \in [Handlers -> Work]
    <3>1. ASSUME NEW g \in Handlers PROVE work'[g] \in Work
      <4>1. work[g] \in Work /\ [work[g] EXCEPT !.stale = TRUE] \in Work
        BY DEF IInv, Types, Work
      <4> QED
        BY <4>1, <1>4, <1>5
    <3>2. work' = [g \in Handlers |-> work'[g]]
      BY <1>2 DEF Outdated
    <3> QED
      BY <3>1, <3>2
  <2>2. table' \in [Ids -> {Absent} \cup AssetRow \cup IncidentRow]
        /\ table'[IncidentId] = table[IncidentId]
        /\ \A i \in AssetIds : table'[i] \in {Absent} \cup AssetRow
    BY <1>1, <1>2 DEF IInv, Types
  <2>3. agreed' \in [Ids -> Promise \cup {"none"} \cup Statuses] /\ \A i \in AssetIds : agreed'[i] \in Promise
    <3>1. /\ agreed \in [Ids -> Promise \cup {"none"} \cup Statuses]
          /\ \A i \in AssetIds : agreed[i] \in Promise
      BY DEF IInv, Types
    <3>2. agreed' = [agreed EXCEPT ![id] = a] /\ id \in AssetIds /\ a \in Promise
      BY <1>1, <1>2, <1>3
    <3>3. ASSUME NEW i \in Ids PROVE agreed'[i] = IF i = id THEN a ELSE agreed[i]
      BY <3>1, <3>2
    <3>4. agreed' = [i \in Ids |-> agreed'[i]]
      BY <3>1, <3>2
    <3>5. \A i \in AssetIds : agreed'[i] \in Promise
      BY <3>1, <3>2, <3>3
    <3>6. \A i \in Ids : agreed'[i] \in Promise \cup {"none"} \cup Statuses
      BY <3>1, <3>2, <3>3
    <3> QED
      BY <3>4, <3>5, <3>6
  <2>5. torn \subseteq Ids /\ id \in Ids
    BY <1>1 DEF IInv, Types
  <2>6. torn' \subseteq Ids
    BY <1>2, <2>5
  <2>4. table'[IncidentId] \in {Absent} \cup IncidentRow /\ created' \in 0..MaxAssets /\ noted' \subseteq Notes
    BY <1>2, <2>2 DEF IInv, Types
  <2> QED
    BY <2>1, <2>2, <2>3, <2>4, <2>6 DEF Types
<1>7. \A i \in Ids \ {id} : table'[i] = table[i] /\ agreed'[i] = agreed[i]
  BY <1>2 DEF IInv, Types
<1>8. table'[id] = row /\ agreed'[id] = a
  BY <1>1, <1>2 DEF IInv, Types
<1>9. Unused'
  BY <1>1, <1>2, <1>7 DEF IInv, Unused, Types
<1>10. \A g \in Handlers : Holding(g)'
  <2> TAKE g \in Handlers
  <2>1. CASE g = h
    BY <2>1, <1>4 DEF Holding
  <2>2. CASE g # h /\ work[g].row.there /\ work[g].id = id
    <3>1. work'[g] = [work[g] EXCEPT !.stale = TRUE] /\ work[g] \in Work /\ Holding(g)
      BY <2>2, <1>5 DEF IInv, Types
    <3>2. /\ work'[g].op = work[g].op /\ work'[g].id = id /\ work'[g].row = work[g].row
          /\ work'[g].stale /\ work'[g].arg = work[g].arg
      BY <2>2, <3>1 DEF Work
    <3>3. work[g].op # "incident"
      BY <2>2, <3>1, <1>1 DEF Holding
    <3> QED
      BY <2>2, <3>1, <3>2, <3>3, <1>2 DEF Holding
  <2>3. CASE g # h /\ ~(work[g].row.there /\ work[g].id = id)
    <3>1. work'[g] = work[g] /\ work[g] \in Work /\ Holding(g)
      BY <2>3, <1>5 DEF IInv, Types
    <3>2. work[g].op \in {"heartbeat", "edit"} => work[g].id # id /\ work[g].id \in AssetIds
      BY <2>3, <3>1, <1>1 DEF Holding, IInv, Types
    <3> QED
      BY <3>1, <3>2, <1>1, <1>2, <1>7 DEF Holding, Exists, WillSay
  <2> QED
    BY <2>1, <2>2, <2>3
<1>11. EditsAreKept'
  <2> SUFFICES ASSUME NEW i \in AssetIds, i \notin torn'
               PROVE  (IF agreed[i].there THEN Exists(i) => Keeps(table[i], agreed[i]) ELSE ~Exists(i))'
    BY DEF EditsAreKept
  <2>1. CASE i # id
    BY <2>1, <1>2, <1>7 DEF IInv, EditsAreKept, Exists, Keeps
  <2>2. CASE i = id
    <3>1. ~work[h].stale /\ id \notin torn
      BY <2>2, <1>2
    <3>2. agreed[id].there
      BY <3>1, <1>1 DEF IInv, EditsAreKept
    <3> QED
      BY <2>2, <3>1, <3>2, <1>1, <1>3, <1>8 DEF Exists, Keeps
  <2> QED
    BY <2>1, <2>2
<1>12. ReportingHostIsOnline'
  BY <1>1, <1>2, <1>7, <1>8 DEF IInv, ReportingHostIsOnline, Exists, OnlineRow
<1>13. NotesAreKept' /\ (~Exists(IncidentId) => noted = {})'
  BY <1>1, <1>2, <1>7 DEF IInv, NotesAreKept, Exists
<1> QED
  BY <1>6, <1>9, <1>10, <1>11, <1>12, <1>13 DEF IInv

LEMMA HeartbeatSavesStep ==
  ASSUME IInv, NEW h \in Handlers, HeartbeatSaves(h), UNCHANGED noted
  PROVE  IInv'
<1>1. agreed' = [agreed EXCEPT ![work[h].id] = WillSay(work[h])]
  BY DEF HeartbeatSaves, Save, WillSay
<1> QED
  BY <1>1, AssetSaved DEF HeartbeatSaves, counts

LEMMA UpdateAssetSavesStep ==
  ASSUME IInv, NEW h \in Handlers, UpdateAssetSaves(h), UNCHANGED noted
  PROVE  IInv'
<1>1. agreed' = [agreed EXCEPT ![work[h].id] = WillSay(work[h])]
  BY DEF UpdateAssetSaves, Save, WillSay
<1> QED
  BY <1>1, AssetSaved DEF UpdateAssetSaves, counts

\* A handler saves its copy of the incident.
LEMMA UpdateIncidentSavesStep ==
  ASSUME IInv, NEW h \in Handlers, UpdateIncidentSaves(h), UNCHANGED counts
  PROVE  IInv'
<1> USE Rows, Numbers
<1> DEFINE row == work[h].row
           change == work[h].arg
<1>1. /\ work[h].op = "incident" /\ work[h].id = IncidentId /\ row \in IncidentRow
      /\ Exists(IncidentId) /\ change \in Notes \cup Statuses
      /\ ~work[h].stale =>
           IF change \in Notes
           THEN row.status = table[IncidentId].status /\ row.notes = table[IncidentId].notes \cup {change}
           ELSE row.status = change /\ row.notes = table[IncidentId].notes
  BY DEF UpdateIncidentSaves, Save, IInv, Holding
<1>2. /\ table' = [table EXCEPT ![IncidentId] = row]
      /\ work' = [Outdated(IncidentId) EXCEPT ![h] = Idle]
      /\ torn' = IF work[h].stale THEN torn \cup {IncidentId} ELSE torn
      /\ UNCHANGED created
  BY <1>1 DEF UpdateIncidentSaves, Save, counts
<1>3. IF change \in Notes THEN noted' = noted \cup {change} /\ agreed' = agreed
      ELSE agreed' = [agreed EXCEPT ![IncidentId] = change] /\ noted' = noted
  BY <1>1 DEF UpdateIncidentSaves
<1> HIDE DEF row, change
<1>4. work'[h] = Idle
  BY <1>2 DEF Outdated
<1>5. \A g \in Handlers \ {h} :
        IF work[g].row.there /\ work[g].id = IncidentId THEN work'[g] = [work[g] EXCEPT !.stale = TRUE]
        ELSE work'[g] = work[g]
  BY <1>2 DEF Outdated
<1>6. \A i \in AssetIds : table'[i] = table[i] /\ agreed'[i] = agreed[i]
  BY <1>2, <1>3 DEF IInv, Types
<1>7. table'[IncidentId] = row
  BY <1>2 DEF IInv, Types
<1>8. Types'
  <2>1. work' \in [Handlers -> Work]
    <3>1. ASSUME NEW g \in Handlers PROVE work'[g] \in Work
      <4>1. work[g] \in Work /\ [work[g] EXCEPT !.stale = TRUE] \in Work
        BY DEF IInv, Types, Work
      <4> QED
        BY <4>1, <1>4, <1>5
    <3>2. work' = [g \in Handlers |-> work'[g]]
      BY <1>2 DEF Outdated
    <3> QED
      BY <3>1, <3>2
  <2>2. table' \in [Ids -> {Absent} \cup AssetRow \cup IncidentRow]
    BY <1>1, <1>2 DEF IInv, Types
  <2>3. table'[IncidentId] \in {Absent} \cup IncidentRow
        /\ \A i \in AssetIds : table'[i] \in {Absent} \cup AssetRow
    BY <1>1, <1>6, <1>7 DEF IInv, Types
  <2>4. /\ agreed' \in [Ids -> Promise \cup {"none"} \cup Statuses] /\ noted' \subseteq Notes
        /\ \A i \in AssetIds : agreed'[i] \in Promise
    <3>1. CASE change \in Notes
      BY <3>1, <1>3 DEF IInv, Types
    <3>2. CASE change \notin Notes
      BY <3>2, <1>1, <1>3, <1>6 DEF IInv, Types
    <3> QED
      BY <3>1, <3>2
  <2>5. torn \subseteq Ids
    BY DEF IInv, Types
  <2>6. torn' \subseteq Ids
    BY <1>2, <2>5
  <2>7. created' \in 0..MaxAssets
    BY <1>2 DEF IInv, Types
  <2> QED
    BY <2>1, <2>2, <2>3, <2>4, <2>6, <2>7 DEF Types
<1>9. \A g \in Handlers : Holding(g)'
  <2> TAKE g \in Handlers
  <2>1. CASE g = h
    BY <2>1, <1>4 DEF Holding
  <2>2. CASE g # h /\ work[g].row.there /\ work[g].id = IncidentId
    <3>1. work'[g] = [work[g] EXCEPT !.stale = TRUE] /\ work[g] \in Work /\ Holding(g)
      BY <2>2, <1>5 DEF IInv, Types
    <3>2. /\ work'[g].op = work[g].op /\ work'[g].id = IncidentId /\ work'[g].row = work[g].row
          /\ work'[g].stale /\ work'[g].arg = work[g].arg
      BY <2>2, <3>1 DEF Work
    <3>3. work[g].op \notin {"heartbeat", "edit"}
      BY <2>2, <3>1 DEF Holding, IInv, Types
    <3> QED
      BY <3>1, <3>2, <3>3, <1>1, <1>7 DEF Holding, Exists
  <2>3. CASE g # h /\ ~(work[g].row.there /\ work[g].id = IncidentId)
    <3>1. work'[g] = work[g] /\ work[g] \in Work /\ Holding(g)
      BY <2>3, <1>5 DEF IInv, Types
    <3>2. work[g].op # "incident"
      BY <2>3, <3>1 DEF Holding
    <3>3. work[g].op \in {"heartbeat", "edit"} => work[g].id \in AssetIds
      BY <3>1 DEF Holding, IInv, Types
    <3>4. work[g].id \in AssetIds => (work[g].id \in torn <=> work[g].id \in torn')
      BY <1>2
    <3> QED
      BY <3>1, <3>2, <3>3, <3>4, <1>2, <1>6 DEF Holding, Exists, WillSay
  <2> QED
    BY <2>1, <2>2, <2>3
<1>10. Unused' /\ EditsAreKept' /\ ReportingHostIsOnline'
  BY <1>2, <1>6 DEF IInv, Unused, EditsAreKept, ReportingHostIsOnline, Exists, Keeps
<1>11. NotesAreKept'
  <2> SUFFICES ASSUME IncidentId \notin torn'
               PROVE  (table[IncidentId].status = agreed[IncidentId] /\ table[IncidentId].notes = noted)'
    BY DEF NotesAreKept
  <2>1. ~work[h].stale /\ IncidentId \notin torn
    BY <1>2
  <2>2. table[IncidentId].status = agreed[IncidentId] /\ table[IncidentId].notes = noted
    BY <2>1, <1>1 DEF IInv, NotesAreKept
  <2>3. CASE change \in Notes
    BY <2>1, <2>2, <2>3, <1>1, <1>3, <1>7
  <2>4. CASE change \notin Notes
    BY <2>1, <2>2, <2>4, <1>1, <1>3, <1>7 DEF IInv, Types
  <2> QED
    BY <2>3, <2>4
<1>12. (~Exists(IncidentId) => noted = {})'
  BY <1>1, <1>7 DEF Exists
<1> QED
  BY <1>8, <1>9, <1>10, <1>11, <1>12 DEF IInv

--------------------------------------------------------------------------------
\* Steps of one statement.

LEMMA InsertStep ==
  ASSUME IInv, NEW row \in AssetRow, OnlineRow(row), NEW said \in Promise, said.there = TRUE, Keeps(row, said),
         Insert(row, said),
         work' \in [Handlers -> Work], \A g \in Handlers : work'[g] \in {Idle, work[g]},
         UNCHANGED noted
  PROVE  IInv'
<1> USE Rows, Numbers
<1> DEFINE id == created + 1
<1>1. id \in AssetIds /\ created \in Nat /\ created' = id
  BY DEF Insert, IInv, Types
<1>2. /\ table' = [table EXCEPT ![id] = row] /\ agreed' = [agreed EXCEPT ![id] = said]
      /\ UNCHANGED <<torn, noted>>
  BY DEF Insert
<1> HIDE DEF id
<1>4. /\ table'[id] = row /\ agreed'[id] = said
      /\ \A i \in Ids \ {id} : table'[i] = table[i] /\ agreed'[i] = agreed[i]
  BY <1>1, <1>2 DEF IInv, Types
<1>6. Types'
  <2>1. table' \in [Ids -> {Absent} \cup AssetRow \cup IncidentRow]
    BY <1>1, <1>2 DEF IInv, Types
  <2>2. table'[IncidentId] \in {Absent} \cup IncidentRow
        /\ \A i \in AssetIds : table'[i] \in {Absent} \cup AssetRow
    BY <1>1, <1>4 DEF IInv, Types
  <2>3. created' \in 0..MaxAssets
    BY <1>1
  <2>4. agreed' \in [Ids -> Promise \cup {"none"} \cup Statuses] /\ \A i \in AssetIds : agreed'[i] \in Promise
    BY <1>2, <1>4 DEF IInv, Types
  <2> QED
    BY <1>2, <2>1, <2>2, <2>3, <2>4 DEF IInv, Types
<1>7. Unused'
  <2> SUFFICES ASSUME NEW i \in AssetIds, i > created'
               PROVE  table'[i] = Absent
    BY DEF Unused
  <2>1. i > created /\ i # id
    BY <1>1 DEF id
  <2> QED
    BY <2>1, <1>2, <1>4 DEF IInv, Unused
<1>8. \A g \in Handlers : Holding(g)'
  <2> TAKE g \in Handlers
  <2>1. CASE work'[g] = Idle
    BY <2>1 DEF Holding
  <2>2. CASE work'[g] = work[g]
    <3>1. Holding(g) /\ work[g] \in Work
      BY DEF IInv, Types
    <3>2. work[g].op \in {"heartbeat", "edit"} => /\ work[g].id \in 1..created' /\ work[g].id # id
                                                /\ work[g].id \in Ids
      BY <3>1, <1>1 DEF Holding, id
    <3> QED
      BY <2>2, <3>1, <3>2, <1>1, <1>2, <1>4 DEF Holding, Exists, WillSay
  <2> QED
    BY <2>1, <2>2
<1>9. EditsAreKept' /\ ReportingHostIsOnline'
  BY <1>1, <1>2, <1>4 DEF IInv, EditsAreKept, ReportingHostIsOnline, Exists, OnlineRow, Keeps
<1>10. NotesAreKept' /\ (~Exists(IncidentId) => noted = {})'
  BY <1>1, <1>2, <1>4 DEF IInv, NotesAreKept, Exists
<1> QED
  BY <1>6, <1>7, <1>8, <1>9, <1>10 DEF IInv

LEMMA HeartbeatRegistersStep ==
  ASSUME IInv, NEW h \in Handlers, HeartbeatRegisters(h), UNCHANGED noted
  PROVE  IInv'
<1>1. Reported \in AssetRow /\ OnlineRow(Reported)
  BY DEF Reported, AssetRow, OnlineRow, Silent
<1>2. Insert(Reported, NothingSaid)
  BY DEF HeartbeatRegisters
<1>3. work' \in [Handlers -> Work] /\ \A g \in Handlers : work'[g] \in {Idle, work[g]}
  BY Rows DEF HeartbeatRegisters, IInv, Types
<1> QED
  BY <1>1, <1>2, <1>3, NothingSaidHolds, InsertStep

LEMMA CreateAssetStep ==
  ASSUME IInv, NEW b \in DOMAIN Bodies, CreateAsset(b), UNCHANGED noted
  PROVE  IInv'
<1> DEFINE row == Decoded(Blank, Bodies[b])
           said == Said(NothingSaid, Bodies[b])
<1>1. Blank \in AssetRow /\ OnlineRow(Blank)
  BY DEF Blank, AssetRow, OnlineRow, Silent
<1>2. row \in AssetRow /\ OnlineRow(row)
  BY <1>1, DecodedRow
<1>3. said \in Promise /\ said.there = TRUE /\ Keeps(row, said)
  BY NothingSaidHolds, SaidPromise, ChangesKeep
<1>4. Insert(row, said)
  BY DEF CreateAsset
<1>5. work' \in [Handlers -> Work] /\ \A g \in Handlers : work'[g] \in {Idle, work[g]}
  BY DEF CreateAsset, IInv, Types
<1> HIDE DEF row, said
<1> QED
  BY <1>2, <1>3, <1>4, <1>5, InsertStep

LEMMA DeleteAssetStep ==
  ASSUME IInv, NEW id \in AssetIds, DeleteAsset(id), UNCHANGED noted
  PROVE  IInv'
<1> USE Rows, Numbers
<1>1. /\ Exists(id)
      /\ table' = [table EXCEPT ![id] = Absent]
      /\ work' = Outdated(id)
      /\ agreed' = [agreed EXCEPT ![id] = [agreed[id] EXCEPT !.there = FALSE]]
      /\ UNCHANGED <<torn, created, noted>>
  BY DEF DeleteAsset
<1>2. id \in 1..created
  BY <1>1 DEF IInv, Types, Unused, Exists
<1>3. \A g \in Handlers :
        IF work[g].row.there /\ work[g].id = id THEN work'[g] = [work[g] EXCEPT !.stale = TRUE]
        ELSE work'[g] = work[g]
  BY <1>1 DEF Outdated
<1>4. /\ table'[id] = Absent /\ agreed'[id] \in Promise /\ agreed'[id].there = FALSE
      /\ \A i \in Ids \ {id} : table'[i] = table[i] /\ agreed'[i] = agreed[i]
  <2>1. agreed[id] \in Promise
    BY DEF IInv, Types
  <2> DEFINE gone == [agreed[id] EXCEPT !.there = FALSE]
  <2>2. gone \in Promise /\ gone.there = FALSE
    BY <2>1 DEF Promise
  <2> HIDE DEF gone
  <2> QED
    BY <1>1, <2>2 DEF IInv, Types, gone
<1>5. Types'
  <2>1. work' \in [Handlers -> Work]
    <3>1. ASSUME NEW g \in Handlers PROVE work'[g] \in Work
      <4>1. work[g] \in Work /\ [work[g] EXCEPT !.stale = TRUE] \in Work
        BY DEF IInv, Types, Work
      <4> QED
        BY <4>1, <1>3
    <3>2. work' = [g \in Handlers |-> work'[g]]
      BY <1>1 DEF Outdated
    <3> QED
      BY <3>1, <3>2
  <2>2. /\ table' \in [Ids -> {Absent} \cup AssetRow \cup IncidentRow]
        /\ agreed' \in [Ids -> Promise \cup {"none"} \cup Statuses]
    BY <1>1, <1>4 DEF IInv, Types
  <2>3. table'[IncidentId] \in {Absent} \cup IncidentRow
        /\ \A i \in AssetIds : table'[i] \in {Absent} \cup AssetRow /\ agreed'[i] \in Promise
    BY <1>4 DEF IInv, Types
  <2> QED
    BY <1>1, <2>1, <2>2, <2>3 DEF IInv, Types
<1>6. Unused'
  BY <1>1, <1>2, <1>4 DEF IInv, Unused, Types
<1>7. \A g \in Handlers : Holding(g)'
  <2> TAKE g \in Handlers
  <2>1. CASE work[g].row.there /\ work[g].id = id
    <3>1. work'[g] = [work[g] EXCEPT !.stale = TRUE] /\ work[g] \in Work /\ Holding(g)
      BY <2>1, <1>3 DEF IInv, Types
    <3>2. /\ work'[g].op = work[g].op /\ work'[g].id = id /\ work'[g].row = work[g].row
          /\ work'[g].stale /\ work'[g].arg = work[g].arg
      BY <2>1, <3>1 DEF Work
    <3>3. work[g].op # "incident"
      BY <2>1, <3>1 DEF Holding
    <3> QED
      BY <2>1, <3>1, <3>2, <3>3, <1>1 DEF Holding
  <2>2. CASE ~(work[g].row.there /\ work[g].id = id)
    <3>1. work'[g] = work[g] /\ work[g] \in Work /\ Holding(g)
      BY <2>2, <1>3 DEF IInv, Types
    <3>2. work[g].op \in {"heartbeat", "edit"} => work[g].id # id /\ work[g].id \in AssetIds
      BY <2>2, <3>1 DEF Holding, IInv, Types
    <3> QED
      BY <3>1, <3>2, <1>1, <1>4 DEF Holding, Exists, WillSay
  <2> QED
    BY <2>1, <2>2
<1>8. EditsAreKept' /\ ReportingHostIsOnline'
  BY <1>1, <1>4 DEF IInv, EditsAreKept, ReportingHostIsOnline, Exists, Keeps
<1>9. NotesAreKept' /\ (~Exists(IncidentId) => noted = {})'
  BY <1>1, <1>4 DEF IInv, NotesAreKept, Exists
<1> QED
  BY <1>5, <1>6, <1>7, <1>8, <1>9 DEF IInv

LEMMA CreateIncidentStep ==
  ASSUME IInv, CreateIncident, UNCHANGED counts
  PROVE  IInv'
<1> USE Rows, Numbers
<1> DEFINE row == [there |-> TRUE, status |-> "Open", notes |-> {}]
<1>1. row \in IncidentRow /\ row.status = "Open" /\ row.notes = {}
  BY DEF IncidentRow, Statuses
<1>2. /\ ~Exists(IncidentId)
      /\ table' = [table EXCEPT ![IncidentId] = row]
      /\ agreed' = [agreed EXCEPT ![IncidentId] = "Open"]
      /\ UNCHANGED <<work, torn, created, noted>>
  BY DEF CreateIncident, counts
<1> HIDE DEF row
<1>3. /\ table'[IncidentId] = row /\ agreed'[IncidentId] = "Open"
      /\ \A i \in AssetIds : table'[i] = table[i] /\ agreed'[i] = agreed[i]
  BY <1>2 DEF IInv, Types
<1>4. Types'
  <2>1. /\ table' \in [Ids -> {Absent} \cup AssetRow \cup IncidentRow]
        /\ agreed' \in [Ids -> Promise \cup {"none"} \cup Statuses]
    BY <1>1, <1>2 DEF IInv, Types, Statuses
  <2> QED
    BY <1>1, <1>2, <1>3, <2>1 DEF IInv, Types
<1>5. \A g \in Handlers : Holding(g)'
  <2> TAKE g \in Handlers
  <2>1. Holding(g) /\ work[g] \in Work /\ work'[g] = work[g]
    BY <1>2 DEF IInv, Types
  <2>2. work[g].op # "incident"
    BY <2>1, <1>2 DEF Holding
  <2>3. work[g].op \in {"heartbeat", "edit"} => work[g].id \in AssetIds
    BY <2>1 DEF Holding, IInv, Types
  <2> QED
    BY <2>1, <2>2, <2>3, <1>2, <1>3 DEF Holding, Exists, WillSay
<1>6. Unused' /\ EditsAreKept' /\ ReportingHostIsOnline'
  BY <1>2, <1>3 DEF IInv, Unused, EditsAreKept, ReportingHostIsOnline, Exists, Keeps
<1>7. NotesAreKept' /\ (~Exists(IncidentId) => noted = {})'
  BY <1>1, <1>2, <1>3 DEF IInv, NotesAreKept, Exists
<1> QED
  BY <1>4, <1>5, <1>6, <1>7 DEF IInv

--------------------------------------------------------------------------------
\* Time passes.

\* What an older row has of a row.
SameSaying(new, old) ==
  new.name = old.name /\ new.address = old.address /\ new.status = old.status /\ new.criticality = old.criticality

LEMMA OlderRow ==
  ASSUME NEW row \in AssetRow
  PROVE  /\ Older(row) \in AssetRow /\ SameSaying(Older(row), row) /\ Older(row).nameBy = row.nameBy
         /\ OnlineRow(row) => OnlineRow(Older(row))
<1>1. row.there = TRUE /\ row.age \in 0..3
  BY DEF AssetRow, Silent
<1>2. CASE row.age < Silent
  <2>1. Older(row) = [row EXCEPT !.age = row.age + 1]
    BY <1>1, <1>2 DEF Older
  <2>2. row.age + 1 \in 0..Silent
    BY <1>1, <1>2 DEF Silent
  <2>3. /\ Older(row) \in AssetRow /\ Older(row).age = row.age + 1 /\ SameSaying(Older(row), row)
        /\ Older(row).nameBy = row.nameBy /\ Older(row).statusBy = row.statusBy
    BY <2>1, <2>2 DEF AssetRow, SameSaying
  <2> QED
    BY <1>1, <1>2, <2>3 DEF OnlineRow, SameSaying
<1>3. CASE ~(row.age < Silent)
  BY <1>3 DEF Older, SameSaying
<1> QED
  BY <1>2, <1>3

\* A row that is marked keeps what was told, but for its status.
LEMMA MarkedRow ==
  ASSUME NEW row \in AssetRow
  PROVE  /\ Marked(row) \in AssetRow /\ Marked(row).nameBy = row.nameBy /\ Marked(row).name = row.name
         /\ Marked(row).age = row.age
         /\ OnlineRow(row) => OnlineRow(Marked(row))
         /\ \A said : Keeps(row, said) => Keeps(Marked(row), [said EXCEPT !.status = "any"])
         /\ row.age # Silent => Marked(row) = row
<1>1. row.there = TRUE
  BY DEF AssetRow
<1>2. CASE row.age = Silent
  <2>1. Marked(row) = [row EXCEPT !.status = "offline"]
    BY <1>1, <1>2 DEF Marked
  <2>2. /\ Marked(row) \in AssetRow /\ Marked(row).nameBy = row.nameBy /\ Marked(row).name = row.name
        /\ Marked(row).age = Silent
        /\ Marked(row).address = row.address /\ Marked(row).criticality = row.criticality
    BY <2>1, <1>2 DEF AssetRow
  <2>3. \A said : Keeps(row, said) => Keeps(Marked(row), [said EXCEPT !.status = "any"])
    BY <2>2 DEF Keeps
  <2> QED
    BY <1>2, <2>2, <2>3 DEF OnlineRow, Silent
<1>3. CASE row.age # Silent
  <2>1. Marked(row) = row
    BY <1>3 DEF Marked
  <2>2. \A said : Keeps(row, said) => Keeps(row, [said EXCEPT !.status = "any"])
    BY DEF Keeps
  <2> QED
    BY <2>1, <2>2
<1> QED
  BY <1>2, <1>3

\* Users are promised no more than they were.
Weaker(new, old) ==
  /\ new.there = old.there
  /\ new.name \in {"any", old.name} /\ new.address \in {"any", old.address}
  /\ new.status \in {"any", old.status} /\ new.criticality \in {"any", old.criticality}

LEMMA KeepsWeaker ==
  ASSUME NEW row, NEW older, SameSaying(older, row), NEW new, NEW old, Weaker(new, old)
  PROVE  /\ \A body : Keeps(row, Said(old, body)) => Keeps(older, Said(new, body))
         /\ Keeps(row, Released(old)) => Keeps(older, Released(new))
  BY DEF SameSaying, Weaker, Keeps, Said, Released, Of

LEMMA PassStep ==
  ASSUME IInv, AboutAssets, NEW rows, Pass(rows),
         rows = [i \in Ids |-> rows[i]], rows[IncidentId] = Absent,
         \A i \in AssetIds : table[i] = Absent => rows[i] = Absent,
         agreed' \in [Ids -> Promise \cup {"none"} \cup Statuses],
         \A i \in AssetIds : agreed'[i] \in Promise /\ Weaker(agreed'[i], agreed[i]),
         \A i \in AssetIds : table[i] \in AssetRow =>
           /\ rows[i] \in AssetRow
           /\ Keeps(table[i], agreed[i]) => Keeps(rows[i], agreed'[i])
           /\ OnlineRow(table[i]) => OnlineRow(rows[i]),
         UNCHANGED noted
  PROVE  IInv'
<1> USE Rows, Numbers
<1>1. /\ table' = rows
      /\ work' = [h \in Handlers |->
                    IF work[h] = Idle THEN Idle ELSE [work[h] EXCEPT !.row = Older(@), !.late = TRUE]]
      /\ UNCHANGED <<torn, created, noted>>
  BY DEF Pass, counts
<1>2. Older(Absent) = Absent
  BY DEF Older
<1>3. ASSUME NEW g \in Handlers
      PROVE  /\ work'[g] \in Work /\ work'[g].op = work[g].op /\ work'[g].id = work[g].id
             /\ work'[g].row = Older(work[g].row) /\ work'[g].arg = work[g].arg
             /\ work'[g].stale = work[g].stale
  <2>1. work[g] \in Work /\ Holding(g)
    BY DEF IInv, Types
  <2>2. work[g].op # "incident"
    BY <2>1 DEF Holding, AboutAssets
  <2>3. Older(work[g].row) \in {Absent} \cup AssetRow
    BY <2>1, <2>2, <1>2, OlderRow DEF Holding, Work
  <2>4. CASE work[g] = Idle
    BY <2>1, <2>4, <1>1, <1>2
  <2>5. CASE work[g] # Idle
    <3> DEFINE old == Older(work[g].row)
               aged == [work[g] EXCEPT !.row = old]
    <3>1. aged \in Work /\ aged.op = work[g].op /\ aged.id = work[g].id /\ aged.row = old
          /\ aged.arg = work[g].arg /\ aged.stale = work[g].stale
      BY <2>1, <2>3 DEF Work
    <3>2. work'[g] = [aged EXCEPT !.late = TRUE]
      BY <2>5, <1>1
    <3> HIDE DEF aged, old
    <3>3. work'[g] \in Work /\ work'[g].op = aged.op /\ work'[g].id = aged.id /\ work'[g].row = aged.row
          /\ work'[g].arg = aged.arg /\ work'[g].stale = aged.stale
      BY <3>1, <3>2 DEF Work
    <3> QED
      BY <3>1, <3>3 DEF old
  <2> QED
    BY <2>4, <2>5
<1>4. \A i \in AssetIds : table[i] \in {Absent} \cup AssetRow
  BY DEF IInv, Types
<1>5. Types'
  <2>1. \A i \in AssetIds : rows[i] \in {Absent} \cup AssetRow
    BY <1>4
  <2>2. table' \in [Ids -> {Absent} \cup AssetRow \cup IncidentRow]
    <3>1. \A i \in Ids : i \in AssetIds \/ i = IncidentId
      BY DEF Ids
    <3>2. \A i \in Ids : rows[i] \in {Absent} \cup AssetRow \cup IncidentRow
      BY <2>1, <3>1
    <3> QED
      BY <1>1, <3>2
  <2>3. work' \in [Handlers -> Work]
    <3>1. work' = [g \in Handlers |-> work'[g]]
      BY <1>1
    <3> QED
      BY <3>1, <1>3
  <2> QED
    BY <1>1, <2>1, <2>2, <2>3 DEF IInv, Types
<1>6. Unused'
  BY <1>1 DEF IInv, Unused
<1>7. \A i \in AssetIds : Exists(i)' <=> Exists(i)
  BY <1>1, <1>4 DEF Exists
<1>8. \A g \in Handlers : Holding(g)'
  <2> TAKE g \in Handlers
  <2>1. work[g] \in Work /\ Holding(g) /\ work[g].op # "incident"
    BY DEF IInv, Types, Holding, AboutAssets
  <2>2. CASE work[g].op \in {"idle", "register"}
    BY <2>1, <2>2, <1>2, <1>3 DEF Holding
  <2>3. CASE work[g].op \in {"heartbeat", "edit"}
    <3>1. work[g].row \in AssetRow /\ work[g].id \in AssetIds
      BY <2>1, <2>3 DEF Holding, IInv, Types
    <3>2. Exists(work[g].id) => table[work[g].id] \in AssetRow
      BY <3>1, <1>4 DEF Exists
    <3>3. /\ Older(work[g].row) \in AssetRow
          /\ SameSaying(Older(work[g].row), work[g].row)
          /\ OnlineRow(work[g].row) => OnlineRow(Older(work[g].row))
      BY <3>1, OlderRow
    <3>4. ~work[g].stale => Exists(work[g].id) /\ table'[work[g].id].there
      BY <2>1, <2>3, <3>1, <3>2, <1>1 DEF Holding
    <3>5. /\ work'[g].op = work[g].op /\ work'[g].id = work[g].id /\ work'[g].arg = work[g].arg
          /\ work'[g].row = Older(work[g].row) /\ work'[g].stale = work[g].stale
          /\ torn' = torn /\ created' = created
      BY <1>1, <1>3
    <3>6. /\ work[g].id \in 1..created
          /\ work[g].op = "edit" => work[g].arg \in DOMAIN Bodies
          /\ OnlineRow(work[g].row)
          /\ ~work[g].stale /\ work[g].id \notin torn => Keeps(work[g].row, WillSay(work[g]))
      BY <2>1, <2>3 DEF Holding
    <3>7. ~work[g].stale => table'[work'[g].id].there
      BY <3>4, <3>5
    <3>8. Keeps(work[g].row, WillSay(work[g])) => Keeps(work'[g].row, WillSay(work[g])')
      <4>1. Weaker(agreed'[work[g].id], agreed[work[g].id])
        BY <3>1
      <4>2. WillSay(work[g])' = IF work[g].op = "edit" THEN Said(agreed'[work[g].id], Bodies[work[g].arg])
                                ELSE Released(agreed'[work[g].id])
        BY <3>5 DEF WillSay
      <4> QED
        BY <3>3, <3>5, <4>1, <4>2, KeepsWeaker DEF WillSay
    <3>9. work'[g].op \in {"heartbeat", "edit"}
      BY <2>3, <3>5
    <3>10. /\ work'[g].id \in 1..created'
           /\ work'[g].row \in AssetRow
           /\ work'[g].op = "edit" => work'[g].arg \in DOMAIN Bodies
           /\ OnlineRow(work'[g].row)
           /\ ~work'[g].stale /\ work'[g].id \notin torn' => Keeps(work'[g].row, WillSay(work[g])')
           /\ work'[g].stale = work[g].stale
      BY <3>3, <3>5, <3>6, <3>8
    <3> QED
      BY <3>5, <3>7, <3>9, <3>10 DEF Holding, Exists
  <2> QED
    BY <2>1, <2>2, <2>3 DEF Work
<1>9. EditsAreKept'
  <2> SUFFICES ASSUME NEW i \in AssetIds \ torn'
               PROVE  (IF agreed[i].there THEN Exists(i) => Keeps(table[i], agreed[i]) ELSE ~Exists(i))'
    BY DEF EditsAreKept
  <2>1. i \in AssetIds \ torn /\ agreed'[i].there = agreed[i].there /\ (Exists(i)' <=> Exists(i))
    BY <1>1, <1>7 DEF Weaker
  <2>2. IF agreed[i].there THEN Exists(i) => Keeps(table[i], agreed[i]) ELSE ~Exists(i)
    BY <2>1 DEF IInv, EditsAreKept
  <2>3. Exists(i) => table[i] \in AssetRow
    BY <1>4 DEF Exists
  <2>4. agreed'[i].there /\ Exists(i)' => Keeps(rows[i], agreed'[i])
    BY <2>1, <2>2, <2>3
  <2> QED
    BY <1>1, <2>1, <2>2, <2>4 DEF Keeps
<1>10. ReportingHostIsOnline'
  BY <1>1, <1>4, <1>7 DEF IInv, ReportingHostIsOnline, Exists, OnlineRow
<1>11. NotesAreKept' /\ (~Exists(IncidentId) => noted = {})'
  BY <1>1 DEF IInv, NotesAreKept, Exists, AboutAssets
<1> QED
  BY <1>5, <1>6, <1>8, <1>9, <1>10, <1>11 DEF IInv

LEMMA CollectStep ==
  ASSUME IInv, Collect
  PROVE  IInv'
<1> USE Rows, Numbers
<1>1. Older(Absent) = Absent /\ Marked(Absent) = Absent
  BY DEF Older, Marked
<1>2. table[IncidentId] = Absent /\ \A i \in AssetIds : table[i] \in {Absent} \cup AssetRow
  BY DEF Collect, AboutAssets, Exists, IInv, Types
<1>3. CASE Sweep
  <2> DEFINE rows == [i \in Ids |-> Marked(Older(table[i]))]
  <2>1. rows = [i \in Ids |-> rows[i]] /\ rows[IncidentId] = Absent
    BY <1>1, <1>2
  <2>2. \A i \in AssetIds : table[i] = Absent => rows[i] = Absent
    BY <1>1
  <2>3. /\ \A i \in AssetIds : agreed[i] \in Promise
        /\ agreed' = [i \in Ids |-> IF Exists(i) /\ table'[i].age = Silent
                                   THEN [agreed[i] EXCEPT !.status = "any"] ELSE agreed[i]]
        /\ table' = rows
    BY <1>3 DEF Sweep, Pass, IInv, Types
  <2>4. \A said \in Promise : /\ [said EXCEPT !.status = "any"] \in Promise
                             /\ Weaker([said EXCEPT !.status = "any"], said) /\ Weaker(said, said)
    BY DEF Promise, Weaker
  <2>5. /\ agreed' \in [Ids -> Promise \cup {"none"} \cup Statuses]
        /\ \A i \in AssetIds : agreed'[i] \in Promise /\ Weaker(agreed'[i], agreed[i])
    <3>1. \A i \in AssetIds : agreed'[i] \in Promise /\ Weaker(agreed'[i], agreed[i])
      BY <2>3, <2>4
    <3>2. agreed'[IncidentId] = agreed[IncidentId]
      BY <1>2, <2>3 DEF Exists
    <3>3. agreed[IncidentId] \in Promise \cup {"none"} \cup Statuses /\ \A i \in Ids : i \in AssetIds \/ i = IncidentId
      BY DEF IInv, Types, Ids
    <3> QED
      BY <2>3, <3>1, <3>2, <3>3
  <2>6. ASSUME NEW i \in AssetIds, table[i] \in AssetRow
        PROVE  /\ rows[i] \in AssetRow
               /\ Keeps(table[i], agreed[i]) => Keeps(rows[i], agreed'[i])
               /\ OnlineRow(table[i]) => OnlineRow(rows[i])
    <3> DEFINE older == Older(table[i])
    <3>1. older \in AssetRow /\ (OnlineRow(table[i]) => OnlineRow(older)) /\ rows[i] = Marked(older)
          /\ SameSaying(older, table[i])
      BY <2>6, OlderRow
    <3>2. Keeps(table[i], agreed[i]) => Keeps(older, agreed[i])
      BY <3>1 DEF Keeps, SameSaying
    <3> HIDE DEF older
    <3>3. /\ Marked(older) \in AssetRow /\ (OnlineRow(older) => OnlineRow(Marked(older))) /\ Marked(older).age = older.age
          /\ Keeps(older, agreed[i]) => Keeps(Marked(older), [agreed[i] EXCEPT !.status = "any"])
          /\ older.age # Silent => Marked(older) = older
      BY <3>1, MarkedRow
    <3>4. agreed'[i] = IF older.age = Silent THEN [agreed[i] EXCEPT !.status = "any"] ELSE agreed[i]
      BY <2>3, <2>6, <3>1, <3>3 DEF Exists
    <3> QED
      BY <3>1, <3>2, <3>3, <3>4
  <2>7. Pass(rows) /\ AboutAssets /\ UNCHANGED noted
    BY <1>3 DEF Sweep, Collect
  <2> HIDE DEF rows
  <2> QED
    BY <2>1, <2>2, <2>5, <2>6, <2>7, PassStep
<1>4. CASE SweepFails
  <2> DEFINE rows == [i \in Ids |-> Older(table[i])]
  <2>1. rows = [i \in Ids |-> rows[i]] /\ rows[IncidentId] = Absent
    BY <1>1, <1>2
  <2>2. \A i \in AssetIds : table[i] = Absent => rows[i] = Absent
    BY <1>1
  <2>3. /\ agreed' \in [Ids -> Promise \cup {"none"} \cup Statuses]
        /\ \A i \in AssetIds : agreed'[i] \in Promise /\ Weaker(agreed'[i], agreed[i])
    BY <1>4 DEF SweepFails, IInv, Types, Weaker
  <2>4. ASSUME NEW i \in AssetIds, table[i] \in AssetRow
        PROVE  /\ rows[i] \in AssetRow
               /\ Keeps(table[i], agreed[i]) => Keeps(rows[i], agreed'[i])
               /\ OnlineRow(table[i]) => OnlineRow(rows[i])
    BY <1>4, <2>4, OlderRow DEF SweepFails, Keeps, SameSaying
  <2>5. Pass(rows) /\ AboutAssets /\ UNCHANGED noted
    BY <1>4 DEF SweepFails, Collect
  <2> HIDE DEF rows
  <2> QED
    BY <2>1, <2>2, <2>3, <2>4, <2>5, PassStep
<1> QED
  BY <1>3, <1>4 DEF Collect

--------------------------------------------------------------------------------

LEMMA StepHolds == IInv /\ [Next]_vars => IInv'
<1> SUFFICES ASSUME IInv, [Next]_vars PROVE IInv'
  OBVIOUS
<1>1. ASSUME NEW h \in Handlers, Heartbeat(h) PROVE IInv'
  BY <1>1, HeartbeatReadsStep, HeartbeatRegistersStep, HeartbeatSavesStep DEF Heartbeat
<1>2. ASSUME NEW h \in Handlers, UpdateAsset(h) PROVE IInv'
  BY <1>2, UpdateAssetReadsStep, UpdateAssetSavesStep DEF UpdateAsset
<1>3. ASSUME NEW h \in Handlers, UpdateIncident(h) PROVE IInv'
  BY <1>3, UpdateIncidentReadsStep, UpdateIncidentSavesStep DEF UpdateIncident
<1>4. ASSUME NEW h \in Handlers, Refused(h) PROVE IInv'
  BY <1>4, FailsStep
<1>5. ASSUME Other PROVE IInv'
  BY <1>5, CreateAssetStep, DeleteAssetStep, CreateIncidentStep DEF Other
<1>6. CASE Collect
  BY <1>6, CollectStep
<1>7. CASE UNCHANGED vars
  <2>1. UNCHANGED <<table, work, agreed, torn, created, noted>>
    BY <1>7 DEF vars, counts
  <2>2. Types' /\ Unused' /\ NotesAreKept' /\ (~Exists(IncidentId) => noted = {})'
    BY <2>1 DEF IInv, Types, Unused, NotesAreKept, Exists
  <2>3. EditsAreKept' /\ ReportingHostIsOnline'
    BY <2>1 DEF IInv, EditsAreKept, ReportingHostIsOnline, Exists, Keeps
  <2>4. \A h \in Handlers : Holding(h)'
    BY <2>1 DEF IInv, Holding, Exists, WillSay
  <2> QED
    BY <2>2, <2>3, <2>4 DEF IInv
<1> QED
  BY <1>1, <1>2, <1>3, <1>4, <1>5, <1>6, <1>7 DEF Next

LEMMA Invariance == Spec => []IInv
<1> QED
  BY InitHolds, StepHolds, PTL DEF Spec

\* The tables keep their types: statuses, ages, notes, and what a handler is doing.
THEOREM TypeCorrect == Spec => []TypeOK
<1>1. IInv => TypeOK
  BY Rows, Numbers DEF IInv, Types, TypeOK, IncidentRow, Work, Exists
<1> QED
  BY <1>1, Invariance, PTL

\* However many requests run at a time, and whatever fields their bodies have: what a
\* user was told is stored stays until the next one who writes it, the agent and the
\* collector among them for the fields that are theirs, and a deleted asset stays
\* deleted, unless a save that another write had overtaken touches the row.
THEOREM EditsSurvive == Spec => []EditsAreKept
<1>1. IInv => EditsAreKept
  BY DEF IInv
<1> QED
  BY <1>1, Invariance, PTL

\* The sweep may fall anywhere between the reads and the saves, and saves may overtake
\* each other: a row whose last report is within the threshold is online, unless a user
\* has written its status or its last heartbeat since.
THEOREM ReportingIsOnline == Spec => []ReportingHostIsOnline
<1>1. IInv => ReportingHostIsOnline
  BY DEF IInv
<1> QED
  BY <1>1, Invariance, PTL

\* The incident keeps each note and the last status its users were told is stored,
\* unless one update overtook another.
THEOREM NotesSurvive == Spec => []NotesAreKept
<1>1. IInv => NotesAreKept
  BY DEF IInv
<1> QED
  BY <1>1, Invariance, PTL

--------------------------------------------------------------------------------
\* How many rows the agent of one host makes.

AgentRow(row) == row.there /\ row.nameBy = "agent" /\ row.name = "host"

Holds(h, id) == work[h].op \in {"heartbeat", "edit"} /\ work[h].id = id

\* The rows of the agent, those included that are deleted and that a late save brings back.
AgentIds ==
  {id \in AssetIds : \/ AgentRow(table[id])
                     \/ \E h \in Handlers : Holds(h, id) /\ AgentRow(work[h].row)}

Registering == {h \in Handlers : work[h].op = "register"}

\* A row for each request at most: the requests that are going to insert one are counted.
Bounded == Cardinality(AgentIds) + Cardinality(Registering) <= Cardinality(Handlers)

LEMMA FiniteParts ==
  /\ IsFiniteSet(AgentIds) /\ Cardinality(AgentIds) \in Nat
  /\ IsFiniteSet(Registering) /\ Cardinality(Registering) \in Nat
  /\ IsFiniteSet(Handlers) /\ Cardinality(Handlers) \in Nat
<1>1. IsFiniteSet(AssetIds) /\ IsFiniteSet(Handlers)
  BY Numbers, RegistryAssumption, FS_Interval
<1>2. AgentIds \in SUBSET AssetIds /\ Registering \in SUBSET Handlers
  BY DEF AgentIds, Registering
<1> QED
  BY <1>1, <1>2, FS_Subset, FS_CardinalityType

\* What a handler goes on with that inserts nothing: no copy, the copy it had, or the copy of a
\* row that is there.
GoesOn(h) ==
  \/ work'[h].op \in {"idle", "incident"}
  \/ /\ work'[h].op = work[h].op /\ work'[h].id = work[h].id
     /\ Holds(h, work[h].id) /\ AgentRow(work'[h].row) => AgentRow(work[h].row)
  \/ work'[h].op \in {"heartbeat", "edit"} /\ (AgentRow(work'[h].row) => AgentRow(table[work'[h].id]))

LEMMA NoMoreRows ==
  ASSUME Bounded, \A h \in Handlers : GoesOn(h),
         \A id \in AssetIds : AgentRow(table'[id]) => id \in AgentIds
  PROVE  Bounded'
<1>1. AgentIds' \in SUBSET AgentIds
  BY DEF AgentIds, Holds, GoesOn
<1>2. Registering' \in SUBSET Registering
  BY DEF Registering, GoesOn
<1>3. /\ IsFiniteSet(AgentIds') /\ Cardinality(AgentIds') \in Nat
      /\ Cardinality(AgentIds') <= Cardinality(AgentIds)
  BY <1>1, FiniteParts, FS_Subset, FS_CardinalityType
<1>4. /\ IsFiniteSet(Registering') /\ Cardinality(Registering') \in Nat
      /\ Cardinality(Registering') <= Cardinality(Registering)
  BY <1>2, FiniteParts, FS_Subset, FS_CardinalityType
<1>5. Cardinality(AgentIds)' = Cardinality(AgentIds') /\ Cardinality(Registering)' = Cardinality(Registering')
  OBVIOUS
<1> QED
  BY <1>3, <1>4, <1>5, FiniteParts DEF Bounded

LEMMA InitBounded == Init => Bounded
<1> SUFFICES ASSUME Init PROVE Bounded
  OBVIOUS
<1>1. AgentIds = {} /\ Registering = {}
  BY Numbers, Rows DEF Init, AgentIds, Registering, AgentRow, Holds
<1> QED
  BY <1>1, FiniteParts, FS_EmptySet DEF Bounded

\* Heartbeats that find no row, all at the same time: each of the others, at most, still
\* holds a row that was deleted or is about to insert one.
LEMMA NoneYetBounded ==
  ASSUME IInv, Bounded, NEW h \in Handlers, Known = {}, NoneYet(h)
  PROVE  Bounded'
<1> DEFINE holders == {g \in Handlers : work[g].op \in {"heartbeat", "edit"}}
<1>1. work' = [work EXCEPT ![h] = [Idle EXCEPT !.op = "register"]] /\ work[h] = Idle /\ table' = table
  BY DEF NoneYet
<1>2. work'[h].op = "register" /\ \A g \in Handlers \ {h} : work'[g] = work[g]
  BY <1>1 DEF IInv, Types, Idle
<1>3. work[h].op = "idle"
  BY <1>1, Rows
<1>4. Registering' = Registering \cup {h} /\ h \notin Registering
  BY <1>2, <1>3 DEF Registering
<1>5. AgentIds' = AgentIds
  BY <1>1, <1>2, <1>3 DEF AgentIds, Holds
<1>6. IsFiniteSet(holders) /\ Cardinality(AgentIds) <= Cardinality(holders) /\ Cardinality(holders) \in Nat
  <2> DEFINE f == [g \in holders |-> work[g].id]
             held == {f[g] : g \in holders}
  <2>1. IsFiniteSet(holders) /\ Cardinality(holders) \in Nat
    BY FiniteParts, FS_Subset, FS_CardinalityType
  <2>2. f \in Surjection(holders, held)
    BY DEF Surjection
  <2>3. IsFiniteSet(held) /\ Cardinality(held) <= Cardinality(holders)
    BY <2>1, <2>2, FS_Surjection
  <2>4. AgentIds \in SUBSET held
    <3>1. ASSUME NEW id \in AgentIds PROVE \E g \in holders : id = f[g]
      <4>1. ~AgentRow(table[id])
        BY <3>1 DEF AgentIds, AgentRow, Known, Exists
      <4> QED
        BY <3>1, <4>1 DEF AgentIds, Holds
    <3> QED
      BY <3>1
  <2>5. Cardinality(AgentIds) <= Cardinality(held)
    BY <2>3, <2>4, FS_Subset
  <2> QED
    BY <2>1, <2>3, <2>5, FiniteParts, FS_CardinalityType
<1>7. Cardinality(holders) + Cardinality(Registering) + 1 <= Cardinality(Handlers)
  <2>1. holders \cap Registering = {} /\ h \notin holders \cup Registering
    BY <1>3 DEF Registering
  <2>2. /\ IsFiniteSet(holders \cup Registering)
        /\ Cardinality(holders \cup Registering) = Cardinality(holders) + Cardinality(Registering)
    <3>1. Cardinality(holders \cap Registering) = 0
      BY <2>1, FS_EmptySet
    <3> HIDE DEF holders
    <3>2. /\ IsFiniteSet(holders \cup Registering)
          /\ Cardinality(holders \cup Registering)
               = Cardinality(holders) + Cardinality(Registering) - Cardinality(holders \cap Registering)
      BY <1>6, FiniteParts, FS_Union
    <3> QED
      BY <1>6, <3>1, <3>2, FiniteParts
  <2>3. /\ Cardinality((holders \cup Registering) \cup {h}) = Cardinality(holders \cup Registering) + 1
    BY <2>1, <2>2, FS_AddElement
  <2>4. (holders \cup Registering) \cup {h} \in SUBSET Handlers
    BY DEF Registering
  <2>5. Cardinality((holders \cup Registering) \cup {h}) <= Cardinality(Handlers)
    BY <2>4, FiniteParts, FS_Subset
  <2> QED
    BY <1>6, <2>2, <2>3, <2>5, FiniteParts
<1>8. Cardinality(Registering') = Cardinality(Registering) + 1
  BY <1>4, FiniteParts, FS_AddElement
<1> QED
  BY <1>5, <1>6, <1>7, <1>8, FiniteParts DEF Bounded

\* The insert of an agent's row was counted before.
LEMMA RegistersBounded ==
  ASSUME IInv, Bounded, NEW h \in Handlers, HeartbeatRegisters(h)
  PROVE  Bounded'
<1> DEFINE id == created + 1
           row == Reported
<1>1. id \in AssetIds /\ table' = [table EXCEPT ![id] = row] /\ work' = [work EXCEPT ![h] = Idle]
  BY Numbers DEF HeartbeatRegisters, Insert, IInv, Types
<1> HIDE DEF id, row
<1>2. /\ work[h].op = "register" /\ work'[h].op = "idle"
      /\ \A g \in Handlers \ {h} : work'[g] = work[g]
  BY <1>1, Rows DEF HeartbeatRegisters, IInv, Types
<1>3. \A i \in AssetIds \ {id} : table'[i] = table[i]
  BY <1>1, Numbers DEF IInv, Types
<1>4. AgentIds' \in SUBSET (AgentIds \cup {id})
  BY <1>2, <1>3 DEF AgentIds, Holds
<1>5. Registering' = Registering \ {h} /\ h \in Registering
  BY <1>2 DEF Registering
<1>6. Cardinality(Registering') = Cardinality(Registering) - 1
  BY <1>5, FiniteParts, FS_RemoveElement
<1>7. Cardinality(AgentIds') <= Cardinality(AgentIds) + 1 /\ Cardinality(AgentIds') \in Nat
  <2>1. IsFiniteSet(AgentIds \cup {id}) /\ Cardinality(AgentIds \cup {id}) <= Cardinality(AgentIds) + 1
    <3>1. /\ IsFiniteSet(AgentIds \cup {id})
          /\ Cardinality(AgentIds \cup {id})
               = IF id \in AgentIds THEN Cardinality(AgentIds) ELSE Cardinality(AgentIds) + 1
      BY FiniteParts, FS_AddElement
    <3> QED
      BY <3>1, FiniteParts
  <2> QED
    BY <1>4, <2>1, FiniteParts, FS_Subset, FS_CardinalityType
<1> QED
  BY <1>6, <1>7, FiniteParts DEF Bounded

\* A step of one handler that inserts nothing.
LEMMA OneHandlerBounded ==
  ASSUME IInv, Bounded, NEW h \in Handlers, GoesOn(h), UNCHANGED table,
         \A g \in Handlers \ {h} : work'[g] = work[g]
  PROVE  Bounded'
<1>1. \A g \in Handlers : GoesOn(g)
  BY DEF GoesOn
<1>2. \A id \in AssetIds : AgentRow(table'[id]) => id \in AgentIds
  BY DEF AgentIds
<1> QED
  BY <1>1, <1>2, NoMoreRows

LEMMA ReadsBounded ==
  ASSUME IInv, Bounded, NEW h \in Handlers, NEW op \in {"heartbeat", "edit", "incident"}, NEW id, NEW arg,
         NEW row, Read(h, op, id, arg, row), op # "incident" /\ AgentRow(row) => AgentRow(table[id])
  PROVE  Bounded'
<1> DEFINE w == [Idle EXCEPT !.op = op, !.id = id, !.arg = arg, !.row = row]
<1>1. work' = [work EXCEPT ![h] = w] /\ UNCHANGED table
  BY DEF Read
<1>2. w.op = op /\ w.id = id /\ w.row = row
  BY DEF Idle
<1> HIDE DEF w
<1>3. work'[h] = w /\ \A g \in Handlers \ {h} : work'[g] = work[g]
  BY <1>1 DEF IInv, Types
<1>4. GoesOn(h)
  BY <1>2, <1>3 DEF GoesOn
<1> QED
  BY <1>1, <1>3, <1>4, OneHandlerBounded

LEMMA HeartbeatReadsBounded ==
  ASSUME IInv, Bounded, NEW h \in Handlers, HeartbeatReads(h)
  PROVE  Bounded'
<1>1. ASSUME NEW id \in First, Read(h, "heartbeat", id, "none", Refreshed(table[id]))
      PROVE  Bounded'
  <2>1. table[id].there
    BY <1>1 DEF Read, Exists
  <2>2. AgentRow(Refreshed(table[id])) => AgentRow(table[id])
    BY <2>1 DEF AgentRow, Refreshed
  <2> QED
    BY <1>1, <2>2, ReadsBounded
<1> QED
  BY <1>1, NoneYetBounded DEF HeartbeatReads

LEMMA UpdateReadsBounded ==
  ASSUME IInv, Bounded, NEW h \in Handlers,
         UpdateAssetReads(h) \/ \E change \in Notes \cup Statuses : UpdateIncidentReads(h, change)
  PROVE  Bounded'
<1>1. ASSUME NEW id \in AssetIds, NEW b \in DOMAIN Bodies, Read(h, "edit", id, b, Decoded(table[id], Bodies[b]))
      PROVE  Bounded'
  <2>1. table[id].there
    BY <1>1 DEF Read, Exists
  <2>2. AgentRow(Decoded(table[id], Bodies[b])) => AgentRow(table[id])
    BY <2>1 DEF AgentRow, Decoded, Of
  <2> QED
    BY <1>1, <2>2, ReadsBounded
<1>2. ASSUME NEW change, UpdateIncidentReads(h, change)
      PROVE  Bounded'
  <2> DEFINE row == IF change \in Notes THEN [table[IncidentId] EXCEPT !.notes = @ \cup {change}]
                    ELSE [table[IncidentId] EXCEPT !.status = change]
  <2>1. Read(h, "incident", IncidentId, change, row)
    BY <1>2 DEF UpdateIncidentReads
  <2> HIDE DEF row
  <2> QED
    BY <2>1, ReadsBounded
<1> QED
  BY <1>1, <1>2 DEF UpdateAssetReads

LEMMA FailsBounded ==
  ASSUME IInv, Bounded, NEW h \in Handlers, Fails(h)
  PROVE  Bounded'
<1>1. work' = [work EXCEPT ![h] = Idle] /\ UNCHANGED table
  BY DEF Fails
<1>2. work'[h].op = "idle" /\ \A g \in Handlers \ {h} : work'[g] = work[g]
  BY <1>1, Rows DEF IInv, Types
<1>3. GoesOn(h)
  BY <1>2 DEF GoesOn
<1> QED
  BY <1>1, <1>2, <1>3, OneHandlerBounded

\* What is outdated goes on.
LEMMA OutdatedGoesOn ==
  ASSUME IInv, NEW id, NEW h \in Handlers, work'[h] = Outdated(id)[h]
  PROVE  GoesOn(h)
<1>1. work[h] \in Work
  BY DEF IInv, Types
<1>2. work'[h].op = work[h].op /\ work'[h].id = work[h].id /\ work'[h].row = work[h].row
  BY <1>1 DEF Outdated, Work
<1> QED
  BY <1>2 DEF GoesOn

\* A save brings back no row that was not counted.
LEMMA SavesBounded ==
  ASSUME IInv, Bounded, NEW h \in Handlers, NEW op \in {"heartbeat", "edit", "incident"}, Save(h, op)
  PROVE  Bounded'
<1> DEFINE id == work[h].id
<1>1. /\ work[h].op = op /\ table' = [table EXCEPT ![id] = work[h].row]
      /\ work' = [Outdated(id) EXCEPT ![h] = Idle]
  BY DEF Save
<1>2. work[h] \in Work /\ id \in Ids /\ Holding(h)
  BY DEF IInv, Types, Work
<1> HIDE DEF id
<1>3. work'[h] = Idle /\ \A g \in Handlers \ {h} : work'[g] = Outdated(id)[g]
  BY <1>1 DEF Outdated
<1>4. \A g \in Handlers : GoesOn(g)
  <2>1. GoesOn(h)
    BY <1>3, Rows DEF GoesOn
  <2> QED
    BY <1>3, <2>1, OutdatedGoesOn
<1>5. ASSUME NEW i \in AssetIds, AgentRow(table'[i]) PROVE i \in AgentIds
  <2>1. CASE i = id
    <3>1. table'[i] = work[h].row
      BY <1>1, <1>2, <2>1 DEF IInv, Types
    <3>2. op # "incident"
      BY <1>1, <1>2, <1>5, <2>1, Numbers DEF Holding, id
    <3> QED
      BY <1>1, <1>5, <2>1, <3>1, <3>2 DEF AgentIds, Holds, id
  <2>2. CASE i # id
    <3>1. table'[i] = table[i]
      BY <1>1, <2>2, Numbers DEF IInv, Types
    <3> QED
      BY <1>5, <3>1 DEF AgentIds
  <2> QED
    BY <2>1, <2>2
<1> QED
  BY <1>4, <1>5, NoMoreRows

LEMMA OtherBounded ==
  ASSUME IInv, Bounded, (\E b \in DOMAIN Bodies : CreateAsset(b)) \/ CreateIncident \/ \E id \in AssetIds : DeleteAsset(id)
  PROVE  Bounded'
<1>1. ASSUME NEW b \in DOMAIN Bodies, CreateAsset(b) PROVE Bounded'
  <2> DEFINE row == Decoded(Blank, Bodies[b])
  <2>1. table' = [table EXCEPT ![created + 1] = row] /\ work' = work
    BY <1>1 DEF CreateAsset, Insert
  <2>2. ~AgentRow(row)
    BY DEF Decoded, Blank, AgentRow
  <2> HIDE DEF row
  <2>3. \A id \in AssetIds : AgentRow(table'[id]) => id \in AgentIds
    BY <2>1, <2>2, Numbers DEF AgentIds, IInv, Types
  <2>4. \A g \in Handlers : GoesOn(g)
    BY <2>1 DEF GoesOn
  <2> QED
    BY <2>3, <2>4, NoMoreRows
<1>2. CASE CreateIncident
  <2>1. work' = work /\ \A id \in AssetIds : table'[id] = table[id]
    BY <1>2, Numbers DEF CreateIncident, IInv, Types
  <2>2. \A id \in AssetIds : AgentRow(table'[id]) => id \in AgentIds
    BY <2>1 DEF AgentIds
  <2>3. \A g \in Handlers : GoesOn(g)
    BY <2>1 DEF GoesOn
  <2> QED
    BY <2>2, <2>3, NoMoreRows
<1>3. ASSUME NEW id \in AssetIds, DeleteAsset(id) PROVE Bounded'
  <2>1. table' = [table EXCEPT ![id] = Absent] /\ work' = Outdated(id)
    BY <1>3 DEF DeleteAsset
  <2>2. ~AgentRow(Absent)
    BY Rows DEF AgentRow
  <2>3. \A i \in AssetIds : AgentRow(table'[i]) => i \in AgentIds
    BY <2>1, <2>2, Numbers DEF AgentIds, IInv, Types
  <2>4. \A g \in Handlers : GoesOn(g)
    BY <2>1, OutdatedGoesOn
  <2> QED
    BY <2>3, <2>4, NoMoreRows
<1> QED
  BY <1>1, <1>2, <1>3

LEMMA SameMaker ==
  ASSUME NEW row \in {Absent} \cup AssetRow
  PROVE  /\ AgentRow(Older(row)) => AgentRow(row)
         /\ AgentRow(Marked(Older(row))) => AgentRow(row)
<1>1. CASE row = Absent
  BY <1>1, Rows DEF Older, Marked, AgentRow
<1>2. CASE row \in AssetRow
  <2>1. Older(row) \in AssetRow /\ Older(row).nameBy = row.nameBy /\ Older(row).name = row.name /\ row.there
    BY <1>2, OlderRow, Rows DEF SameSaying
  <2>2. Marked(Older(row)).nameBy = Older(row).nameBy /\ Marked(Older(row)).name = Older(row).name
    BY <2>1, MarkedRow
  <2> QED
    BY <2>1, <2>2 DEF AgentRow
<1> QED
  BY <1>1, <1>2

LEMMA CollectBounded ==
  ASSUME IInv, Bounded, Collect
  PROVE  Bounded'
<1>1. \A id \in AssetIds : table[id] \in {Absent} \cup AssetRow /\ id \in Ids
  BY Numbers DEF IInv, Types
<1>2. /\ work' = [h \in Handlers |->
                    IF work[h] = Idle THEN Idle ELSE [work[h] EXCEPT !.row = Older(@), !.late = TRUE]]
      /\ \/ table' = [i \in Ids |-> Marked(Older(table[i]))]
         \/ table' = [i \in Ids |-> Older(table[i])]
  BY DEF Collect, Sweep, SweepFails, Pass
<1>3. \A id \in AssetIds : AgentRow(table'[id]) => id \in AgentIds
  BY <1>1, <1>2, SameMaker DEF AgentIds
<1>4. ASSUME NEW h \in Handlers PROVE GoesOn(h)
  <2>1. work[h] \in Work /\ Holding(h)
    BY DEF IInv, Types
  <2>2. CASE work[h] = Idle
    BY <1>2, <2>2, Rows DEF GoesOn
  <2>3. CASE work[h] # Idle
    <3>1. work'[h] = [[work[h] EXCEPT !.row = Older(work[h].row)] EXCEPT !.late = TRUE]
      BY <1>2, <2>3
    <3>2. work'[h].op = work[h].op /\ work'[h].id = work[h].id /\ work'[h].row = Older(work[h].row)
      BY <2>1, <3>1 DEF Work
    <3>3. work[h].op \in {"heartbeat", "edit"} => work[h].row \in AssetRow
      BY <2>1 DEF Holding
    <3> QED
      BY <3>2, <3>3, SameMaker DEF GoesOn, Holds
  <2> QED
    BY <2>2, <2>3
<1> QED
  BY <1>3, <1>4, NoMoreRows

LEMMA BoundedStep == IInv /\ Bounded /\ [Next]_vars => Bounded'
<1> SUFFICES ASSUME IInv, Bounded, [Next]_vars PROVE Bounded'
  OBVIOUS
<1>1. ASSUME NEW h \in Handlers, Heartbeat(h) PROVE Bounded'
  BY <1>1, HeartbeatReadsBounded, RegistersBounded, SavesBounded DEF Heartbeat, HeartbeatSaves
<1>2. ASSUME NEW h \in Handlers, UpdateAsset(h) \/ UpdateIncident(h) PROVE Bounded'
  BY <1>2, UpdateReadsBounded, SavesBounded DEF UpdateAsset, UpdateIncident, UpdateAssetSaves, UpdateIncidentSaves
<1>3. ASSUME NEW h \in Handlers, Refused(h) PROVE Bounded'
  BY <1>3, FailsBounded DEF Refused
<1>4. CASE Other
  BY <1>4, OtherBounded DEF Other
<1>5. CASE Collect
  BY <1>5, CollectBounded
<1>6. CASE UNCHANGED vars
  BY <1>6 DEF vars, Bounded, AgentIds, Registering, Holds
<1> QED
  BY <1>1, <1>2, <1>3, <1>4, <1>5, <1>6 DEF Next

\* However heartbeats register the host twice, and whatever users create, delete and
\* rename meanwhile: of the rows with its hostname, those whose hostname no user wrote
\* are at most as many as there are requests at one time.
THEOREM FewDuplicates == Spec => []DuplicatesAreBounded
<1>1. ASSUME IInv, Bounded PROVE DuplicatesAreBounded
  <2> DEFINE rows == {id \in Known : table[id].nameBy = "agent"}
  <2>1. rows \in SUBSET AgentIds
    BY DEF AgentIds, AgentRow, Known, Exists
  <2>2. IsFiniteSet(rows) /\ Cardinality(rows) <= Cardinality(AgentIds)
    BY <2>1, FiniteParts, FS_Subset
  <2>3. Cardinality(rows) \in Nat
    BY <2>2, FS_CardinalityType
  <2> QED
    BY <1>1, <2>2, <2>3, FiniteParts DEF Bounded, DuplicatesAreBounded
<1>2. IInv /\ Bounded => DuplicatesAreBounded
  BY <1>1
<1>3. Spec => []Bounded
  BY InitBounded, BoundedStep, Invariance, PTL DEF Spec
<1> QED
  BY <1>2, <1>3, Invariance, PTL

================================================================================
