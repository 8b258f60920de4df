-------------------------------- MODULE Registry --------------------------------
(***************************************************************************)
(* The handlers of the API at work on assets and incidents, and the job    *)
(* that looks for silent hosts.                                            *)
(***************************************************************************)
EXTENDS AssetRegistry, IncidentRegistry

vars == <<table, work, agreed, torn, counts, noted>>

ASSUME RegistryAssumption ==
  /\ IsFiniteSet(Handlers) /\ MaxAssets \in Nat /\ MaxWrites \in Nat
  /\ \A b \in DOMAIN Bodies : Decoded(Blank, Bodies[b]) \in AssetRow

Init ==
  /\ table = [id \in Ids |-> Absent]
  /\ work = [h \in Handlers |-> Idle]
  /\ agreed = [id \in Ids |-> IF id \in AssetIds THEN NothingSaid ELSE "none"]
  /\ torn = {}
  /\ created = 0
  /\ writes = 0
  /\ noted = {}

\* Bound: a behaviour is about assets or about an incident.  Requests to the two tables
\* touch nothing in common.
AboutAssets == ~Exists(IncidentId)
AboutIncidents == created = 0 /\ \A h \in Handlers : work[h].op # "register"

Heartbeat(h) ==
  /\ AboutAssets
  /\ HeartbeatReads(h) \/ HeartbeatRegisters(h) \/ HeartbeatSaves(h)
  /\ UNCHANGED noted

UpdateAsset(h) ==
  /\ UpdateAssetReads(h) \/ UpdateAssetSaves(h)
  /\ UNCHANGED noted

UpdateIncident(h) ==
  /\ (\E change \in Notes \cup Statuses : UpdateIncidentReads(h, change)) \/ UpdateIncidentSaves(h)
  /\ UNCHANGED counts

Refused(h) == Fails(h) /\ UNCHANGED <<counts, noted>>

Other ==
  \/ /\ AboutAssets
     /\ \/ \E b \in DOMAIN Bodies : CreateAsset(b)
        \/ \E id \in AssetIds : DeleteAsset(id)
     /\ UNCHANGED noted
  \/ AboutIncidents /\ CreateIncident /\ UNCHANGED counts

Collect == AboutAssets /\ (Sweep \/ SweepFails) /\ UNCHANGED noted

Next ==
  \/ \E h \in Handlers : Heartbeat(h) \/ UpdateAsset(h) \/ UpdateIncident(h) \/ Refused(h)
  \/ Other
  \/ Collect

Spec == Init /\ [][Next]_vars

--------------------------------------------------------------------------------

TypeOK ==
  /\ \A id \in AssetIds : Exists(id) => table[id] \in AssetRow
  /\ Exists(IncidentId) => table[IncidentId].status \in Statuses /\ table[IncidentId].notes \subseteq Notes
  /\ \A h \in Handlers : work[h].op \in {"idle", "register", "heartbeat", "edit", "incident"}
  /\ torn \subseteq Ids
  /\ created \in 0..MaxAssets

\* Two heartbeats that both find no row make two, and the handlers do not rely on more:
\* the agent's requests leave at most as many rows of its host as there are requests at
\* one time, however users delete and rename rows meanwhile and late saves bring them
\* back.  (A row whose hostname a user wrote is the user's, and not counted.)
DuplicatesAreBounded ==
  Cardinality({id \in Known : table[id].nameBy = "agent"}) <= Cardinality(Handlers)

Keeps(row, said) ==
  /\ said.name \in {"any", row.name} /\ said.address \in {"any", row.address}
  /\ said.status \in {"any", row.status} /\ said.criticality \in {"any", row.criticality}

\* What a user was told is stored stays until the next one writes it: for good the
\* hostname and the criticality, until the next heartbeat what the agent reports, and
\* the status also until the collector finds the host silent.  Between reading a row
\* and saving it a handler may be overtaken.  Only then is more undone than that, or a
\* deleted asset back.
EditsAreKept ==
  \A id \in AssetIds \ torn :
    IF agreed[id].there THEN Exists(id) => Keeps(table[id], agreed[id]) ELSE ~Exists(id)

\* A row whose last report is within ten minutes is online, although the collector
\* sweeps between the reading and the saving of heartbeats and edits, and whatever
\* overtakes what: unless a user wrote its status or its last heartbeat after that.
ReportingHostIsOnline ==
  \A id \in AssetIds :
    Exists(id) /\ table[id].statusBy = "agent" /\ table[id].age < Silent => table[id].status = "online"

\* An incident keeps the last status, and every note, its users were told is stored,
\* unless one update overtook another.
NotesAreKept ==
  Exists(IncidentId) /\ IncidentId \notin torn
  => table[IncidentId].status = agreed[IncidentId] /\ table[IncidentId].notes = noted

================================================================================
