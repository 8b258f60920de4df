------------------------------ MODULE RowHandlers ------------------------------
(***************************************************************************)
(* How the API's handlers change a row: read it into a struct, change some *)
(* fields of the struct, save the struct.  There is no transaction around  *)
(* it and no version in the row, so a goroutine saves every field as it    *)
(* was when it read.                                                       *)
(***************************************************************************)
EXTENDS Naturals, FiniteSets

CONSTANTS
  Handlers,  \* bound: goroutines that serve requests at one time
  MaxAssets  \* bound: assets ever created

VARIABLES
  table,   \* the rows, by id
  work,    \* what each handler has read, changed and is going to save
  agreed,  \* history: what the last acknowledged change of each row said
  torn     \* history: the rows saved from a copy another handler had overtaken

AssetIds == 1..MaxAssets
IncidentId == 0
Ids == AssetIds \cup {IncidentId}

Absent == [there |-> FALSE]

Exists(id) == table[id].there

Idle == [op |-> "idle", id |-> IncidentId, row |-> Absent, arg |-> "none", stale |-> FALSE, late |-> FALSE]

\* First: a row that is there is copied, and the copy changed to this row.
Read(h, op, id, arg, row) ==
  /\ work[h] = Idle
  /\ Exists(id)
  /\ work' = [work EXCEPT ![h] = [Idle EXCEPT !.op = op, !.id = id, !.arg = arg, !.row = row]]
  /\ UNCHANGED <<table, agreed, torn>>

\* The copies of a row that is written are out of date.
Outdated(id) ==
  [h \in Handlers |->
     IF work[h].row.there /\ work[h].id = id THEN [work[h] EXCEPT !.stale = TRUE] ELSE work[h]]

\* Save: all fields are updated, and a row that was deleted is inserted again.
Save(h, op) ==
  LET id == work[h].id
  IN  /\ work[h].op = op
      /\ table' = [table EXCEPT ![id] = work[h].row]
      /\ work' = [Outdated(id) EXCEPT ![h] = Idle]
      /\ torn' = IF work[h].stale THEN torn \cup {id} ELSE torn

\* The database refuses, or the request is cut off: the client is told so.
Fails(h) ==
  /\ work[h] # Idle
  /\ work' = [work EXCEPT ![h] = Idle]
  /\ UNCHANGED <<table, agreed, torn>>

================================================================================
