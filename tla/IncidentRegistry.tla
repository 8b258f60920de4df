---------------------------- MODULE IncidentRegistry ----------------------------
(***************************************************************************)
(* One incident: made by a user, the correlation or the AI service, then   *)
(* changed by users, who set its status and append notes.  The notes are   *)
(* one column, read, extended and written back with the rest of the row.   *)
(***************************************************************************)
EXTENDS RowHandlers

VARIABLE noted   \* history: the notes whose author was told that they are kept

Notes == {"note1", "note2"}
Statuses == {"Open", "Resolved"}

\* A new incident whose status is what the body says, or nothing.
CreateIncidentAsSent ==
  /\ ~Exists(IncidentId)
  /\ table' = [table EXCEPT ![IncidentId] = [there |-> TRUE, status |-> "", notes |-> {}]]
  /\ agreed' = [agreed EXCEPT ![IncidentId] = ""]
  /\ UNCHANGED <<work, torn, noted>>

\* CreateIncident: without a status in its body it is open.
CreateIncident ==
  /\ ~Exists(IncidentId)
  /\ table' = [table EXCEPT ![IncidentId] = [there |-> TRUE, status |-> "Open", notes |-> {}]]
  /\ agreed' = [agreed EXCEPT ![IncidentId] = "Open"]
  /\ UNCHANGED <<work, torn, noted>>

\* An update that starts the notes anew.
UpdateIncidentReadsStatus(h, change) ==
  LET row == table[IncidentId]
  IN  /\ Read(h, "incident", IncidentId, change,
              IF change \in Notes THEN [row EXCEPT !.notes = {change}] ELSE [row EXCEPT !.status = change])
      /\ UNCHANGED noted

\* UpdateIncident, with a status or a note.
UpdateIncidentReads(h, change) ==
  LET row == table[IncidentId]
  IN  /\ Read(h, "incident", IncidentId, change,
              IF change \in Notes THEN [row EXCEPT !.notes = @ \cup {change}] ELSE [row EXCEPT !.status = change])
      /\ UNCHANGED noted

UpdateIncidentSaves(h) ==
  /\ Save(h, "incident")
  /\ IF work[h].arg \in Notes
     THEN noted' = noted \cup {work[h].arg} /\ UNCHANGED agreed
     ELSE agreed' = [agreed EXCEPT ![IncidentId] = work[h].arg] /\ UNCHANGED noted

================================================================================
