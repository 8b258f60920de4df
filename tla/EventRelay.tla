------------------------------ MODULE EventRelay -------------------------------
(***************************************************************************)
(* What the agent's delivery path promises its capture loops: an event it  *)
(* takes is held until Kafka has it, is stored a second time only after a  *)
(* delivery report said it was not stored, and is let go of undelivered    *)
(* only after a fault: a restart, a failed write, a file name used twice.  *)
(***************************************************************************)
EXTENDS Naturals

CONSTANT Events

VARIABLES
  taken,   \* the events the relay has taken from a capture loop
  held,    \* those it has not yet handed to Kafka for good
  stored,  \* how many times Kafka stored each event
  failed,  \* how many failed delivery reports each event had
  faulty   \* whether a fault has happened

relayVars == <<taken, held, stored, failed, faulty>>

RelayInit ==
  /\ taken = {}
  /\ held = {}
  /\ stored = [e \in Events |-> 0]
  /\ failed = [e \in Events |-> 0]
  /\ faulty = FALSE

Accept(e) ==
  /\ e \notin taken
  /\ taken' = taken \cup {e}
  /\ held' = held \cup {e}
  /\ UNCHANGED <<stored, failed, faulty>>

Deliver(e) ==
  /\ e \in held
  /\ held' = held \ {e}
  /\ stored' = [stored EXCEPT ![e] = @ + 1]
  /\ UNCHANGED <<taken, failed, faulty>>

\* The report says "failed": Kafka may have the event, the relay still holds it.
ReportFailure(e) ==
  /\ e \in held
  /\ failed' = [failed EXCEPT ![e] = @ + 1]
  /\ stored' \in {stored, [stored EXCEPT ![e] = @ + 1]}
  /\ UNCHANGED <<taken, held, faulty>>

\* Held events may be lost; the step may be the one that takes a new event.
Fault ==
  /\ faulty' = TRUE
  /\ taken' \subseteq Events
  /\ taken \subseteq taken'
  /\ held' \subseteq held \cup (taken' \ taken)
  /\ UNCHANGED <<stored, failed>>

RelayNext ==
  \/ \E e \in Events : Accept(e) \/ Deliver(e) \/ ReportFailure(e)
  \/ Fault

RelaySpec == RelayInit /\ [][RelayNext]_relayVars

--------------------------------------------------------------------------------

\* What follows from the promise, whoever keeps it.
RelayTypeOK ==
  /\ taken \subseteq Events
  /\ held \subseteq taken
  /\ stored \in [Events -> Nat]
  /\ failed \in [Events -> Nat]
  /\ faulty \in BOOLEAN

\* Without a fault a taken event is held or stored.
NothingLost ==
  ~faulty => \A e \in taken : e \in held \/ stored[e] > 0

\* The copies Kafka has, and the one still held, never outnumber the failed
\* reports by more than one.
NoSpareCopy ==
  \A e \in Events : stored[e] + (IF e \in held THEN 1 ELSE 0) <= 1 + failed[e]

\* An event that was not taken has left no trace.
UntakenIsNew ==
  \A e \in Events \ taken : stored[e] = 0 /\ failed[e] = 0

RelayInv == RelayTypeOK /\ NothingLost /\ NoSpareCopy /\ UntakenIsNew

================================================================================
