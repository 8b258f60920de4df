-------------------------------- MODULE Backend ---------------------------------
(***************************************************************************)
(* The registries of the API, and the worker of the AI service, which      *)
(* reports what it finds to them.  As CreateIncident refuses the reports,  *)
(* the two share nothing.                                                  *)
(***************************************************************************)
EXTENDS Registry, UebaWorker

backendVars == <<vars, uebaVars>>

BackendInit == Init /\ UebaInit

\* Bound: a behaviour is about the registries or about the worker.
Untouched == created = 0 /\ ~Exists(IncidentId) /\ \A h \in Handlers : work[h] = Idle
WorkerIsNew == read = 0 /\ starts = 0

BackendNext ==
  \/ WorkerIsNew /\ Next /\ UNCHANGED uebaVars
  \/ Untouched /\ UebaStep /\ UNCHANGED vars

BackendSpec == BackendInit /\ [][BackendNext]_backendVars

================================================================================
