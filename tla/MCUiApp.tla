-------------------------------- MODULE MCUiApp --------------------------------
(* An API that answers every call of the pages. *)
EXTENDS UiApp, TLC

MCCalls == Calls

MCRegistered == RegisteredCalls

\* The places of the requests are alike.
Places == Permutations(Slots)

================================================================================
