----------------------------- MODULE BackendProofs ------------------------------
(***************************************************************************)
(* The composition runs its two components: what RegistryProofs and        *)
(* UebaWorkerProofs say of them holds of it.                               *)
(***************************************************************************)
EXTENDS Backend, TLAPS

\* Side by side, each component takes the steps it takes alone, and stutters in the steps
\* of the other one.
THEOREM ComponentsRun == BackendSpec => Spec /\ UebaSpec
<1>1. BackendInit => Init /\ UebaInit
  BY DEF BackendInit
<1>2. [BackendNext]_backendVars => [Next]_vars /\ [UebaStep]_uebaVars
  BY DEF BackendNext, backendVars
<1> QED
  BY <1>1, <1>2, PTL DEF BackendSpec, Spec, UebaSpec

================================================================================
