------------------------------ MODULE MCIngestor -------------------------------
(***************************************************************************)
(* A topic with a pod, a message that is not JSON and a suspicious change  *)
(* of a file, which a restart may have read again; a collector with two    *)
(* events for a channel of one; a queue of one; two workers.               *)
(***************************************************************************)
EXTENDS Ingestor, TLC

CONSTANTS p, g, f, n1, n2, w1, w2

MCEvents == {p, g, f, n1, n2}
MCLog == <<p, g, f>>
MCInternal == {n1, n2}
MCKind == (p :> "pod") @@ (g :> "garbage") @@ (f :> "host") @@ [e \in MCInternal |-> "collected"]
MCKey == [e \in MCEvents |-> e]
MCSuspicious == {f}
MCWorkers == {w1, w2}

\* For the liveness of the pipeline: one event of a collector.
OneInternal == {n1}
FewEvents == {p, g, f, n1}
FewKind == [e \in FewEvents |-> MCKind[e]]

\* For the rows of the assets: two pods, one worker, no collector.
PodEvents == {p, f}
PodLog == <<p, f>>
NoInternal == {}
PodKind == [e \in PodEvents |-> "pod"]
NoneSuspicious == {}
OneWorker == {w1}

================================================================================
