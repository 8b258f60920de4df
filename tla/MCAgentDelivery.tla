---------------------------- MODULE MCAgentDelivery ----------------------------
(***************************************************************************)
(* Small instances of AgentDelivery: one event of each kind of capture     *)
(* loop, in a buffer of one message.                                       *)
(***************************************************************************)
EXTENDS AgentDelivery

CONSTANTS p1, f1, w1

OneProcess == {p1}
OneFlow == {f1}
OneWatch == {w1}
OneOfEach == {p1, f1, w1}

\* For the stuck queue no watcher event is needed.
NoWatch == {}
QueuedKinds == {p1, f1}

================================================================================
