---------------------------- MODULE MCWebsocketHub -----------------------------
(***************************************************************************)
(* Two connections and two workers for safety, one connection for liveness. *)
(***************************************************************************)
EXTENDS WebsocketHub

CONSTANTS c1, c2, w1, w2

OneConn == {c1}
TwoConns == {c1, c2}
TwoWorkers == {w1, w2}

================================================================================
