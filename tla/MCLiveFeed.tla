------------------------------ MODULE MCLiveFeed -------------------------------
(* One dashboard, its connections, and one worker that broadcasts. *)
EXTENDS LiveFeed, TLC

CONSTANTS c1, c2, w1

OneConn == {c1}
TwoConns == {c1, c2}
OneWorker == {w1}

\* The connections differ in nothing but their names.
ConnSymmetry == Permutations(Conns)

================================================================================
