------------------------------- MODULE MCRegistry -------------------------------
(***************************************************************************)
(* Two requests at a time on the rows of one host, or on one incident, or  *)
(* the worker of the AI service with events of two users, whose models do  *)
(* not both fit into its cache.                                            *)
(***************************************************************************)
EXTENDS Backend, TLC

\* The goroutines are alike.
Requests == Permutations(Handlers)

\* One field, the hostname, and a whole asset of some time ago.
MCBodies ==
  [rated |-> [criticality |-> "high"],
   renamed |-> [name |-> "other"],
   whole |-> [name |-> "host", address |-> "edited", status |-> "offline", age |-> Silent,
              criticality |-> "none"]]

MCLog ==
  <<[user |-> "ann", type |-> "file"], [user |-> "bob", type |-> "flow"], [user |-> "ann", type |-> "file"],
    [user |-> "ann", type |-> "flow"]>>

================================================================================
