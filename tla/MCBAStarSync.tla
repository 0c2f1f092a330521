---------------------------- MODULE MCBAStarSync ----------------------------
(* Instances of BAStarSync for TLC. *)
EXTENDS BAStarSync

CONSTANTS n1, p1

\* Sub-users: n1 holds two votes in every step, the other nodes one.
HeavyWeight(n, s) == IF n = n1 THEN 2 ELSE 1

OneChain == [n \in Nodes |-> p1]
OneParent == [b \in Blocks |-> p1]
AllHonest == [n \in Nodes |-> "Honest"]
=============================================================================
