------------------------------ MODULE MCBAStar ------------------------------
(* Instances of BAStar for TLC. *)
EXTENDS BAStar, TLC

CONSTANTS n1, n2, n3, n4, b2, p1, p2

\* Sub-users: every node is selected once in every step.
UnitWeight(n, s) == 1
\* Two or three of four nodes are on the committee of a step, and the users that
\* reach the threshold in FINAL need not be among those of the later steps.
Committee(s) ==
  CASE s \in {REDUCTION_ONE, REDUCTION_TWO} -> (n2 :> 1 @@ n3 :> 1 @@ n4 :> 1)
    [] s = 1     -> (n2 :> 2 @@ n3 :> 1)
    [] s = FINAL -> (n3 :> 2 @@ n4 :> 1)
    [] OTHER     -> (n4 :> 2 @@ n1 :> 1)
TurnWeight(n, s) == IF n \in DOMAIN Committee(s) THEN Committee(s)[n] ELSE 0
\* n1 holds one vote in every step, the other nodes two.
LightWeight(n, s) == IF n = n1 THEN 1 ELSE 2

\* All chains end with the same block.
OneChain == [n \in Nodes |-> p1]
OneParent == [b \in Blocks |-> p1]
\* The chain of n1 has forked, and block b2 extends it.
Fork == [n \in Nodes |-> IF n = n1 THEN p2 ELSE p1]
ForkParent == [b \in Blocks |-> IF b = b2 THEN p2 ELSE p1]

AllHonest == [n \in Nodes |-> "Honest"]
\* n1 votes for the empty block.
Malicious == [n \in Nodes |-> IF n = n1 THEN "EvilVoteEmpty" ELSE "Honest"]

\* The nodes and blocks that a configuration does not tell apart.
UnitSymmetry == Permutations(Nodes) \cup Permutations(Blocks)
TurnSymmetry == Permutations(Blocks)
ForkSymmetry == Permutations(Nodes \ {n1})
=============================================================================
