--------------------------- MODULE RoundConsensus ---------------------------
(***************************************************************************)
(* What a round of consensus promises to the chains above it, however it   *)
(* is reached (processMain: "reach consensus on a FINAL or TENTATIVE new   *)
(* block").  Every node gets at most one result.  At most one non-empty    *)
(* block is among the results, and a FINAL result is that block: the nodes *)
(* never part between two proposals.  They may part between the block and  *)
(* the empty one, also when it is FINAL for some: the committees of FINAL  *)
(* and of a later step may have no user in common.                         *)
(***************************************************************************)
CONSTANTS Nodes, Blocks, Empties, NoHash

VARIABLE result

NoResult == [type |-> "none", hash |-> NoHash]

Init == result = [n \in Nodes |-> NoResult]

Given == {m \in Nodes : result[m] # NoResult}

(* h is no other block than those given. *)
Agrees(h) == \A m \in Given : result[m].hash \in Blocks /\ h \in Blocks => result[m].hash = h

(* processMain gets block h from BA. *)
Tentative(n, h) ==
  /\ result[n] = NoResult
  /\ Agrees(h)
  /\ result' = [result EXCEPT ![n] = [type |-> "TENTATIVE_CONSENSUS", hash |-> h]]

Final(n, h) ==
  /\ result[n] = NoResult
  /\ h \in Blocks /\ Agrees(h)
  /\ result' = [result EXCEPT ![n] = [type |-> "FINAL_CONSENSUS", hash |-> h]]

Next ==
  \E n \in Nodes, h \in Blocks \cup Empties : Tentative(n, h) \/ Final(n, h)

Spec == Init /\ [][Next]_result

=============================================================================
