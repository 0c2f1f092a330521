---------------------------- MODULE MCProposals ----------------------------
(* Instances of Proposals for TLC. *)
EXTENDS Proposals

CONSTANTS p1, p2, p3, p4

\* p1 and p2 are two versions by one proposer, p3 is higher, p4 the highest
\* but invalid; the node's own priority is between them.
MCPrior == [p \in Proposals |->
  CASE p \in {p1, p2} -> 1 [] p = Own -> 2 [] p = p3 -> 3 [] p = p4 -> 4]
MCBlockOf == [p \in Proposals |-> <<"block", p>>]
MCValid == [p \in Proposals |-> p # p4]
=============================================================================
