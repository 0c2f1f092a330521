----------------------------- MODULE MCVoteList -----------------------------
(* Instances of VoteList for TLC: a votes twice, c is on another chain. *)
EXTENDS VoteList

CONSTANTS a1, a2, b1, c1

MCVoter == [v \in Votes |->
  CASE v \in {a1, a2} -> "a" [] v = b1 -> "b" [] OTHER -> "c"]
\* The votes of a are for different hashes.
MCHashOf == [v \in Votes |-> IF v = a2 THEN "y" ELSE "x"]
MCWeight == [u \in {"a", "b", "c"} |-> IF u = "c" THEN 0 ELSE 1]
=============================================================================
