----------------------------- MODULE Blockchain -----------------------------
(***************************************************************************)
(* The chain of one node (blockchain.go).  Hashes are injective, so a block *)
(* stands for its hash and the ParentHash field holds the parent itself.   *)
(* The map from rounds to maps from hashes to blocks is the set of the     *)
(* blocks in it, as a block is stored under its own round and hash.        *)
(***************************************************************************)
EXTENDS Integers

VARIABLES
  blocks, \* the blocks in the map
  last    \* the last block

chainVars == <<blocks, last>>

(* No block. *)
Nil == [round |-> -1]

genesis == [round |-> 0, parent |-> Nil, id |-> "genesis"]

(* Mutant: an empty block is of the round of its parent. *)
MutEmptyBlock(round, prev) == [round |-> prev.round, parent |-> prev, id |-> "empty"]

emptyBlock(round, prev) == [round |-> round, parent |-> prev, id |-> "empty"]

InitChain ==
  /\ blocks = {genesis}
  /\ last = genesis

get(hash, round) == IF hash \in blocks /\ hash.round = round THEN hash ELSE Nil

(* The loop of getByRound ends before its third test: what get finds in the
   map of round - 1 is a block of round - 1.  If it finds nothing, the loop
   or the caller panics on nil.                                            *)
getByRound(round) ==
  IF round = 0 \/ last.round = round THEN last ELSE get(last.parent, round - 1)

(* Mutant: a block that becomes the last one is not stored. *)
MutAdd(blk) ==
  /\ blocks' = IF blk.round > last.round THEN blocks ELSE blocks \cup {blk}
  /\ last' = IF blk.round > last.round THEN blk ELSE last

add(blk) ==
  /\ blocks' = blocks \cup {blk}
  /\ last' = IF blk.round > last.round THEN blk ELSE last

resolveFork(fork) ==
  /\ last' = fork
  /\ UNCHANGED blocks

-----------------------------------------------------------------------------
(* The node holds its whole chain, but for the blocks in gaps: the last block
   is stored, and with every block its parent, of the round before, down to
   genesis.  The lookups of seeds by the following rounds rely on it.      *)
LinkedBut(gaps) ==
  /\ last \in blocks
  /\ \A b \in blocks \ {genesis} :
       b.parent \in blocks \cup gaps /\ b.parent.round = b.round - 1

=============================================================================
