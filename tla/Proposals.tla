----------------------------- MODULE Proposals -----------------------------
(***************************************************************************)
(* Block proposal as one node sees it (algorand.go: blockProposal; peer.go:*)
(* handle for BLOCK, BLOCK_PROPOSAL and FORK_PROPOSAL, setMaxProposal,     *)
(* getMaxProposal, addBlock, getBlock; message.go: Proposal.Verify).  All  *)
(* messages are of one round.                                              *)
(*                                                                         *)
(* Proposals and blocks are gossiped by goroutines of their own, so they   *)
(* arrive in any order, before or after the node itself begins the round,  *)
(* or never.  A handler of a proposal reads the highest proposal so far,   *)
(* compares and verifies without a lock, and stores its own: another       *)
(* handler or blockProposal may have stored a proposal in between.         *)
(***************************************************************************)
EXTENDS Integers

CONSTANTS
  Others,     \* the proposals gossiped by the other users
  Own,        \* the node's own proposal
  Prior,      \* Prior[p]: the priority of proposal p
  BlockOf,    \* BlockOf[p]: the hash of its block
  Valid,      \* Valid[p]: whether Prior[p] is the highest one of p's sub-users
  Type,       \* BLOCK_PROPOSAL or FORK_PROPOSAL
  NoProposal, \* no entry in maxProposals
  NoBlock,    \* blockProposal has not returned
  Empty       \* the empty block

Proposals == Others \cup {Own}
Blocks == {BlockOf[p] : p \in Proposals}

ASSUME ProposalsAssumption ==
  /\ Own \notin Others
  /\ NoProposal \notin Proposals
  /\ Prior \in [Proposals -> Nat]
  /\ Valid \in [Proposals -> BOOLEAN]
  /\ Type \in {"BLOCK_PROPOSAL", "FORK_PROPOSAL"}

VARIABLES
  maxProposal, \* maxProposals[round]
  proposed,    \* whether the node has proposed a block
  blocks,      \* the hashes of the blocks in peer.blocks
  flying,      \* the blocks of the other users that have not arrived
  hpc,         \* hpc[p]: where the handler of proposal p is
  seen,        \* seen[p]: the highest proposal it has read
  pc,          \* where blockProposal is
  pp,          \* the proposal whose block a tick looks up
  block,       \* the block blockProposal returned
  raced        \* history: a proposal was replaced that its successor had not read

vars == <<maxProposal, proposed, blocks, flying, hpc, seen, pc, pp, block, raced>>

-----------------------------------------------------------------------------
(* The peer: one goroutine per message.                                    *)

(* A BLOCK message arrives. *)
handleBlock(p) ==
  /\ p \in flying
  /\ flying' = flying \ {p}
  /\ blocks' = blocks \cup {BlockOf[p]}
  /\ UNCHANGED <<maxProposal, proposed, hpc, seen, pc, pp, block, raced>>

(* Mutant: a proposal of the same priority is let through. *)
MutOutdone(p) ==
  /\ maxProposal # NoProposal
  /\ \/ Type = "BLOCK_PROPOSAL" /\ Prior[p] < Prior[maxProposal]
     \/ Type = "FORK_PROPOSAL"

(* Mutant: the comparison is the wrong way round. *)
MutOutdoneLess(p) ==
  /\ maxProposal # NoProposal
  /\ \/ Type = "BLOCK_PROPOSAL" /\ Prior[p] >= Prior[maxProposal]
     \/ Type = "FORK_PROPOSAL"

(* Proposal p is dropped for the one that is stored.  Both are of the same
   round, so a fork proposal is dropped whenever one is stored.            *)
Outdone(p) ==
  /\ maxProposal # NoProposal
  /\ \/ Type = "BLOCK_PROPOSAL" /\ Prior[p] <= Prior[maxProposal]
     \/ Type = "FORK_PROPOSAL"

(* A proposal arrives and is compared with the one that is stored. *)
handleProposal(p) ==
  /\ hpc[p] = "flying"
  /\ seen' = [seen EXCEPT ![p] = maxProposal]
  /\ hpc' = [hpc EXCEPT ![p] = IF Outdone(p) THEN "done" ELSE "verify"]
  /\ UNCHANGED <<maxProposal, proposed, blocks, flying, pc, pp, block, raced>>

(* Mutant: the result of Verify is ignored. *)
MutVerify(p) == TRUE

Verify(p) == Valid[p]

(* setMaxProposal by a goroutine that has read `known' before. *)
setMaxProposal(p, known) ==
  /\ maxProposal' = p
  /\ raced' = (raced \/ maxProposal # known)

(* The proposal is verified, and stored if it is valid. *)
handleVerify(p) ==
  /\ hpc[p] = "verify"
  /\ hpc' = [hpc EXCEPT ![p] = "done"]
  /\ IF Verify(p) THEN setMaxProposal(p, seen[p]) ELSE UNCHANGED <<maxProposal, raced>>
  /\ UNCHANGED <<proposed, blocks, flying, seen, pc, pp, block>>

-----------------------------------------------------------------------------
(* blockProposal, in the goroutine of the node.                            *)

(* Sortition selects the node as a proposer: it stores its own proposal
   without a look at the one that is stored.                               *)
propose ==
  /\ pc = "start"
  /\ pc' = "wait"
  /\ setMaxProposal(Own, NoProposal)
  /\ blocks' = blocks \cup {BlockOf[Own]}
  /\ proposed' = TRUE
  /\ UNCHANGED <<flying, hpc, seen, pp, block>>

(* Sortition does not select the node. *)
notSelected ==
  /\ pc = "start"
  /\ pc' = "wait"
  /\ UNCHANGED <<maxProposal, blocks, proposed, flying, hpc, seen, pp, block, raced>>

(* The time to identify the highest priority is over. *)
timeoutForPriority ==
  /\ pc = "wait"
  /\ pc' = "poll"
  /\ UNCHANGED <<maxProposal, proposed, blocks, flying, hpc, seen, pp, block, raced>>

return(b) ==
  /\ pc' = "done"
  /\ block' = b
  /\ UNCHANGED <<maxProposal, proposed, blocks, flying, hpc, seen, pp, raced>>

(* A tick reads the stored proposal, if there is one. *)
tick ==
  /\ pc = "poll"
  /\ maxProposal # NoProposal
  /\ pp' = maxProposal
  /\ pc' = "look"
  /\ UNCHANGED <<maxProposal, proposed, blocks, flying, hpc, seen, block, raced>>

(* It then looks the block of that proposal up, under a lock of its own, and
   waits for the next tick if it has not arrived.                          *)
getBlock ==
  /\ pc = "look"
  /\ \/ /\ BlockOf[pp] \in blocks
        /\ return(BlockOf[pp])
     \/ /\ BlockOf[pp] \notin blocks
        /\ pc' = "poll"
        /\ UNCHANGED <<maxProposal, proposed, blocks, flying, hpc, seen, pp, block, raced>>

(* Mutant: without a block in time blockProposal returns nil. *)
MutTimeoutForBlockFlying ==
  /\ pc = "poll"
  /\ return(NoProposal)

(* No such block has arrived in time: the empty block is returned. *)
timeoutForBlockFlying ==
  /\ pc = "poll"
  /\ return(Empty)

-----------------------------------------------------------------------------
Init ==
  /\ maxProposal = NoProposal
  /\ proposed = FALSE
  /\ blocks = {}
  /\ flying = Others
  /\ hpc = [p \in Others |-> "flying"]
  /\ seen = [p \in Others |-> NoProposal]
  /\ pc = "start"
  /\ pp = NoProposal
  /\ block = NoBlock
  /\ raced = FALSE

Next ==
  \/ \E p \in Others : handleBlock(p) \/ handleProposal(p) \/ handleVerify(p)
  \/ propose
  \/ notSelected
  \/ timeoutForPriority
  \/ tick
  \/ getBlock
  \/ timeoutForBlockFlying

Spec == Init /\ [][Next]_vars

-----------------------------------------------------------------------------
(* Every variable stays in its type. *)
TypeOK ==
  /\ maxProposal \in Proposals \cup {NoProposal}
  /\ proposed \in BOOLEAN
  /\ blocks \subseteq Blocks
  /\ flying \subseteq Others
  /\ hpc \in [Others -> {"flying", "verify", "done"}]
  /\ seen \in [Others -> Proposals \cup {NoProposal}]
  /\ pc \in {"start", "wait", "poll", "look", "done"}
  /\ pp \in Proposals \cup {NoProposal}
  /\ block \in Blocks \cup {Empty, NoBlock}
  /\ raced \in BOOLEAN

(* The valid proposals the node knows of: its own and those it has handled. *)
Known ==
  {p \in Others : hpc[p] = "done" /\ Valid[p]}
    \cup {p \in {Own} : proposed}

(* The proposal that is stored has the highest priority of those handled. *)
HighestPriority ==
  \A p \in Known : maxProposal # NoProposal /\ Prior[p] <= Prior[maxProposal]

(* The highest priority is missed only by a race: as long as every goroutine
   that stored a proposal had read the one it replaced, the proposal that
   blockProposal polls is the highest valid one handled so far.            *)
HighestUnlessRaced == ~raced => HighestPriority

(* Of two versions of a block with the same priority, which a misbehaving
   proposer sends, the node stays with the first: without a race a stored
   proposal gives way only to one of higher priority.                      *)
OnlyUp ==
  [][ /\ maxProposal' # maxProposal
      /\ maxProposal # NoProposal
      /\ ~raced'
      => Prior[maxProposal'] > Prior[maxProposal] ]_vars

(* Races or not, the block a node takes into BA is its own or that of a
   proposal that passed Verify, and it has the block itself.               *)
BlockVerified ==
  block \notin {NoBlock, Empty} =>
    /\ block \in blocks
    /\ \E p \in Known : BlockOf[p] = block

-----------------------------------------------------------------------------
(* The inductive invariant behind these properties.                        *)

(* A handler that verifies a proposal has found it to be higher than the one
   it read.                                                                *)
SeenInv ==
  \A p \in Others :
    hpc[p] = "verify" /\ seen[p] # NoProposal
      => Type = "BLOCK_PROPOSAL" /\ Prior[p] > Prior[seen[p]]

(* The proposal that is stored and the one a tick has read are known, and
   what blockProposal returned is the block of a known proposal.           *)
KnownInv ==
  /\ maxProposal \in Known \cup {NoProposal}
  /\ pp \in Known \cup {NoProposal}
  /\ pc = "look" => pp # NoProposal
  /\ block \notin {NoBlock, Empty} =>
       block \in blocks /\ \E p \in Known : BlockOf[p] = block

IInv ==
  /\ TypeOK
  /\ SeenInv
  /\ KnownInv
  /\ Type = "BLOCK_PROPOSAL" => HighestUnlessRaced

=============================================================================
