-------------------------- MODULE ProposalsProofs --------------------------
(***************************************************************************)
(* Proofs about Proposals, for any set of proposals with any priorities.   *)
(*                                                                         *)
(* IInv is inductive.  The argument about the highest priority rests on    *)
(* SeenInv: a handler that is about to store p has found p to be higher    *)
(* than the proposal it read.  If that one is still stored, p is higher    *)
(* than everything handled so far; if not, the step sets raced.            *)
(***************************************************************************)
EXTENDS Proposals, TLAPS

(* Nothing is stored and nothing is read when the round begins. *)
LEMMA InitIInv == Init => IInv
  BY ProposalsAssumption
     DEF Init, IInv, TypeOK, SeenInv, KnownInv, HighestUnlessRaced, HighestPriority,
         Known, Proposals, Blocks

(* Every step keeps the types. *)
LEMMA NextTypeOK == TypeOK /\ [Next]_vars => TypeOK'
<1> SUFFICES ASSUME TypeOK, [Next]_vars PROVE TypeOK'
  OBVIOUS
<1> USE ProposalsAssumption DEF TypeOK, Proposals, Blocks
<1>1. CASE \E p \in Others : handleBlock(p)
  BY <1>1 DEF handleBlock
<1>2. CASE \E p \in Others : handleProposal(p)
  BY <1>2 DEF handleProposal
<1>3. CASE \E p \in Others : handleVerify(p)
  BY <1>3 DEF handleVerify, setMaxProposal
<1>4. CASE propose
  BY <1>4 DEF propose, setMaxProposal
<1>5. CASE notSelected \/ timeoutForPriority \/ tick
  BY <1>5 DEF notSelected, timeoutForPriority, tick
<1>6. CASE getBlock
  <2>1. CASE BlockOf[pp] \in blocks
    BY <1>6, <2>1 DEF getBlock, return
  <2>2. CASE BlockOf[pp] \notin blocks
    BY <1>6, <2>2 DEF getBlock
  <2> QED
    BY <2>1, <2>2
<1>7. CASE timeoutForBlockFlying
  BY <1>7 DEF timeoutForBlockFlying, return
<1>8. CASE UNCHANGED vars
  BY <1>8 DEF vars
<1> QED
  BY <1>1, <1>2, <1>3, <1>4, <1>5, <1>6, <1>7, <1>8 DEF Next

(* A handler verifies only what it has found to be higher. *)
LEMMA NextSeenInv == TypeOK /\ SeenInv /\ [Next]_vars => SeenInv'
<1> SUFFICES ASSUME TypeOK, SeenInv, [Next]_vars PROVE SeenInv'
  OBVIOUS
<1> USE ProposalsAssumption DEF SeenInv
<1>1. ASSUME NEW p \in Others, handleProposal(p) PROVE SeenInv'
  <2> SUFFICES ASSUME NEW q \in Others, hpc'[q] = "verify", seen'[q] # NoProposal
               PROVE  Type = "BLOCK_PROPOSAL" /\ Prior[q] > Prior[seen'[q]]
    OBVIOUS
  <2>1. CASE q # p
    BY <1>1, <2>1 DEF handleProposal, TypeOK
  <2>2. CASE q = p
    <3>1. ~Outdone(p) /\ seen'[p] = maxProposal
      BY <1>1, <2>2 DEF handleProposal, TypeOK
    <3>2. maxProposal \in Proposals /\ p \in Proposals
      BY <2>2, <3>1 DEF TypeOK, Proposals
    <3> QED
      BY <2>2, <3>1, <3>2 DEF Outdone
  <2> QED
    BY <2>1, <2>2
<1>2. ASSUME NEW p \in Others, handleVerify(p) PROVE SeenInv'
  BY <1>2 DEF handleVerify, TypeOK
<1>3. CASE UNCHANGED <<hpc, seen>>
  BY <1>3
<1>4. CASE \E p \in Others : handleBlock(p)
  BY <1>3, <1>4 DEF handleBlock
<1>5. CASE propose \/ notSelected \/ timeoutForPriority \/ tick \/ getBlock
             \/ timeoutForBlockFlying
  BY <1>3, <1>5
     DEF propose, notSelected, timeoutForPriority, tick, getBlock,
         timeoutForBlockFlying, return
<1> QED
  BY <1>1, <1>2, <1>3, <1>4, <1>5 DEF Next, vars

(* What is known stays known, and blocks are not forgotten. *)
LEMMA KnownGrows ==
  TypeOK /\ [Next]_vars => Known \subseteq Known' /\ blocks \subseteq blocks'
<1> SUFFICES ASSUME TypeOK, [Next]_vars
             PROVE  Known \subseteq Known' /\ blocks \subseteq blocks'
  OBVIOUS
<1> USE DEF Known, TypeOK
<1>1. CASE \E p \in Others : handleBlock(p) \/ handleProposal(p) \/ handleVerify(p)
  BY <1>1 DEF handleBlock, handleProposal, handleVerify
<1>2. CASE propose \/ notSelected \/ timeoutForPriority \/ tick \/ getBlock
             \/ timeoutForBlockFlying \/ UNCHANGED vars
  BY <1>2
     DEF propose, notSelected, timeoutForPriority, tick, getBlock,
         timeoutForBlockFlying, return, vars
<1> QED
  BY <1>1, <1>2 DEF Next

(* Only known proposals are stored, read by a tick and returned. *)
LEMMA NextKnownInv == TypeOK /\ KnownInv /\ [Next]_vars => KnownInv'
<1> SUFFICES ASSUME TypeOK, KnownInv, [Next]_vars PROVE KnownInv'
  OBVIOUS
<1>1. Known \subseteq Known' /\ blocks \subseteq blocks'
  BY KnownGrows
<1>2. maxProposal' \in Known' \cup {NoProposal}
  <2>1. CASE UNCHANGED maxProposal
    BY <1>1, <2>1 DEF KnownInv
  <2>2. ASSUME NEW p \in Others, handleVerify(p), Valid[p], maxProposal' = p
        PROVE  maxProposal' \in Known' \cup {NoProposal}
    BY <2>2 DEF handleVerify, Known, TypeOK
  <2>3. CASE propose
    BY <2>3 DEF propose, setMaxProposal, Known
  <2>4. ASSUME NEW p \in Others, handleVerify(p)
        PROVE  (Valid[p] /\ maxProposal' = p) \/ UNCHANGED maxProposal
    BY <2>4 DEF handleVerify, Verify, setMaxProposal
  <2> QED
    BY <2>1, <2>2, <2>3, <2>4
       DEF Next, vars, handleBlock, handleProposal, notSelected, timeoutForPriority,
           tick, getBlock, timeoutForBlockFlying, return
<1>3. pp' \in Known' \cup {NoProposal} /\ (pc' = "look" => pp' # NoProposal)
  <2>1. CASE tick
    BY <1>1, <2>1 DEF tick, KnownInv
  <2>2. CASE UNCHANGED pp /\ (pc' = "look" => pc = "look")
    BY <1>1, <2>2 DEF KnownInv
  <2>3. tick \/ (UNCHANGED pp /\ (pc' = "look" => pc = "look"))
    BY DEF Next, vars, handleBlock, handleProposal, handleVerify, propose, notSelected,
           timeoutForPriority, getBlock, timeoutForBlockFlying, return
  <2> QED
    BY <2>1, <2>2, <2>3
<1>4. block' \notin {NoBlock, Empty} =>
        block' \in blocks' /\ \E p \in Known' : BlockOf[p] = block'
  <2>1. CASE UNCHANGED block
    BY <1>1, <2>1 DEF KnownInv
  <2>2. CASE getBlock /\ BlockOf[pp] \in blocks
    BY <1>1, <2>2 DEF getBlock, return, KnownInv
  <2>3. CASE timeoutForBlockFlying
    BY <2>3 DEF timeoutForBlockFlying, return
  <2>4. \/ UNCHANGED block
        \/ getBlock /\ BlockOf[pp] \in blocks
        \/ timeoutForBlockFlying
    BY DEF Next, vars, handleBlock, handleProposal, handleVerify, propose, notSelected,
           timeoutForPriority, tick, getBlock
  <2> QED
    BY <2>1, <2>2, <2>3, <2>4
<1> QED
  BY <1>2, <1>3, <1>4 DEF KnownInv

(* When a step stores p without a race, p is higher than the proposal it
   replaces, or there was none.                                            *)
LEMMA StoreUp ==
  ASSUME IInv, [Next]_vars, maxProposal' # maxProposal, ~raced'
  PROVE  /\ ~raced
         /\ \/ maxProposal = NoProposal
            \/ /\ Type = "BLOCK_PROPOSAL"
               /\ Prior[maxProposal'] > Prior[maxProposal]
<1>1. CASE propose
  BY <1>1 DEF propose, setMaxProposal
<1>2. ASSUME NEW p \in Others, handleVerify(p)
      PROVE  /\ ~raced
             /\ \/ maxProposal = NoProposal
                \/ /\ Type = "BLOCK_PROPOSAL"
                   /\ Prior[maxProposal'] > Prior[maxProposal]
  <2>1. hpc[p] = "verify" /\ maxProposal' = p /\ maxProposal = seen[p] /\ ~raced
    BY <1>2 DEF handleVerify, setMaxProposal
  <2> QED
    BY <2>1 DEF IInv, SeenInv
<1> QED
  BY <1>1, <1>2
     DEF Next, vars, handleBlock, handleProposal, notSelected, timeoutForPriority,
         tick, getBlock, timeoutForBlockFlying, return

(* A step makes known the proposal it stores, one that is lower than the
   stored one, or none that is valid.                                      *)
LEMMA NewlyKnown ==
  ASSUME TypeOK, [Next]_vars, NEW p \in Known', p \notin Known
  PROVE  \/ maxProposal' = p
         \/ /\ maxProposal' = maxProposal
            /\ p \in Others
            /\ Outdone(p)
<1> USE DEF Known, TypeOK
<1>1. CASE propose
  BY <1>1 DEF propose, setMaxProposal
<1>2. ASSUME NEW q \in Others, handleProposal(q)
      PROVE  p = q /\ Outdone(q) /\ maxProposal' = maxProposal
  BY <1>2 DEF handleProposal
<1>3. ASSUME NEW q \in Others, handleVerify(q)
      PROVE  maxProposal' = p
  BY <1>3 DEF handleVerify, Verify, setMaxProposal
<1>4. ~UNCHANGED <<hpc, proposed>>
  OBVIOUS
<1> QED
  BY <1>1, <1>2, <1>3, <1>4
     DEF Next, vars, handleBlock, notSelected, timeoutForPriority, tick, getBlock,
         timeoutForBlockFlying, return

(* Without a race the highest proposal stays the stored one. *)
LEMMA NextHighest ==
  ASSUME IInv, [Next]_vars, Type = "BLOCK_PROPOSAL"
  PROVE  HighestUnlessRaced'
<1> SUFFICES ASSUME ~raced', NEW p \in Known'
             PROVE  maxProposal' # NoProposal /\ Prior[p] <= Prior[maxProposal']
  BY DEF HighestUnlessRaced, HighestPriority
<1> USE ProposalsAssumption
<1>1. TypeOK /\ TypeOK'
  BY NextTypeOK DEF IInv
<1>2. Known \subseteq Proposals /\ Known' \subseteq Proposals
  BY DEF Known, Proposals
<1>3. \A q \in Proposals : Prior[q] \in Nat /\ q # NoProposal
  OBVIOUS
<1>4. CASE maxProposal' = maxProposal
  <2>1. ~raced
    BY DEF Next, vars, handleBlock, handleProposal, handleVerify, setMaxProposal,
           propose, notSelected, timeoutForPriority, tick, getBlock,
           timeoutForBlockFlying, return
  <2>2. CASE p \in Known
    BY <1>4, <2>1, <2>2 DEF IInv, HighestUnlessRaced, HighestPriority
  <2>3. CASE p \notin Known
    <3>1. maxProposal' = p \/ Outdone(p)
      BY <1>1, <2>3, NewlyKnown
    <3> QED
      BY <1>2, <1>3, <1>4, <3>1 DEF Outdone
  <2> QED
    BY <2>2, <2>3
<1>5. CASE maxProposal' # maxProposal
  <2>1. ~raced /\ (maxProposal = NoProposal \/ Prior[maxProposal'] > Prior[maxProposal])
    BY <1>5, StoreUp
  <2>2. maxProposal' \in Proposals
    <3>1. \/ propose
          \/ \E q \in Others : handleVerify(q)
      BY <1>5 DEF Next, vars, handleBlock, handleProposal, notSelected,
           timeoutForPriority, tick, getBlock, timeoutForBlockFlying, return
    <3> QED
      BY <1>5, <3>1 DEF propose, handleVerify, setMaxProposal, Proposals
  <2>3. CASE p \in Known
    <3>1. maxProposal # NoProposal /\ Prior[p] <= Prior[maxProposal]
      BY <2>1, <2>3 DEF IInv, HighestUnlessRaced, HighestPriority
    <3>2. maxProposal \in Proposals
      BY <1>1, <3>1 DEF TypeOK
    <3> QED
      BY <1>2, <1>3, <2>1, <2>2, <3>1, <3>2
  <2>4. CASE p \notin Known
    <3>1. maxProposal' = p
      BY <1>1, <1>5, <2>4, NewlyKnown
    <3> QED
      BY <1>2, <1>3, <3>1
  <2> QED
    BY <2>3, <2>4
<1> QED
  BY <1>4, <1>5

(* IInv is inductive. *)
LEMMA NextIInv == IInv /\ [Next]_vars => IInv'
<1> SUFFICES ASSUME IInv, [Next]_vars PROVE IInv'
  OBVIOUS
<1>1. TypeOK' /\ SeenInv' /\ KnownInv'
  BY NextTypeOK, NextSeenInv, NextKnownInv DEF IInv
<1>2. Type = "BLOCK_PROPOSAL" => HighestUnlessRaced'
  BY NextHighest
<1> QED
  BY <1>1, <1>2 DEF IInv

(* IInv holds in every reachable state. *)
THEOREM Invariance == Spec => []IInv
  BY InitIInv, NextIInv, PTL DEF Spec

(* Every variable stays in its type. *)
THEOREM TypeCorrect == Spec => []TypeOK
<1>1. IInv => TypeOK
  BY DEF IInv
<1> QED
  BY Invariance, <1>1, PTL

(* In a regular round the node misses the highest valid proposal it has
   handled only if a goroutine replaced a proposal it had not read.        *)
THEOREM HighestMissedOnlyByRace ==
  ASSUME Type = "BLOCK_PROPOSAL" PROVE Spec => []HighestUnlessRaced
<1>1. IInv => HighestUnlessRaced
  BY DEF IInv
<1> QED
  BY Invariance, <1>1, PTL

(* Whatever the races, the block a node takes into BA is one it has, of a
   proposal that is its own or has passed Verify.                          *)
THEOREM OnlyVerifiedBlocks == Spec => []BlockVerified
<1>1. IInv => BlockVerified
  BY DEF IInv, KnownInv, BlockVerified
<1> QED
  BY Invariance, <1>1, PTL

(* Without a race the stored proposal gives way only to a higher one. *)
THEOREM StoredOnlyRises == Spec => OnlyUp
<1> DEFINE Up == /\ maxProposal' # maxProposal
                 /\ maxProposal # NoProposal
                 /\ ~raced'
                 => Prior[maxProposal'] > Prior[maxProposal]
<1>1. IInv /\ [Next]_vars => [Up]_vars
  BY StoreUp
<1> QED
  BY Invariance, <1>1, PTL DEF Spec, OnlyUp
=============================================================================
