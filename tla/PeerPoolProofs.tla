--------------------------- MODULE PeerPoolProofs ---------------------------
(***************************************************************************)
(* Proofs about PeerPool, for any number of users.                         *)
(*                                                                         *)
(* IInv is inductive.  A node that runs is in the pool that GetPeerPool    *)
(* returned to it, as nobody but the node itself is taken out of a pool    *)
(* and no pool is made twice; so it can be lost only by the variable being *)
(* written again.  The last writer has its own pool.  A pool holds a node  *)
(* that is stopped only if it has been replaced.                           *)
(***************************************************************************)
EXTENDS PeerPool, FiniteSetTheorems, TLAPS

(* Nothing is made before the first node. *)
LEMMA InitIInv == Init => IInv
  BY PoolAssumption DEF Init, IInv, TypeOK, PoolInv, Nodes, PCs

(* What halfGossip sends to is part of the slice, whose members are the set. *)
LEMMA HalfSubset ==
  ASSUME NEW S, IsFiniteSet(S), NEW peers \in SetToSeqs(S), NEW half \in 0 .. 1, NEW n
  PROVE  Half(n, peers, half) \subseteq S
<1> DEFINE k == Cardinality(S)
           begin == (k \div 2) * half
           end == IF half = 0 THEN k \div 2 ELSE k
           part == SubSeq(peers, begin + 1, end)
<1>1. k \in Nat
  BY FS_CardinalityType
<1>2. peers \in [1 .. k -> S]
  BY DEF SetToSeqs
<1> HIDE DEF k
<1>3. Len(peers) = k
  BY <1>1, <1>2
<1>4. begin \in 0 .. k /\ end \in begin .. k
  <2>1. CASE half = 0
    BY <1>1, <2>1
  <2>2. CASE half = 1
    BY <1>1, <2>2
  <2> QED
    BY <2>1, <2>2
<1>5. Half(n, peers, half) = ToSet(part) \ {n}
  BY <1>3 DEF Half
<1> HIDE DEF begin, end
<1>6. DOMAIN part = 1 .. end - begin /\ \A x \in 1 .. end - begin : part[x] = peers[x + begin]
  BY <1>1, <1>2, <1>4
<1>7. \A x \in 1 .. end - begin : x + begin \in 1 .. k
  BY <1>1, <1>4
<1> HIDE DEF part
<1> QED
  BY <1>2, <1>5, <1>6, <1>7 DEF ToSet

(* Every step keeps the types. *)
LEMMA NextTypeOK == IInv /\ [Next]_vars => TypeOK'
<1> SUFFICES ASSUME IInv, [Next]_vars PROVE TypeOK'
  OBVIOUS
<1> USE PoolAssumption DEF IInv, TypeOK, Nodes, PCs
<1>1. CASE NewHonest \/ NewMalicious
  <2>1. PICK type \in {"Honest", MaliciousType} : i <= UserAmount /\ NewAlgorand(type)
    BY <1>1 DEF NewHonest, NewMalicious
  <2>2. i' \in 0 .. UserAmount + 1 /\ i' = i + 1 /\ i \in Nodes
    BY <2>1 DEF NewAlgorand
  <2>3. kind' \in [0 .. i' - 1 -> {"Honest", MaliciousType}]
    BY <2>1, <2>2 DEF NewAlgorand
  <2> QED
    BY <2>1, <2>2, <2>3 DEF NewAlgorand
<1>2. ASSUME NEW n \in Nodes, FindPool(n) PROVE TypeOK'
  BY <1>2 DEF FindPool, Goto
<1>3. ASSUME NEW n \in Nodes, MakePool(n) PROVE TypeOK'
  BY <1>3 DEF MakePool, Goto
<1>4. ASSUME NEW n \in Nodes, ReturnPool(n) PROVE TypeOK'
  BY <1>4 DEF ReturnPool, Goto
<1>5. ASSUME NEW n \in Nodes, add(n) PROVE TypeOK'
  <2>1. pool[n] \in DOMAIN pools
    BY <1>5 DEF add, Goto, PoolInv
  <2> QED
    BY <1>5, <2>1 DEF add, Goto
<1>6. ASSUME NEW n \in Nodes, remove(n) PROVE TypeOK'
  <2>1. peerPool \in DOMAIN pools
    BY <1>6 DEF remove, Goto, PoolInv
  <2> QED
    BY <1>6, <2>1 DEF remove, Goto
<1>7. ASSUME NEW n \in Nodes, gossip(n) PROVE TypeOK'
  <2>1. peerPool \in DOMAIN pools
    BY <1>7 DEF gossip, PoolInv, Working
  <2> QED
    BY <1>7, <2>1 DEF gossip
<1>8. ASSUME NEW n \in Nodes, NEW half \in 0 .. 1, halfGossip(n, half) PROVE TypeOK'
  <2>1. peerPool \in DOMAIN pools
    BY <1>8 DEF halfGossip, PoolInv, Working
  <2>2. PICK peers \in SetToSeqs(pools[peerPool]) : heard' = [heard EXCEPT ![n] = Half(n, peers, half)]
    BY <1>8 DEF halfGossip
  <2>3. Half(n, peers, half) \subseteq pools[peerPool]
    <3>1. IsFiniteSet(Nodes)
      BY FS_Interval
    <3>2. IsFiniteSet(pools[peerPool])
      BY <2>1, <3>1, FS_Subset
    <3> QED
      BY <3>2, HalfSubset
  <2> QED
    BY <1>8, <2>1, <2>2, <2>3 DEF halfGossip
<1>9. CASE UNCHANGED vars
  BY <1>9 DEF vars
<1> QED
  BY <1>1, <1>2, <1>3, <1>4, <1>5, <1>6, <1>7, <1>8, <1>9 DEF Next, Start, Send

(* Every step keeps what goroutines hold. *)
LEMMA NextPoolInv == IInv /\ [Next]_vars => PoolInv'
<1> SUFFICES ASSUME IInv, [Next]_vars PROVE PoolInv'
  OBVIOUS
<1> USE PoolAssumption DEF IInv, TypeOK, PoolInv, Working
<1>1. CASE NewHonest \/ NewMalicious
  <2>1. PICK type : i \in Nodes /\ NewAlgorand(type)
    BY <1>1 DEF NewHonest, NewMalicious, Nodes
  <2>2. i' = i + 1 /\ i \in Nat /\ Nodes \subseteq Nat
    BY <2>1 DEF NewAlgorand, Nodes
  <2>3. pc[i] = "none"
    BY <2>1, <2>2
  <2>4. /\ pc' = [pc EXCEPT ![i] = "start"]
        /\ UNCHANGED <<peerPool, pools, pool>>
    BY <2>1 DEF NewAlgorand
  <2>5. \A m \in Nodes : pc'[m] = IF m = i THEN "start" ELSE pc[m]
    BY <2>4
  <2>6. \A m \in Nodes : m >= i' => pc'[m] = "none"
    BY <2>2, <2>5
  <2>7. i \notin DOMAIN pools /\ \A p \in DOMAIN pools : i \notin pools[p]
    BY <2>3
  <2>8. \A p \in DOMAIN pools : \A m \in pools[p] : m \in Nodes /\ pc'[m] = pc[m]
    BY <2>5, <2>7
  <2> QED
    BY <2>4, <2>5, <2>6, <2>7, <2>8
<1>2. ASSUME NEW n \in Nodes, FindPool(n) PROVE PoolInv'
  BY <1>2 DEF FindPool, Goto
<1>3. ASSUME NEW n \in Nodes, MakePool(n) PROVE PoolInv'
  BY <1>3 DEF MakePool, Goto, Nodes
<1>4. ASSUME NEW n \in Nodes, ReturnPool(n) PROVE PoolInv'
  BY <1>4 DEF ReturnPool, Goto
<1>5. ASSUME NEW n \in Nodes, add(n) PROVE PoolInv'
  BY <1>5 DEF add, Goto
<1>6. ASSUME NEW n \in Nodes, remove(n) PROVE PoolInv'
  BY <1>6 DEF remove, Goto
<1>7. ASSUME NEW n \in Nodes, gossip(n) PROVE PoolInv'
  BY <1>7 DEF gossip
<1>8. ASSUME NEW n \in Nodes, NEW half \in 0 .. 1, halfGossip(n, half) PROVE PoolInv'
  BY <1>8 DEF halfGossip
<1>9. CASE UNCHANGED vars
  BY <1>9 DEF vars
<1> QED
  BY <1>1, <1>2, <1>3, <1>4, <1>5, <1>6, <1>7, <1>8, <1>9 DEF Next, Start, Send

(* IInv holds in every reachable state. *)
THEOREM Invariance == Spec => []IInv
<1>1. IInv /\ [Next]_vars => IInv'
  BY NextTypeOK, NextPoolInv DEF IInv
<1> QED
  BY InitIInv, <1>1, PTL DEF Spec

(* The loop variable of regularRun, the goroutines it starts and the pools they
   make stay in their types; in particular no more nodes are made than users
   and one.                                                                  *)
THEOREM TypeCorrect == Spec => []TypeOK
<1>1. IInv => TypeOK
  BY DEF IInv
<1> QED
  BY Invariance, <1>1, PTL

(* A node that runs and that gossip does not find is in a pool that was made and
   replaced by another call of GetPeerPool, and the node that made the pool in
   use is found, whatever the number of nodes.                               *)
THEOREM LostByRace == Spec => []LostOnlyByRace
<1>1. IInv => LostOnlyByRace
  BY DEF IInv, TypeOK, PoolInv, LostOnlyByRace, Lost
<1> QED
  BY Invariance, <1>1, PTL

(* Whom gossip finds has been started and not stopped, whatever the number of
   nodes and however often the pool was made.                                *)
THEOREM FoundRun == Spec => []FoundAreRunning
<1>1. IInv => FoundAreRunning
  BY DEF IInv, TypeOK, PoolInv, FoundAreRunning
<1> QED
  BY Invariance, <1>1, PTL

(* Once GetPeerPool has made a pool and nobody is about to make another, the
   variable is never written again.                                          *)
THEOREM PoolIsKept == Spec => PoolStays
<1>1. ASSUME IInv, [Next]_vars, Settled PROVE peerPool' = peerPool /\ Settled'
  <2> USE DEF IInv, TypeOK, Settled
  <2>1. CASE NewHonest \/ NewMalicious
    BY <1>1, <2>1 DEF NewHonest, NewMalicious, NewAlgorand
  <2>2. ASSUME NEW n \in Nodes, Start(n) PROVE peerPool' = peerPool /\ Settled'
    BY <1>1, <2>2 DEF Start, FindPool, MakePool, ReturnPool, add, Goto
  <2>3. ASSUME NEW n \in Nodes, Send(n) \/ remove(n) PROVE peerPool' = peerPool /\ Settled'
    BY <1>1, <2>3 DEF Send, gossip, halfGossip, remove, Goto
  <2>4. CASE UNCHANGED vars
    BY <1>1, <2>4 DEF vars
  <2> QED
    BY <1>1, <2>1, <2>2, <2>3, <2>4 DEF Next
<1> QED
  BY Invariance, <1>1, PTL DEF Spec, PoolStays
=============================================================================
