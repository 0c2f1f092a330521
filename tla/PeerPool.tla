------------------------------ MODULE PeerPool ------------------------------
(***************************************************************************)
(* The start of the nodes (main.go, regularRun; NewAlgorand, Start and     *)
(* Stop in algorand.go) and the pool of peers through which they gossip    *)
(* (peer.go).  Every node is started by a goroutine of its own, and        *)
(* GetPeerPool makes the pool on its first call, without a lock: what is a *)
(* step here are its read of the variable, its write, and the read with    *)
(* which it returns.                                                       *)
(***************************************************************************)
EXTENDS Integers, FiniteSets, SequencesExt

CONSTANTS
  UserAmount, Malicious,  \* the options num and malicious
  MaliciousType,          \* the type the last nodes are made with
  NoPool                  \* nil

ASSUME PoolAssumption ==
  /\ UserAmount \in Nat /\ Malicious \in 0 .. UserAmount
  /\ MaliciousType \in {"Honest", "EvilBlockProposal", "EvilVoteEmpty", "EvilVoteNothing"}
  /\ NoPool \notin 0 .. UserAmount

VARIABLES
  i,         \* the loop variable of regularRun
  kind,      \* node -> type, for the nodes made
  pc,        \* node -> what its goroutine does next
  peerPool,  \* the global variable: the pool, named by the node that made it
  pools,     \* pool -> its peers, for the pools made
  pool,      \* node -> the pool that its call of GetPeerPool returned
  heard      \* node -> who its last message was sent to

vars == <<i, kind, pc, peerPool, pools, pool, heard>>

Nodes == 0 .. UserAmount
PCs == {"none", "start", "nil", "return", "add", "run", "stop"}

-----------------------------------------------------------------------------
Init ==
  /\ i = 0 /\ kind = [n \in {} |-> "Honest"] /\ pc = [n \in Nodes |-> "none"]
  /\ peerPool = NoPool /\ pools = [n \in {} |-> {}]
  /\ pool = [n \in Nodes |-> NoPool]
  /\ heard = [n \in Nodes |-> {}]

NewAlgorand(type) ==
  /\ kind' = [n \in 0 .. i |-> IF n = i THEN type ELSE kind[n]]
  /\ pc' = [pc EXCEPT ![i] = "start"]
  /\ i' = i + 1
  /\ UNCHANGED <<peerPool, pools, pool, heard>>

(* Mutant: the second loop goes on. *)
MutNewMalicious ==
  i > UserAmount - Malicious /\ i <= UserAmount + 1 /\ NewAlgorand(MaliciousType)

NewHonest == i <= UserAmount - Malicious /\ NewAlgorand("Honest")
NewMalicious ==
  i > UserAmount - Malicious /\ i <= UserAmount /\ NewAlgorand(MaliciousType)

-----------------------------------------------------------------------------
Goto(n, from, to) == pc[n] = from /\ pc' = [pc EXCEPT ![n] = to]

(* Mutant: the test for nil is left out. *)
MutFindPool(n) ==
  /\ Goto(n, "start", "nil")
  /\ UNCHANGED <<i, kind, peerPool, pools, pool, heard>>

(* GetPeerPool, called by Start: its test, *)
FindPool(n) ==
  /\ Goto(n, "start", IF peerPool = NoPool THEN "nil" ELSE "return")
  /\ UNCHANGED <<i, kind, peerPool, pools, pool, heard>>

(* the assignment, *)
MakePool(n) ==
  /\ Goto(n, "nil", "return")
  /\ peerPool' = n
  /\ pools' = [m \in DOMAIN pools \cup {n} |-> IF m = n THEN {} ELSE pools[m]]
  /\ UNCHANGED <<i, kind, pool, heard>>

(* and the return.  The accesses race; a build may keep the value it wrote. *)
ReturnPool(n) ==
  /\ Goto(n, "return", "add")
  /\ \E p \in {peerPool} \cup ({n} \cap DOMAIN pools) : pool' = [pool EXCEPT ![n] = p]
  /\ UNCHANGED <<i, kind, peerPool, pools, heard>>

(* Mutant: the map is made anew. *)
MutAdd(n) ==
  /\ Goto(n, "add", "run")
  /\ pools' = [pools EXCEPT ![pool[n]] = {n}]
  /\ UNCHANGED <<i, kind, peerPool, pool, heard>>

add(n) ==
  /\ Goto(n, "add", "run")
  /\ pools' = [pools EXCEPT ![pool[n]] = @ \cup {n}]
  /\ UNCHANGED <<i, kind, peerPool, pool, heard>>

(* Mutant: Stop leaves the peer in the pool. *)
MutRemove(n) ==
  /\ Goto(n, "run", "stop")
  /\ UNCHANGED <<i, kind, peerPool, pools, pool, heard>>

(* Stop; closing the channels is in Node.  By now the pool is not nil. *)
remove(n) ==
  /\ Goto(n, "run", "stop")
  /\ pools' = [pools EXCEPT ![peerPool] = @ \ {n}]
  /\ UNCHANGED <<i, kind, peerPool, pool, heard>>

-----------------------------------------------------------------------------
(* A node is at work from Start on.  It may be in the middle of a round when
   Stop is called, and then gossips until the round is over.               *)
Working(n) == pc[n] \in {"run", "stop"}

(* A node sends a message to the others it finds in the pool.  The sends are
   as late as their delivery, which is not part of this module.            *)
gossip(n) ==
  /\ Working(n)
  /\ heard' = [heard EXCEPT ![n] = pools[peerPool] \ {n}]
  /\ UNCHANGED <<i, kind, pc, peerPool, pools, pool>>

(* The half of a slice of peers that n sends to: all that are in it but n. *)
Half(n, peers, half) ==
  LET begin == (Len(peers) \div 2) * half
      end == IF half = 0 THEN Len(peers) \div 2 ELSE Len(peers)
  IN  ToSet(SubSeq(peers, begin + 1, end)) \ {n}

(* One version of a block for each half.  getPeers ranges over a map: every
   call has an order of its own, so that the halves may overlap.           *)
halfGossip(n, half) ==
  /\ Working(n) /\ kind[n] = "EvilBlockProposal"
  /\ \E peers \in SetToSeqs(pools[peerPool]) :
       heard' = [heard EXCEPT ![n] = Half(n, peers, half)]
  /\ UNCHANGED <<i, kind, pc, peerPool, pools, pool>>

-----------------------------------------------------------------------------
Start(n) == FindPool(n) \/ MakePool(n) \/ ReturnPool(n) \/ add(n)
Send(n) == gossip(n) \/ \E half \in 0 .. 1 : halfGossip(n, half)

Next ==
  \/ NewHonest \/ NewMalicious
  \/ \E n \in Nodes : Start(n) \/ Send(n) \/ remove(n)

Spec == Init /\ [][Next]_vars

-----------------------------------------------------------------------------
TypeOK ==
  /\ i \in 0 .. UserAmount + 1
  /\ kind \in [0 .. i - 1 -> {"Honest", MaliciousType}]
  /\ pc \in [Nodes -> PCs]
  /\ peerPool \in {NoPool} \cup DOMAIN pools
  /\ DOMAIN pools \subseteq Nodes /\ \A p \in DOMAIN pools : pools[p] \subseteq Nodes
  /\ pool \in [Nodes -> {NoPool} \cup Nodes]
  /\ heard \in [Nodes -> SUBSET Nodes]

(* A node that has been started but that gossip does not find. *)
Lost(n) == pc[n] = "run" /\ n \notin pools[peerPool]

(* Nodes are lost only together with their pool: two calls of GetPeerPool
   found none, and the node was added to the pool that was replaced.  The
   node whose pool is in use is not lost.                                  *)
LostOnlyByRace ==
  /\ \A n \in Nodes : Lost(n) => pool[n] \in DOMAIN pools \ {peerPool}
  /\ peerPool # NoPool => ~Lost(peerPool)

(* Once a pool is there and no call of GetPeerPool is between its test and
   its assignment, the pool is not replaced: the race is one of the start. *)
Settled == peerPool # NoPool /\ \A n \in Nodes : pc[n] # "nil"
PoolStays == [][Settled => peerPool' = peerPool /\ Settled']_vars

(* Whom gossip finds in the pool is at work: started, and not stopped, also
   when the pool was made twice.  Stop takes a node out of the pool in use,
   which need not be the pool it was added to, but a pool that still holds a
   stopped node never comes into use again.                                *)
FoundAreRunning ==
  peerPool # NoPool => \A m \in pools[peerPool] : pc[m] = "run"

-----------------------------------------------------------------------------
(* The inductive invariant behind these properties: where the goroutine of a
   node is tells whether a pool has been made, by this node and by any, which
   one it holds, and whether the node is in it; who is in a pool has been
   started, and is stopped only if the pool has been replaced.             *)
PoolInv ==
  /\ \A n \in Nodes :
       /\ n >= i => pc[n] = "none"
       /\ pc[n] \in {"return", "add", "run", "stop"} => peerPool # NoPool
       /\ n \in DOMAIN pools => pc[n] \notin {"none", "start", "nil"}
       /\ pc[n] \in {"add", "run"} => pool[n] \in DOMAIN pools
       /\ pc[n] = "run" => n \in pools[pool[n]]
       /\ pc[n] \in {"add", "run"} /\ peerPool = n => pool[n] = n
  /\ \A p \in DOMAIN pools : \A m \in pools[p] : Working(m) /\ (p = peerPool => pc[m] = "run")

IInv == TypeOK /\ PoolInv
=============================================================================
