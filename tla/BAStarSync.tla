----------------------------- MODULE BAStarSync -----------------------------
(***************************************************************************)
(* BA* on the network the docs assume (docs, "strong synchrony" and "weak   *)
(* synchrony"): messages of honest users reach the others within a known   *)
(* time, except in a period in which the network is slow.  In the good     *)
(* period the timeouts lamdaStep and lamdaBlock are longer than the time   *)
(* by which the nodes drift apart plus the time a message travels, so      *)
(* countVotes times out only after every vote cast in its step has been    *)
(* read; in the slow one it may time out at any time.  The nodes return    *)
(* from countVotes as early as the votes allow and in any order.           *)
(*                                                                         *)
(* Under this assumption it matters what exactly a node has read: the list *)
(* of a step belongs to the peer, so a countVotes that counts the step     *)
(* again, as binaryBA does after its third phase, begins with the votes it *)
(* read there before, and a later vote of the same voter is skipped.       *)
(***************************************************************************)
EXTENDS BAStar

CONSTANT SlowCalls \* the countVotes calls made while the network is slow

VARIABLE list \* list[n]: the votes read so far from the list of step[n]

syncVars == <<vars, list>>

(* The votes countVotes of node n may have read when it returns: those it
   read there before and any that have arrived since.  The voters map skips
   all but the first vote of a voter.                                      *)
voteIterator(n) ==
  LET incoming == {v \in sent : /\ v.step = step[n]
                                /\ v.voter # n
                                /\ processMsg(n, v.voter, v.step) # 0
                                /\ \A w \in list[n] : w.voter # v.voter}
  IN  {list[n] \cup new : new \in
         {S \in SUBSET incoming : \A v, w \in S : v.voter = w.voter => v = w}}

(* The hashes whose votes in l reach the threshold. *)
Reached(n, l) ==
  {h \in Hash : VotesOf({v.voter : v \in {v \in l : v.hash = h}}, step[n]) >= threshold(n)}

(* How many countVotes calls node n has begun, with the two calls of
   reduction first and three calls per iteration of binaryBA after them.   *)
Calls(n) ==
  CASE pc[n] = "idle"       -> 0
    [] pc[n] = "reduction1" -> 1
    [] pc[n] = "reduction2" -> 2
    [] pc[n] = "binary1"    -> 3 + 3 * ((step[n] - 1) \div 2)
    [] pc[n] = "binary2"    -> 4 + 3 * ((step[n] - 2) \div 2)
    [] pc[n] = "binary3"    -> 5 + 3 * ((step[n] - 3) \div 2)
    [] OTHER                -> 3 * MAXSTEPS

(* The timer of node n may expire: the network is slow, or the others have
   cast their votes for the call n is in and all the voters are in l.      *)
Expired(n, l) ==
  \/ Calls(n) \in SlowCalls
  \/ /\ \A m \in Nodes : Calls(m) >= Calls(n)
     /\ \A v \in sent : v.step = step[n] /\ v.voter # n => \E w \in l : w.voter = v.voter

(* A return of countVotes with the votes l. *)
SyncCount(n, l) ==
  \/ \E c \in Reached(n, l) : OnCount(n, c)
  \/ Reached(n, l) = {} /\ Expired(n, l) /\ OnCount(n, NoHash)

(* The block a node decides for has arrived, so BA does not panic. *)
SyncStep(n) ==
  \/ (\E b \in Blocks \cup {empty(n)} : BA(n, b)) /\ UNCHANGED list
  \/ \E l \in voteIterator(n) :
       /\ SyncCount(n, l)
       /\ list' = [list EXCEPT ![n] = IF step'[n] = step[n] THEN l ELSE {}]

SyncNext == \E n \in Nodes : SyncStep(n)

SyncInit == Init /\ list = [n \in Nodes |-> {}]

(* A node is a goroutine whose waits all end with a vote or a timer. *)
SyncSpec == SyncInit /\ [][SyncNext]_syncVars /\ \A n \in Nodes : WF_syncVars(SyncStep(n))

-----------------------------------------------------------------------------
(* Every node gets a block, nobody runs out of steps and hangs: also the nodes
   for which the network was too slow in the step in which others decided
   and left, as those have voted three steps ahead.  It matters that gossip
   does not deliver to the sender: a node that votes sees less votes than
   the others.                                                             *)
Termination == <>(\A n \in Nodes : pc[n] = "done")

-----------------------------------------------------------------------------
(* The inductive invariant behind the refinement of BAStar.  What a node has
   read are votes that were cast in the step it counts, one of each voter,
   and processMsg found sub-users in them.                                 *)
ReadInv ==
  /\ list \in [Nodes -> SUBSET Vote]
  /\ \A n \in Nodes :
       /\ pc[n] = "idle" => list[n] = {}
       /\ \A v \in list[n] : /\ v \in sent /\ v.step = step[n] /\ v.voter # n
                             /\ processMsg(n, v.voter, v.step) # 0
       /\ \A v, w \in list[n] : v.voter = w.voter => v = w

SyncInv == IInv /\ Running /\ ReadInv

=============================================================================
