-------------------------------- MODULE Node --------------------------------
(***************************************************************************)
(* One node over several rounds (algorand.go: Start, Stop, run, forkLoop,  *)
(* processMain, processForkResolve, vrfSeed, sortitionSeed).               *)
(*                                                                         *)
(* The main loop appends the block of each round to the chain.  The fork   *)
(* loop, at every tick, closes hangForever, agrees on the block of a fork  *)
(* and makes it the last block of the chain.  Both are goroutines that     *)
(* read and write the chain with no lock but those of its single           *)
(* operations, and that run BA at the same time.                           *)
(*                                                                         *)
(* BA is reduced to its outcome: any block proposed for its round, or the  *)
(* empty block on top of the last block, as it was when BA began or as it  *)
(* is at the time of the count.                                            *)
(***************************************************************************)
EXTENDS Blockchain

CONSTANTS
  Ids,      \* to tell the blocks apart that are proposed on the same parent
  R,        \* the refresh interval of the sortition seed
  MaxRound, \* bound on the rounds
  MaxForks  \* bound on the ticks of the fork loop

ASSUME NodeAssumption ==
  /\ {"genesis", "empty", "other"} \cap Ids = {}
  /\ R \in Nat \ {0}
  /\ MaxRound \in Nat
  /\ MaxForks \in Nat

VARIABLES
  pc,          \* pc[l]: where loop l is
  round,       \* round[l]: the round of its BA
  hash,        \* hash[l]: the empty block of its BA, then what BA decided for
  hangForever, \* "open" or "closed"
  stop,        \* how far Stop has come
  forks,       \* how many ticks the fork loop has had
  panic        \* what ended the process, or "no"

vars == <<chainVars, pc, round, hash, hangForever, stop, forks, panic>>

Loops == {"main", "fork"}
Locations == {"loop", "propose", "BA", "hang", "final", "commit", "remake", "quit"}

Panic(why) ==
  /\ panic' = why
  /\ UNCHANGED <<chainVars, pc, round, hash, hangForever, stop, forks>>

goto(l, location) == pc' = [pc EXCEPT ![l] = location]

-----------------------------------------------------------------------------
(* Seeds.                                                                  *)

(* The round whose seed selects the committees of round r. *)
seedRound(r) == IF r - 1 < r % R THEN 0 ELSE r - 1 - (r % R)

(* The block whose seed it is; without one the node panics. *)
sortitionSeed(r) == getByRound(seedRound(r))

(* Mutant: the parent is looked up in the round of the block itself. *)
MutVrfSeedPanics(r) ==
  \/ getByRound(r - 1) = Nil
  \/ r # 1 /\ get(getByRound(r - 1).parent, getByRound(r - 1).round) = Nil

(* The seed of a new block of round r is made from the block before, whose
   own seed is verified with that of its parent.                           *)
vrfSeedPanics(r) ==
  \/ getByRound(r - 1) = Nil
  \/ r # 1 /\ get(getByRound(r - 1).parent, getByRound(r - 1).round - 1) = Nil

-----------------------------------------------------------------------------
(* The two loops.                                                          *)

(* The main loop begins a round unless quitCh is closed. *)
processMain ==
  /\ pc["main"] = "loop"
  /\ stop = "no"
  /\ last.round < MaxRound
  /\ round' = [round EXCEPT !["main"] = last.round + 1]
  /\ goto("main", "propose")
  /\ UNCHANGED <<chainVars, hash, hangForever, stop, forks, panic>>

(* A tick of the fork loop, which select may prefer to a closed quitCh. *)
processForkResolve ==
  /\ pc["fork"] = "loop"
  /\ forks < MaxForks
  /\ IF hangForever = "closed"
       THEN Panic("close")
       ELSE /\ hangForever' = "closed"
            /\ forks' = forks + 1
            /\ goto("fork", "propose")
            /\ UNCHANGED <<chainVars, round, hash, stop, panic>>

quit(l) ==
  /\ pc[l] = "loop"
  /\ stop # "no"
  /\ goto(l, "quit")
  /\ UNCHANGED <<chainVars, round, hash, hangForever, stop, forks, panic>>

(* blockProposal reads the round again; only a proposer of a new block, not
   one of a fork, needs the vrf-based seed.  BA of a fork is for the round
   of the proposed block.  BA begins when the proposals have arrived.      *)
blockProposal(l) ==
  LET r == last.round + 1
  IN  /\ pc[l] = "propose"
      /\ \/ /\ sortitionSeed(r) = Nil
            /\ Panic("sortitionSeed")
         \/ /\ sortitionSeed(r) # Nil
            /\ l = "main" /\ vrfSeedPanics(r)
            /\ Panic("vrfSeed")
         \/ /\ sortitionSeed(r) # Nil
            /\ round' = [round EXCEPT ![l] = IF l = "main" THEN @ ELSE r]
            /\ hash' = [hash EXCEPT ![l] = emptyBlock(round'[l], last)]
            /\ goto(l, "BA")
            /\ UNCHANGED <<chainVars, hangForever, stop, forks, panic>>

(* A block of round 1 that some users have agreed on and this node has not. *)
other == [round |-> 1, parent |-> genesis, id |-> "other"]

(* The blocks that the chains of the users may end with in round r. *)
Ends(r) == {b \in blocks \cup {last, other} : b.round = r}

(* The blocks proposed in round r.  Forks are proposed as empty blocks, and
   share maxProposals with the others.                                     *)
Proposed(r) ==
  {[round |-> r, parent |-> p, id |-> i] :
     p \in Ends(r - 1), i \in Ids \cup {i \in {"empty"} : forks > 0}}

(* binaryBA decides.  Votes are cast and counted with the sortition seed. *)
decide(l) ==
  /\ pc[l] = "BA"
  /\ \/ /\ sortitionSeed(round[l]) = Nil
        /\ Panic("sortitionSeed")
     \/ /\ sortitionSeed(round[l]) # Nil
        /\ \E h \in Proposed(round[l]) \cup {hash[l], emptyBlock(round[l], last)} :
             hash' = [hash EXCEPT ![l] = h]
        /\ goto(l, "final")
        /\ UNCHANGED <<chainVars, round, hangForever, stop, forks, panic>>

(* binaryBA runs out of steps and waits for hangForever. *)
hang(l) ==
  /\ pc[l] = "BA"
  /\ goto(l, "hang")
  /\ UNCHANGED <<chainVars, round, hash, hangForever, stop, forks, panic>>

(* hangForever is closed: there is no block of the zero hash. *)
forceQuit(l) ==
  /\ pc[l] = "hang"
  /\ hangForever = "closed"
  /\ Panic("hang")

(* BA returns after the votes of FINAL are counted.  An empty block is made
   on top of what is the last block now; if that has changed, the peer has
   the block that was decided for only if it was proposed as a fork.       *)
BAReturn(l) ==
  LET expected == hash[l].id # "empty" \/ hash[l] = emptyBlock(round[l], last)
  IN  /\ pc[l] = "final"
      /\ \/ /\ expected \/ forks > 0
            /\ goto(l, "commit")
            /\ UNCHANGED <<chainVars, round, hash, hangForever, stop, forks, panic>>
         \/ /\ ~expected
            /\ Panic("BA")

(* The main loop appends the block to the chain. *)
commit ==
  /\ pc["main"] = "commit"
  /\ add(hash["main"])
  /\ goto("main", "loop")
  /\ UNCHANGED <<round, hash, hangForever, stop, forks, panic>>

(* The fork loop makes the block the last one. *)
commitFork ==
  /\ pc["fork"] = "commit"
  /\ resolveFork(hash["fork"])
  /\ goto("fork", "remake")
  /\ UNCHANGED <<round, hash, hangForever, stop, forks, panic>>

(* Mutant: hangForever is not made again. *)
MutRemake ==
  /\ pc["fork"] = "remake"
  /\ goto("fork", "loop")
  /\ UNCHANGED <<chainVars, round, hash, hangForever, stop, forks, panic>>

(* The fork loop makes hangForever again. *)
remake ==
  /\ pc["fork"] = "remake"
  /\ hangForever' = "open"
  /\ goto("fork", "loop")
  /\ UNCHANGED <<chainVars, round, hash, stop, forks, panic>>

(* Stop closes quitCh. *)
stopQuit ==
  /\ stop = "no"
  /\ stop' = "quit"
  /\ UNCHANGED <<chainVars, pc, round, hash, hangForever, forks, panic>>

(* Mutant: Stop does not close hangForever. *)
MutStopHang ==
  /\ stop = "quit"
  /\ stop' = "done"
  /\ UNCHANGED <<chainVars, pc, round, hash, hangForever, forks, panic>>

(* Stop closes hangForever. *)
stopHang ==
  /\ stop = "quit"
  /\ IF hangForever = "closed"
       THEN Panic("close")
       ELSE /\ hangForever' = "closed"
            /\ stop' = "done"
            /\ UNCHANGED <<chainVars, pc, round, hash, forks, panic>>

-----------------------------------------------------------------------------
Init ==
  /\ InitChain
  /\ pc = [l \in Loops |-> "loop"]
  /\ round = [l \in Loops |-> 0]
  /\ hash = [l \in Loops |-> Nil]
  /\ hangForever = "open"
  /\ stop = "no"
  /\ forks = 0
  /\ panic = "no"

BA(l) == decide(l) \/ hang(l) \/ forceQuit(l) \/ BAReturn(l)

Main ==
  panic = "no" /\ (processMain \/ quit("main") \/ blockProposal("main") \/ BA("main") \/ commit)

Fork ==
  panic = "no" /\ ( \/ processForkResolve \/ quit("fork") \/ blockProposal("fork")
                    \/ BA("fork") \/ commitFork \/ remake)

Stop == panic = "no" /\ (stopQuit \/ stopHang)

Next == Main \/ Fork \/ Stop

(* The loops and a Stop that has begun are goroutines that go on whenever
   they can; nobody has to call Stop.                                      *)
Spec ==
  /\ Init /\ [][Next]_vars
  /\ WF_vars(Main) /\ WF_vars(Fork) /\ WF_vars(panic = "no" /\ stopHang)

-----------------------------------------------------------------------------
(* Every variable stays in its type, and blocks have the rounds of their BA. *)
TypeOK ==
  /\ \A b \in blocks \cup {last} : b.round \in 0 .. MaxRound + MaxForks
  /\ pc \in [Loops -> Locations]
  /\ \A l \in Loops : pc[l] \in {"BA", "final", "commit"} => hash[l].round = round[l]
  /\ hangForever \in {"open", "closed"}
  /\ stop \in {"no", "quit", "done"}
  /\ forks \in 0 .. MaxForks
  /\ panic \in {"no", "close", "hang", "BA", "sortitionSeed", "vrfSeed"}

(* No fork has been made the last block yet; the first may be at work. *)
Unresolved ==
  \/ forks = 0
  \/ forks = 1 /\ pc["fork"] \in {"propose", "BA", "hang", "final", "commit"}

(* A block that extends the fork of other users has been appended: BA does not
   compare the parent of what it decides for with the chain.               *)
Strayed == \E b \in blocks : b.parent = other

(* Up to the moment a fork is resolved the only block that the chain of the
   node can lack is that of a fork of other users, although the fork loop
   proposes and decides blocks of the same rounds beside the main loop.    *)
LinkedUntilFork == Unresolved => LinkedBut({other})

(* Until then, on a chain that has not strayed and in the first R rounds,
   every lookup of a seed finds its block, whichever loop makes it and
   whatever the other loop has appended in the meantime.                   *)
SeedsFound ==
  Unresolved /\ ~Strayed /\ last.round < R => panic \notin {"sortitionSeed", "vrfSeed"}

(* The fork loop alone never closes hangForever twice, however its resolution
   interleaves with BA: only Stop makes that happen.                       *)
CloseOnce == panic = "close" => stop # "no"

(* Stop ends both loops, wherever they are, unless the process panics; a BA
   that hangs does not keep the main loop.                                 *)
StopQuits == stop # "no" ~> panic # "no" \/ \A l \in Loops : pc[l] = "quit"

-----------------------------------------------------------------------------
(* The inductive invariant behind the safety properties.                   *)

(* Loop l is in a round, and past the proposal of it. *)
InRound(l) == pc[l] \in {"propose", "BA", "hang", "final", "commit"}
Agreeing(l) == pc[l] \in {"BA", "final", "commit"}

(* Each tick of the fork loop takes the last block one round further at most,
   and the main loop stops at MaxRound.                                    *)
RoundInv ==
  /\ round \in [Loops -> 0 .. MaxRound + MaxForks]
  /\ InRound("main") => round["main"] \in 1 .. MaxRound
  /\ InRound("fork") => forks > 0
  /\ Agreeing("fork") => round["fork"] \in 1 .. MaxRound + forks
  /\ \A b \in blocks : b.round \in 0 .. MaxRound
  /\ last.round \in 0 .. MaxRound + (IF InRound("fork") THEN forks - 1 ELSE forks)

(* Nobody but the main loop changes the chain before a fork is resolved: the
   round of its BA is the next one, and what it decides for is linked to the
   chain.                                                                  *)
ChainInv ==
  Unresolved =>
    /\ LinkedBut({other})
    /\ InRound("main") => round["main"] = last.round + 1
    /\ Agreeing("main") =>
         /\ hash["main"].parent \in blocks \cup {other}
         /\ hash["main"].parent.round = round["main"] - 1
    /\ Agreeing("fork") => round["fork"] <= last.round + 1

(* Until Stop is called hangForever is open whenever the fork loop waits. *)
HangInv == stop = "no" /\ pc["fork"] = "loop" => hangForever = "open"

IInv ==
  /\ TypeOK
  /\ hash = [l \in Loops |-> hash[l]]
  /\ RoundInv
  /\ ChainInv
  /\ SeedsFound
  /\ HangInv
  /\ CloseOnce

=============================================================================
