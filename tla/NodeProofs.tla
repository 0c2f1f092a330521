----------------------------- MODULE NodeProofs -----------------------------
(***************************************************************************)
(* Proofs about the two loops of a node, for every refresh interval of the *)
(* seed, any number of rounds and of ticks of the fork loop, and any       *)
(* proposals.                                                              *)
(***************************************************************************)
EXTENDS Node, TLAPS

(* Every step is one of these. *)
LEMMA Cases ==
  ASSUME [Next]_vars
  PROVE  \/ UNCHANGED vars
         \/ /\ panic = "no"
            /\ \/ \E l \in Loops : blockProposal(l) \/ decide(l) \/ hang(l) \/ forceQuit(l)
                                     \/ BAReturn(l) \/ quit(l)
               \/ processMain \/ commit
               \/ processForkResolve \/ commitFork \/ remake
               \/ stopQuit \/ stopHang
<1>1. "main" \in Loops /\ "fork" \in Loops
  BY DEF Loops
<1> QED
  BY <1>1 DEF Next, Main, Fork, Stop, BA

(* The seeds: in the first R rounds the committees are selected with the seed
   of the last block, or of the round that is asked for as round 0.        *)
LEMMA SeedRounds ==
  ASSUME NEW k \in 1 .. R
  PROVE  seedRound(k) = IF k = R THEN R - 1 ELSE 0
<1>1. k < R => k % R = k
  BY NodeAssumption
<1>2. R % R = 0
  BY NodeAssumption
<1> QED
  BY <1>1, <1>2, NodeAssumption DEF seedRound

(* Until a fork is resolved, on a chain that has not strayed, no lookup of a
   seed in the first R rounds fails.                                       *)
LEMMA SeedFound ==
  ASSUME IInv, Unresolved, ~Strayed, last.round < R
  PROVE  /\ sortitionSeed(last.round + 1) # Nil
         /\ ~vrfSeedPanics(last.round + 1)
         /\ \A l \in Loops : pc[l] = "BA" => sortitionSeed(round[l]) # Nil
<1>1. /\ last \in blocks /\ last.round \in Nat /\ last # Nil /\ LinkedBut({other})
      /\ \A b \in blocks : b # Nil
  BY NodeAssumption DEF IInv, RoundInv, ChainInv, LinkedBut, Nil
<1>2. ASSUME NEW k \in 1 .. last.round + 1
      PROVE  sortitionSeed(k) # Nil
  <2>1. k \in 1 .. R
    BY <1>1, NodeAssumption
  <2>2. seedRound(k) = last.round \/ seedRound(k) = 0
    BY <1>1, <2>1, SeedRounds, NodeAssumption
  <2> QED
    BY <1>1, <2>2 DEF sortitionSeed, getByRound
<1>3. \A l \in Loops : pc[l] = "BA" => round[l] \in 1 .. last.round + 1
  BY <1>1 DEF IInv, RoundInv, ChainInv, Loops, InRound, Agreeing
<1>4. ~vrfSeedPanics(last.round + 1)
  <2>1. getByRound(last.round) = last
    BY DEF getByRound
  <2>2. last.round # 0 => last.parent \in blocks /\ last.parent.round = last.round - 1
    BY <1>1 DEF LinkedBut, Strayed, genesis
  <2>3. last.round # 0 => get(last.parent, last.round - 1) = last.parent
    BY <2>2 DEF get
  <2> QED
    BY <1>1, <2>1, <2>2, <2>3 DEF vrfSeedPanics
<1> QED
  BY <1>1, <1>2, <1>3, <1>4

-----------------------------------------------------------------------------
(* The invariant is inductive.                                             *)

(* The invariant holds when the loops start. *)
LEMMA InitInv == Init => IInv
BY NodeAssumption
   DEF Init, InitChain, IInv, TypeOK, RoundInv, ChainInv, LinkedBut, SeedsFound, HangInv,
       CloseOnce, Loops, Locations, InRound, Agreeing, Nil, genesis

(* A panic leaves everything but itself: what is left to show is that it is
   one the invariant allows.                                               *)
LEMMA PanicInv ==
  ASSUME IInv, NEW why \in {"close", "hang", "BA", "sortitionSeed", "vrfSeed"}, Panic(why),
         why = "close" => stop # "no",
         why \in {"sortitionSeed", "vrfSeed"} => ~(Unresolved /\ ~Strayed /\ last.round < R)
  PROVE  IInv'
<1>1. panic' = why /\ UNCHANGED <<blocks, last, pc, round, hash, hangForever, stop, forks>>
  BY DEF Panic, chainVars
<1>2. TypeOK' /\ RoundInv' /\ ChainInv' /\ HangInv' /\ (hash = [l \in Loops |-> hash[l]])'
  BY <1>1 DEF IInv, TypeOK, RoundInv, ChainInv, HangInv, InRound, Agreeing, Unresolved, LinkedBut
<1>3. SeedsFound' /\ CloseOnce'
  BY <1>1 DEF SeedsFound, CloseOnce, Unresolved, Strayed
<1> QED
  BY <1>2, <1>3 DEF IInv

(* Without a panic the properties about panics are not at stake. *)
LEMMA CalmInv ==
  ASSUME panic' = "no"
  PROVE  SeedsFound' /\ CloseOnce'
BY DEF SeedsFound, CloseOnce

(* Loop l stays in its round, or leaves the loop after Stop. *)
LEMMA MoveInv ==
  ASSUME IInv, panic = "no", NEW l \in Loops,
         hang(l) \/ (BAReturn(l) /\ panic' = "no") \/ quit(l)
  PROVE  IInv'
<1>1. PICK where \in {"hang", "commit", "quit"} :
        /\ goto(l, where)
        /\ where = "hang" => pc[l] = "BA"
        /\ where = "commit" => pc[l] = "final"
        /\ where = "quit" => pc[l] = "loop" /\ stop # "no"
        /\ UNCHANGED <<blocks, last, round, hash, hangForever, stop, forks, panic>>
  BY DEF hang, BAReturn, quit, chainVars, Panic
<1>2. /\ pc'[l] = where /\ pc' \in [Loops -> Locations]
      /\ \A k \in Loops \ {l} : pc'[k] = pc[k]
  BY <1>1 DEF IInv, TypeOK, Locations, goto
<1>3. /\ \A k \in Loops : Agreeing(k)' => Agreeing(k)
      /\ \A k \in Loops : InRound(k)' <=> InRound(k)
      /\ Unresolved' => Unresolved
  BY <1>1, <1>2 DEF Agreeing, InRound, Unresolved, Loops
<1>4. TypeOK'
  BY <1>1, <1>2, <1>3 DEF IInv, TypeOK, Agreeing
<1>5. RoundInv' /\ ChainInv' /\ HangInv'
  BY <1>1, <1>2, <1>3 DEF IInv, RoundInv, ChainInv, HangInv, LinkedBut, Loops
<1> QED
  BY <1>1, <1>4, <1>5, CalmInv DEF IInv

(* BA begins, on top of the last block. *)
LEMMA ProposalInv ==
  ASSUME IInv, panic = "no", NEW l \in Loops, blockProposal(l)
  PROVE  IInv'
<1>1. CASE panic' # "no"
  <2>1. \/ Panic("sortitionSeed") /\ sortitionSeed(last.round + 1) = Nil
        \/ Panic("vrfSeed") /\ vrfSeedPanics(last.round + 1)
    BY <1>1 DEF blockProposal
  <2> QED
    BY <2>1, SeedFound, PanicInv
<1>2. CASE panic' = "no"
  <2>1. /\ pc[l] = "propose" /\ goto(l, "BA")
        /\ round' = [round EXCEPT ![l] = IF l = "main" THEN @ ELSE last.round + 1]
        /\ hash' = [hash EXCEPT ![l] = emptyBlock(round'[l], last)]
        /\ UNCHANGED <<blocks, last, hangForever, stop, forks, panic>>
    BY <1>2 DEF blockProposal, chainVars, Panic
  <2>2. /\ pc'[l] = "BA" /\ pc' \in [Loops -> Locations]
        /\ \A k \in Loops \ {l} : pc'[k] = pc[k]
    BY <2>1 DEF IInv, TypeOK, Locations, goto
  <2>3. /\ hash'[l] = emptyBlock(round'[l], last) /\ hash' = [k \in Loops |-> hash'[k]]
        /\ \A k \in Loops \ {l} : hash'[k] = hash[k] /\ round'[k] = round[k]
        /\ round'["main"] = round["main"]
        /\ l = "fork" => round'[l] = last.round + 1
        /\ DOMAIN round' = Loops
    BY <2>1 DEF IInv, RoundInv, Loops
  <2>4. /\ \A k \in Loops : InRound(k)' <=> InRound(k)
        /\ \A k \in Loops \ {l} : Agreeing(k)' <=> Agreeing(k)
        /\ Unresolved' <=> Unresolved
        /\ InRound(l)
    BY <2>1, <2>2 DEF Agreeing, InRound, Unresolved, Loops
  <2>5. TypeOK'
    BY <2>1, <2>2, <2>3 DEF IInv, TypeOK, emptyBlock
  <2>6. RoundInv'
    BY <2>1, <2>3, <2>4, NodeAssumption DEF IInv, RoundInv, Loops, TypeOK
  <2>7. ChainInv' /\ HangInv'
    BY <2>1, <2>2, <2>3, <2>4, NodeAssumption
    DEF IInv, ChainInv, HangInv, LinkedBut, Loops, emptyBlock, RoundInv
  <2> QED
    BY <2>1, <2>3, <2>5, <2>6, <2>7, CalmInv DEF IInv
<1> QED
  BY <1>1, <1>2

(* BA decides for a block of its round, whose parent is of the round before. *)
LEMMA DecideInv ==
  ASSUME IInv, panic = "no", NEW l \in Loops, decide(l)
  PROVE  IInv'
<1>1. CASE panic' # "no"
  <2>1. Panic("sortitionSeed") /\ pc[l] = "BA" /\ sortitionSeed(round[l]) = Nil
    BY <1>1 DEF decide
  <2> QED
    BY <2>1, SeedFound, PanicInv
<1>2. CASE panic' = "no"
  <2>1. PICK h \in Proposed(round[l]) \cup {hash[l], emptyBlock(round[l], last)} :
          /\ hash' = [hash EXCEPT ![l] = h]
          /\ pc[l] = "BA" /\ goto(l, "final")
          /\ UNCHANGED <<blocks, last, round, hangForever, stop, forks, panic>>
    BY <1>2 DEF decide, chainVars, Panic
  <2>2. /\ pc'[l] = "final" /\ pc' \in [Loops -> Locations]
        /\ \A k \in Loops \ {l} : pc'[k] = pc[k]
    BY <2>1 DEF IInv, TypeOK, Locations, goto
  <2>3. /\ hash'[l] = h /\ hash' = [k \in Loops |-> hash'[k]]
        /\ \A k \in Loops \ {l} : hash'[k] = hash[k]
    BY <2>1 DEF IInv
  <2>4. /\ \A k \in Loops : (InRound(k)' <=> InRound(k)) /\ (Agreeing(k)' <=> Agreeing(k))
        /\ Unresolved' <=> Unresolved
        /\ Agreeing(l) /\ InRound(l)
    BY <2>1, <2>2 DEF Agreeing, InRound, Unresolved, Loops
  <2>5. h.round = round[l]
    BY <2>1 DEF Proposed, emptyBlock, IInv, TypeOK
  <2>6. TypeOK'
    BY <2>1, <2>2, <2>3, <2>5 DEF IInv, TypeOK
  <2>7. RoundInv' /\ HangInv'
    BY <2>1, <2>2, <2>4 DEF IInv, RoundInv, HangInv, Loops
  <2>8. ASSUME Unresolved, l = "main"
        PROVE  h.parent \in blocks \cup {other} /\ h.parent.round = round[l] - 1
    <3>1. last \in blocks /\ round[l] = last.round + 1 /\ last.round \in Int
      BY <2>4, <2>8 DEF IInv, ChainInv, LinkedBut, RoundInv
    <3>2. CASE h \in Proposed(round[l])
      BY <3>1, <3>2 DEF Proposed, Ends
    <3>3. CASE h = hash[l]
      BY <2>4, <2>8, <3>3 DEF IInv, ChainInv
    <3>4. CASE h = emptyBlock(round[l], last)
      BY <3>1, <3>4 DEF emptyBlock
    <3> QED
      BY <2>1, <3>2, <3>3, <3>4
  <2>9. ChainInv'
    BY <2>1, <2>3, <2>4, <2>8 DEF IInv, ChainInv, LinkedBut, Loops
  <2> QED
    BY <2>1, <2>3, <2>6, <2>7, <2>9, CalmInv DEF IInv
<1> QED
  BY <1>1, <1>2

(* The main loop begins the round after that of the last block. *)
LEMMA MainInv ==
  ASSUME IInv, panic = "no", processMain
  PROVE  IInv'
<1>1. /\ pc["main"] = "loop" /\ goto("main", "propose") /\ last.round < MaxRound
      /\ round' = [round EXCEPT !["main"] = last.round + 1]
      /\ UNCHANGED <<blocks, last, hash, hangForever, stop, forks, panic>>
  BY DEF processMain, chainVars
<1>2. /\ pc'["main"] = "propose" /\ pc'["fork"] = pc["fork"] /\ pc' \in [Loops -> Locations]
      /\ round'["main"] = last.round + 1 /\ round'["fork"] = round["fork"]
      /\ DOMAIN round' = Loops
  BY <1>1 DEF IInv, TypeOK, RoundInv, Loops, Locations, goto
<1>3. /\ InRound("main")' /\ ~Agreeing("main")'
      /\ InRound("fork")' <=> InRound("fork")
      /\ Agreeing("fork")' <=> Agreeing("fork")
      /\ Unresolved' <=> Unresolved
  BY <1>1, <1>2 DEF InRound, Agreeing, Unresolved
<1>4. TypeOK'
  BY <1>1, <1>2 DEF IInv, TypeOK, Loops
<1>5. RoundInv'
  BY <1>1, <1>2, <1>3, NodeAssumption DEF IInv, TypeOK, RoundInv, Loops
<1>6. ChainInv' /\ HangInv'
  BY <1>1, <1>2, <1>3 DEF IInv, ChainInv, HangInv, LinkedBut
<1> QED
  BY <1>1, <1>4, <1>5, <1>6, CalmInv DEF IInv

(* The main loop appends what BA decided for. *)
LEMMA CommitInv ==
  ASSUME IInv, panic = "no", commit
  PROVE  IInv'
<1> DEFINE h == hash["main"]
<1>1. /\ pc["main"] = "commit" /\ goto("main", "loop")
      /\ blocks' = blocks \cup {h}
      /\ last' = IF h.round > last.round THEN h ELSE last
      /\ UNCHANGED <<round, hash, hangForever, stop, forks, panic>>
  BY DEF commit, add
<1>2. /\ pc'["main"] = "loop" /\ pc'["fork"] = pc["fork"] /\ pc' \in [Loops -> Locations]
  BY <1>1 DEF IInv, TypeOK, Loops, Locations, goto
<1>3. /\ InRound("main") /\ Agreeing("main") /\ ~InRound("main")' /\ ~Agreeing("main")'
      /\ InRound("fork")' <=> InRound("fork")
      /\ Agreeing("fork")' <=> Agreeing("fork")
      /\ Unresolved' <=> Unresolved
  BY <1>1, <1>2 DEF InRound, Agreeing, Unresolved
<1>4. h.round = round["main"] /\ round["main"] \in 1 .. MaxRound
  BY <1>1, <1>3 DEF IInv, TypeOK, RoundInv, Loops
<1> HIDE DEF h
<1>5. TypeOK'
  <2>1. h.round \in 0 .. MaxRound + MaxForks
    BY <1>4, NodeAssumption
  <2> QED
    BY <1>1, <1>2, <2>1 DEF IInv, TypeOK, Loops
<1>6. RoundInv'
  BY <1>1, <1>2, <1>3, <1>4, NodeAssumption DEF IInv, TypeOK, RoundInv, Loops
<1>7. HangInv'
  BY <1>1, <1>2 DEF IInv, HangInv
<1>8. ChainInv'
  <2> SUFFICES ASSUME Unresolved
               PROVE  /\ LinkedBut({other})'
                      /\ Agreeing("fork") => round["fork"] <= last'.round + 1
    BY <1>1, <1>3 DEF ChainInv
  <2>1. /\ LinkedBut({other}) /\ round["main"] = last.round + 1 /\ last.round \in Int
        /\ h.parent \in blocks \cup {other} /\ h.parent.round = round["main"] - 1
        /\ Agreeing("fork") => round["fork"] <= last.round + 1 /\ round["fork"] \in Int
    BY <1>3 DEF IInv, ChainInv, RoundInv, h
  <2>2. last' = h
    BY <1>1, <1>4, <2>1
  <2> QED
    BY <1>1, <1>4, <2>1, <2>2 DEF LinkedBut, other
<1> QED
  BY <1>1, <1>5, <1>6, <1>7, <1>8, CalmInv DEF IInv

(* A tick of the fork loop. *)
LEMMA TickInv ==
  ASSUME IInv, panic = "no", processForkResolve
  PROVE  IInv'
<1>1. CASE hangForever = "closed"
  <2>1. Panic("close") /\ stop # "no"
    BY <1>1 DEF processForkResolve, IInv, HangInv
  <2> QED
    BY <2>1, PanicInv
<1>2. CASE hangForever # "closed"
  <2>1. /\ pc["fork"] = "loop" /\ goto("fork", "propose") /\ forks < MaxForks
        /\ forks' = forks + 1 /\ hangForever' = "closed"
        /\ UNCHANGED <<blocks, last, round, hash, stop, panic>>
    BY <1>2 DEF processForkResolve, chainVars
  <2>2. pc'["fork"] = "propose" /\ pc'["main"] = pc["main"] /\ pc' \in [Loops -> Locations]
    BY <2>1 DEF IInv, TypeOK, Loops, Locations, goto
  <2>3. /\ ~InRound("fork") /\ InRound("fork")' /\ ~Agreeing("fork")'
        /\ InRound("main")' <=> InRound("main")
        /\ Agreeing("main")' <=> Agreeing("main")
        /\ Unresolved' => Unresolved
    BY <2>1, <2>2 DEF InRound, Agreeing, Unresolved, IInv, TypeOK
  <2>4. TypeOK'
    BY <2>1, <2>2, NodeAssumption DEF IInv, TypeOK, Loops
  <2>5. RoundInv'
    BY <2>1, <2>3 DEF IInv, TypeOK, RoundInv, Loops
  <2>6. ChainInv' /\ HangInv'
    BY <2>1, <2>2, <2>3 DEF IInv, ChainInv, HangInv, LinkedBut
  <2> QED
    BY <2>1, <2>4, <2>5, <2>6, CalmInv DEF IInv
<1> QED
  BY <1>1, <1>2

(* The fork loop makes the block of its BA the last one, or hangForever. *)
LEMMA ForkInv ==
  ASSUME IInv, panic = "no", commitFork \/ remake
  PROVE  IInv'
<1>1. CASE commitFork
  <2>1. /\ pc["fork"] = "commit" /\ goto("fork", "remake") /\ last' = hash["fork"]
        /\ UNCHANGED <<blocks, round, hash, hangForever, stop, forks, panic>>
    BY <1>1 DEF commitFork, resolveFork
  <2>2. pc'["fork"] = "remake" /\ pc'["main"] = pc["main"] /\ pc' \in [Loops -> Locations]
    BY <2>1 DEF IInv, TypeOK, Loops, Locations, goto
  <2>3. /\ InRound("fork") /\ Agreeing("fork") /\ ~InRound("fork")' /\ ~Agreeing("fork")'
        /\ InRound("main")' <=> InRound("main")
        /\ forks > 0
    BY <2>1, <2>2 DEF InRound, Agreeing, IInv, RoundInv
  <2>4. ~Unresolved'
    BY <2>1, <2>2, <2>3 DEF Unresolved, IInv, TypeOK
  <2>5. last'.round = round["fork"] /\ round["fork"] \in 1 .. MaxRound + forks
    BY <2>1, <2>3 DEF IInv, TypeOK, RoundInv, Loops
  <2>6. TypeOK'
    <3>1. last'.round \in 0 .. MaxRound + MaxForks
      BY <2>5, NodeAssumption DEF IInv, TypeOK
    <3> QED
      BY <2>1, <2>2, <3>1 DEF IInv, TypeOK, Loops
  <2>7. RoundInv'
    BY <2>1, <2>3, <2>5 DEF IInv, TypeOK, RoundInv, Loops
  <2>8. ChainInv' /\ HangInv'
    BY <2>2, <2>4 DEF ChainInv, HangInv
  <2> QED
    BY <2>1, <2>6, <2>7, <2>8, CalmInv DEF IInv
<1>2. CASE remake
  <2>1. /\ pc["fork"] = "remake" /\ goto("fork", "loop") /\ hangForever' = "open"
        /\ UNCHANGED <<blocks, last, round, hash, stop, forks, panic>>
    BY <1>2 DEF remake, chainVars
  <2>2. pc'["fork"] = "loop" /\ pc'["main"] = pc["main"] /\ pc' \in [Loops -> Locations]
    BY <2>1 DEF IInv, TypeOK, Loops, Locations, goto
  <2>3. /\ \A l \in Loops : (InRound(l)' <=> InRound(l)) /\ (Agreeing(l)' <=> Agreeing(l))
        /\ Unresolved' <=> Unresolved
    BY <2>1, <2>2 DEF InRound, Agreeing, Unresolved, Loops
  <2>4. TypeOK'
    BY <2>1, <2>2 DEF IInv, TypeOK, Loops
  <2>5. RoundInv' /\ ChainInv' /\ HangInv'
    BY <2>1, <2>3 DEF IInv, RoundInv, ChainInv, HangInv, LinkedBut, Loops
  <2> QED
    BY <2>1, <2>4, <2>5, CalmInv DEF IInv
<1> QED
  BY <1>1, <1>2

(* Stop closes quitCh, then hangForever. *)
LEMMA StopInv ==
  ASSUME IInv, panic = "no", stopQuit \/ stopHang
  PROVE  IInv'
<1>1. CASE stopHang /\ hangForever = "closed"
  <2>1. Panic("close") /\ stop # "no"
    BY <1>1 DEF stopHang
  <2> QED
    BY <2>1, PanicInv
<1>2. CASE ~(stopHang /\ hangForever = "closed")
  <2>1. /\ stop' \in {"quit", "done"} /\ hangForever' \in {"open", "closed"}
        /\ UNCHANGED <<blocks, last, pc, round, hash, forks, panic>>
    BY <1>2 DEF stopQuit, stopHang, chainVars, IInv, TypeOK
  <2>2. TypeOK' /\ RoundInv' /\ ChainInv' /\ HangInv'
    BY <2>1 DEF IInv, TypeOK, RoundInv, ChainInv, HangInv, InRound, Agreeing, Unresolved, LinkedBut
  <2> QED
    BY <2>1, <2>2, CalmInv DEF IInv
<1> QED
  BY <1>1, <1>2

(* Every step of the loops and of Stop keeps it. *)
LEMMA InvStep == IInv /\ [Next]_vars => IInv'
<1> SUFFICES ASSUME IInv, [Next]_vars PROVE IInv'
  OBVIOUS
<1>1. CASE UNCHANGED vars
  BY <1>1 DEF vars, chainVars, IInv, TypeOK, RoundInv, ChainInv, HangInv, SeedsFound, CloseOnce,
              InRound, Agreeing, Unresolved, Strayed, LinkedBut
<1>2. ASSUME NEW l \in Loops, panic = "no", hang(l) \/ forceQuit(l) \/ BAReturn(l) \/ quit(l)
      PROVE  IInv'
  <2>1. CASE forceQuit(l) \/ (BAReturn(l) /\ panic' # "no")
    <3>1. \E why \in {"hang", "BA"} : Panic(why)
      BY <1>2, <2>1 DEF forceQuit, BAReturn
    <3> QED
      BY <3>1, PanicInv
  <2>2. CASE hang(l) \/ (BAReturn(l) /\ panic' = "no") \/ quit(l)
    BY <1>2, <2>2, MoveInv
  <2> QED
    BY <1>2, <2>1, <2>2
<1> QED
  BY <1>1, <1>2, Cases, ProposalInv, DecideInv, MainInv, CommitInv, TickInv, ForkInv, StopInv

-----------------------------------------------------------------------------
(* The theorems.                                                           *)

(* The inductive invariant of the loops, the chain and the channel. *)
THEOREM Invariance == Spec => []IInv
BY InitInv, InvStep, PTL DEF Spec

(* Every variable of a node keeps its type: in particular the blocks of the
   chain and the decisions of BA have the rounds of their BA.              *)
THEOREM TypeCorrect == Spec => []TypeOK
<1>1. IInv => TypeOK
  BY DEF IInv
<1> QED
  BY <1>1, Invariance, PTL

(* Up to the resolution of a fork the node holds its whole chain but for a
   block of the fork of other users.                                       *)
THEOREM ChainIsLinked == Spec => []LinkedUntilFork
<1>1. IInv => LinkedUntilFork
  BY DEF IInv, ChainInv, LinkedUntilFork
<1> QED
  BY <1>1, Invariance, PTL

(* In the first R rounds no lookup of a seed fails on a chain of its own that
   no fork has been resolved on.                                           *)
THEOREM SeedsAreFound == Spec => []SeedsFound
<1>1. IInv => SeedsFound
  BY DEF IInv
<1> QED
  BY <1>1, Invariance, PTL

(* hangForever is closed twice only if Stop is called. *)
THEOREM ClosedOnce == Spec => []CloseOnce
<1>1. IInv => CloseOnce
  BY DEF IInv
<1> QED
  BY <1>1, Invariance, PTL

=============================================================================
