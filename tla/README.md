# Verification of the Algorand demo in TLA+

The repository is a Go implementation of Algorand that runs all users of a
network in one process. This directory holds TLA+ modules that model its core,
the TLC configurations that check them on small instances, and proofs that TLAPS
checks for every instance. `PROJECT.json` lists the runs, the mutants that show
that each property can fail, the source lines behind every definition, the
findings, the hazards and the theorems.

## 1. The system

### Components

| Component | Source | State | Operations |
|---|---|---|---|
| Byzantine agreement BA* | `algorand.go` BA, reduction, binaryBA, countVotes, processMsg, committeeVote, commonCoin | locals of one call per round: step, hash, r | vote, count until a threshold or a timeout, decide, hang after MAXSTEPS |
| Vote lists | `peer.go` handle (VOTE), voteIterator, List, Iterator | `incomingVotes`: a list per (round, step) | append a vote, iterate |
| Block proposal | `algorand.go` blockProposal; `peer.go` handle (BLOCK, *_PROPOSAL); `message.go` Verify | `maxProposals`, `blocks` | propose, receive, verify, keep the highest, wait for its block |
| Blockchain | `blockchain.go` | `blocks` by round and hash, `last` | add, get, getByRound, resolveFork |
| Node loops | `algorand.go` Start, Stop, run, forkLoop, processMain, processForkResolve, vrfSeed, sortitionSeed | `quitCh`, `hangForever` | a round of consensus; a fork resolution per hour |
| Peer pool, gossip | `peer.go` GetPeerPool, gossip, halfGossip | the pool of peers | add, remove, send to all or to half |
| Sortition | `algorand.go` sortition, verifySort, subUsers, maxPriority; `binomial.go` | caches | number of sub-users from a VRF value |
| Common coin | `algorand.go` commonCoin; `peer.go` getIncomingMsgs | none | low bit of the least hash of the votes at hand |
| Messages, hashes | `message.go`, `blockchain.go` Block, `common/types.go` | none | serialize, sign, hash |
| Keys, VRF, curve | `crypto.go`, `vrf/` | none | sign, evaluate, verify |
| Command line | `main.go` | parameters | parse options, create and start the nodes |
| Helpers | `common/bytes.go`, `config.go`, `log.go`, `parameter.go` | none | conversions, configuration, logging, constants |

### Interaction

Every node has a goroutine for `run` (the main loop) and one for `forkLoop`. In a
round the main loop calls `blockProposal`, `BA` and `chain.add`. Votes, proposals
and blocks are sent by `gossip`, which starts a goroutine per receiver that
executes the receiver's `handle`; so messages are delayed and reordered at will
and a node never receives its own. `handle` writes the peer's maps, which the
receiver's loops poll: `countVotes` through an iterator on the list of its step,
`blockProposal` through `getMaxProposal` and `getBlock`. Timeouts are timers of
the waiting loop. The fork loop runs `blockProposal` and `BA` as well, at the
same time as the main loop, and shares the chain, the maps and `hangForever` with
it. Nothing is persisted, so there is no crash recovery; a panic in any goroutine
ends the whole process.

### What is hard, and what makes each part correct

* BA*: nodes decide in different steps, with different votes at hand, and leave.
  A FINAL block must bind everybody who took part in it; a round must yield at
  most one non-empty block; whoever is late must still be able to finish.
* Vote lists: lists are looked up, extended and stored in separate critical
  sections. A vote must be counted at most once per voter, and not get lost.
* Block proposal: the highest proposal is read under one lock and replaced under
  another one. What goes into BA must be the block of a verified proposal, of
  the highest priority.
* Chain and loops: two loops write the chain; later rounds look earlier blocks
  up. The chain must be whole, must not get shorter, and Stop must end the loops.
* Peer pool: it is made by whichever node comes first, without a lock, and the
  slices of peers that the halves of a gossip are taken from differ from call to
  call. Whoever is started must be found, whoever is found must be running, and the
  race must end with the start.
* Sortition: sums are computed by goroutines and cached by pointer. They must be
  exact in every order, and the loop over them must end at the right interval.
* VRF, curve, limbs: carries that are delayed, sums that are multiplied without a
  carry, encodings at the prime, three different scalar multiplications that must
  agree. What a node proves must verify.

The hazards, each at its line and with the properties that cover it, are in
`PROJECT.json`.

## 2. Modules

| Module | Contents |
|---|---|
| `BAStar` | BA* of one round for any nodes, blocks, chains, committees and MAXSTEPS; asynchronous network |
| `RoundConsensus` | what a round of consensus promises, as an abstract specification |
| `BAStarSync` | `BAStar` on a network that is synchronous except for given calls; termination |
| `BAStarProofs` | proofs about `BAStar`, that it implements `RoundConsensus`, and that `BAStarSync` implements it |
| `SumProofs` | facts about sums over finite sets, powers, congruence and folds, for the other proofs |
| `VoteList`, `VoteListProofs` | the list of one step at the grain of critical sections, and proofs |
| `Proposals`, `ProposalsProofs` | block proposal at one node, and proofs |
| `Blockchain` | the chain of one node: state, lookups, `add`, `resolveFork` |
| `Node`, `NodeProofs` | main loop, fork loop and Stop of one node, on top of `Blockchain`, and proofs |
| `PeerPool`, `PeerPoolProofs` | the start of the nodes, the peer pool, gossip and halfGossip, and proofs |
| `Sortition`, `SortitionProofs` | the binomial distribution with its caches and goroutines, subUsers, the coin, and proofs |
| `Powers` | powers, as a recursive function that can be proved about |
| `Field`, `Scalar` | the limbs of GF(2^255 - 19) and of the scalars, as operators for any shape of limbs |
| `Limbs`, `LimbsProofs` | sequences of calls of `Field` and `Scalar`, what their results stand for, and proofs for every shape of limbs |
| `Curve` | group elements, encodings, tables and scalar multiplications, for any prime and curve |
| `VRF` | the VRF on top of `Curve` |
| `MCBAStar`, `MCBAStarSync`, `MCVoteList`, `MCProposals`, `MCSortition`, `MCLimbs`, `MCVRF` | values of the constants for TLC |

### BAStar

One action per return of `countVotes`: `BA` (the call), `reduction1`,
`reduction2`, `binaryBA1`, `binaryBA2`, `binaryBA3`, `BAReturn`; besides them
`closeHangForever` and `BAPanic`, the assignment to a nil block. `pc[n]` tells in
which `countVotes` call node n waits, `step[n]` which step it counts, `hash` and
`r` are the locals of the same names, `sent` is the set of votes gossiped.

The arrival of votes is not an action. A node looks at the votes of a step only
in the `countVotes` call for this step, so the model lets that call return any
hash for which enough votes have been *sent* by others, or the timeout. This
covers every delay, order and loss. That `countVotes` really returns a hash only
for different voters holding the threshold is the property `CountExact` of
`VoteList`.

Sortition is a constant, `Weight(n, s)`, of any committee for each step. What BA*
needs of it is one assumption: two sets of users that reach the threshold of a step
share a user (`QuorumAssumption`). It follows when fewer than twice the threshold of
sub-users are selected for that step (`QuorumsMeet`); the code has no check for it.
Nothing is assumed of the committees of different steps. `role` takes the step
(`algorand.go:360`, `:565`), so that they are drawn independently, and a quorum of
FINAL may have no user in common with one of a later step of binaryBA. Then the
round may end with the empty block for some nodes although others hold FINAL
consensus on another one. `FinalUnlessApart` says how far FINAL binds: what a node
gets against it is the empty block only, never another proposal, and by a quorum of
a later step of users none of whom voted in FINAL. Whoever voted in FINAL votes for
nothing else afterwards. The committees of `ba_async` are such that this happens.

The malicious types of `parameter.go` are modelled: `EvilVoteEmpty` and
`EvilVoteNothing` in `BA` and `committeeVote`; `EvilBlockProposal` differs only in
what is proposed, and any node may begin with any block.

The coin is a choice of 0 or 1 per node, as the nodes may have different votes at
hand.

### BAStarSync

Here a node counts the votes it has read. The timer may expire only when all
nodes have cast their votes for the call and the node has read them, except in
the calls in `SlowCalls`, in which it may expire at any time. The list of a step
survives from one call to the next, which matters because binaryBA counts an odd
step twice.

### VoteList

`handleLookup`, `handleAdd` and `handleStore` are the three critical sections of
`handle` for one vote; `iteratorLookup` and `iteratorStore` those of
`voteIterator`; `countVote` and `countTimeout` the iterations of the loop in
`countVotes`. A list is named by the goroutine that made it. `returns` records
the calls that have ended, `MaxCalls` bounds them.

### Proposals

`handleBlock`, `handleProposal` (the comparison) and `handleVerify`
(verification and `setMaxProposal`) are the handlers; `propose` or `notSelected`,
`timeoutForPriority`, `tick`, `getBlock` and `timeoutForBlockFlying` are
`blockProposal`. A tick reads the proposal and its block under different locks, so
these are two actions. Priorities are numbers; `Valid` stands for the comparison
of the priority in `Verify`. The history variable `raced` records that a
goroutine replaced a proposal other than the one it had read.

### Blockchain and Node

A block is a record of round, parent and an id; as hashes are injective, it
stands for its hash. `Nil`, what a lookup returns that finds nothing, is no block. `getByRound` is written without its loop, which ends before
its third test: a block found in the map of a round is of this round.

`Node` has two loops, both going through `blockProposal`, `decide` or `hang`, and
`BAReturn`, and ending with `commit` or with `commitFork` and `remake`; `Stop` is
`stopQuit` and `stopHang`. BA is reduced to its outcome: any block proposed for
the round on a block the node has, or on `other`, a block of round 1 that some
users have agreed on and the node has not; or an empty block. `panic` records
what ended the process.

### PeerPool

`NewHonest` and `NewMalicious` are the loops of `regularRun`. A node that is made
has a goroutine with the steps `FindPool`, `MakePool`, `ReturnPool` (the test, the
assignment and the second read of the variable in GetPeerPool) and `add`; then it
may `gossip`, `halfGossip` and, by Stop, `remove`; a node that is stopped in the
middle of a round gossips until the round is over. `heard` is whom the last message
of a node went to, the sender itself not among them. A pool is named by the node that
made it. The accesses to the variable race; on return the build may use the value
it has just written or read the variable again, and both are allowed.

Two things hold of the code around this module. `regularRun` asks for the option
`type`, but the option is called `mtype` (`main.go:48` and `:69`), so that the
malicious type is 0 whatever was asked for; the constants of `parameter.go:47`
begin at 20, as `iota` counts from the head of their block, and 0 is none of them.
So no node of the command misbehaves; `MaliciousType` stands for the argument of
NewAlgorand. And the first loop makes one node more than there are users.

### Sortition

One behaviour is either a call of `subUsers` with one hash, or a few calls of
`CDF` in any order (`Call`). `CDFKnown` is a return from a cache, `CDFBegin` copies
the closest cached sum and starts the goroutines, `ProbLoad` and `ProbStore` are a
goroutine's lookup and its computation, `Receive` adds what comes next, `CDFEnd`
stores the sum. `Return` is what `subUsers` does with a sum. Rationals have the
denominator pd^N and stand for their numerators; those shared by pointer are places
in `heap`, so that an addition to a cached sum would show; `one` is the rational 1. `Exp` and `ExpStore`
follow the recursion over the square root of the exponent, with a cache per base.

`commonCoin` is the code's computation. Its minimum starts at 2^32
(`algorand.go:549` takes HashLength, 32, for bits), while the hashes have 256 bits:
with the real values nearly every coin is 0. `CoinStart` is therefore a parameter.

### Field, Scalar, Limbs

`Field` has the limbs of a field element as a function, and the carries of
`FeCombine`, the products, `FeFromBytes` and `FeToBytes` as folds over them in the
order of the code; `Scalar` has the same for `ScMulAdd` and `ScReduce`. The code is
unrolled for ten limbs of 26 and 25 bits and 12 limbs of 21 bits; the modules have
the numbers as parameters, because TLC computes with 32 bits. A register of `Limbs`
keeps, beside the limbs, the number that they have to stand for and how many
products have been added since the last carry; each action is a call. `ToBytes` is what
FeToBytes does to its argument, also when FeIsNegative or FeIsNonZero call it: it leaves
the canonical limbs there, which fill their width and count as two products, and
`FromBytes` goes on with them. The addition
chains of FeInvert and fePow22523 are checked as they are, for 2^255 - 19, by their
exponents modulo enough primes.

FeMul's comment asks for limbs below 1.1 * 2^26; the sum of three products that
`Double` leaves to it has up to 1.65 * 2^26. `LimbsBounded` holds nevertheless, and
19 times such a limb, which the code computes in 32 bits, just fits (the limit is
1.68 * 2^26). The model's integers are unbounded; `CodeDoesNotOverflow` shows that for
the limbs of the code this makes no difference.

### Curve, VRF

The four kinds of coordinates, `FromBytes`, `ToBytes`, the additions, `slide`, and
the multiplications `GeDoubleScalarMultVartime`, `GeScalarMultBase` and
`GeScalarMult`, over the integers modulo a prime. The tables of `const.go` are
defined by the multiples of the base point that they hold: (2j + 1) B in `bi`,
(j + 1) 256^i B in `base`. `The` and `Loop` only make TLC evaluate a loop once per
round.

`VRF` follows `vrf_ed25519.go`; hashes and key generation are parameters. This file
imports `github.com/r2ishiguro/vrf/go/vrf_ed25519/edwards25519`, of which
`vrf/edwards25519` in the repository is a copy.

VerifyVRF (`crypto.go:32`) drops the answer of ECVRF_verify, and verifySort
(`algorand.go:346`) calls it with the key and the tokens of the receiver: proofs
are in fact not checked. The properties are about the functions themselves.

## 3. Runs

| Run | Configuration | Shows | States |
|---|---|---|---|
| `ba_async` | 4 nodes, one of them EvilVoteEmpty, 2 blocks, thresholds 2, committees that change from step to step, MAXSTEPS 2 | TypeOK, OneBlock, FinalUnlessApart, FinalNotEmpty, Validity | 767,681 |
| `ba_steps` | 3 nodes, 2 blocks, MAXSTEPS 4 | the inductive invariant IInv, and RoundSpec (refinement) | 47,617 |
| `ba_fork` | one node's chain has forked, a proposal extends the fork | OwnChain | 251,716 |
| `ba_sync` | one node with 2 votes, 2 blocks, MAXSTEPS 4, slow in the first binary step | Termination | 18,936 |
| `vote_list` | 4 votes of 3 users, one votes twice, one has no sub-users, 2 calls | TypeOK, CountExact, RecountSame, CalmStays | 285,266 |
| `proposals` | 4 proposals and the node's own; two of equal priority, one invalid | TypeOK, HighestUnlessRaced, BlockVerified, OnlyUp | 321,984 |
| `node_loops` | 3 rounds of the main loop, 2 ticks of the fork loop, Stop, R = 2 | TypeOK, LinkedUntilFork, SeedsFound, CloseOnce, StopQuits | 186,030 |
| `peer_pool` | 3 nodes, one of them EvilBlockProposal | TypeOK, LostOnlyByRace, FoundAreRunning, PoolStays | 19,289 |
| `sortition` | 5 tokens, p = 2/5, 8 hashes at and between the bounds, 3 calls of CDF | CDFExact, SelectedExact, CoinOrderFree, SubUsersReturns | 6,441 |
| `limbs` | 2 limbs of 13 and 12 bits, bytes of 4; scalars of 4 limbs of 6 bits; 3 calls in a row | LimbsExact, BytesExact, LimbsBounded, ScalarExact, ChainsExact | 40,054 |
| `vrf` | 536 points over the integers modulo 509, 3 keys, 3 nonces, 3 messages, every encoding | HonestVerifies, MultsExact, DecodeExact | 1,402 |

The bounds. MAXSTEPS 2 is one iteration of binaryBA with its hang, 4 are two of
them, with the step that is used twice and the votes three steps ahead; later
iterations repeat these steps, and the proofs cover every MAXSTEPS. Four nodes
with thresholds of 2 are the smallest network in which a quorum leaves out a node
that votes and the committee of a later step has a quorum apart from that of FINAL. Four votes suffice for two lists to be made
at the same time while an iterator holds a third one, and for a voter with two
votes. Two ticks of the fork loop are needed for hangForever to be made again and
closed again. R = 2 lets rounds below, at and above the refresh interval occur.
Three nodes suffice for two to make a pool while a third is given the one that is
replaced, and for a node of that pool to be stopped later. The hashes of
`sortition` lie below the first sum, between all others and at the top. The inputs
of `limbs` are 0, 1, the prime, its neighbours and two numbers that add up to it;
two wide limbs are the smallest shape with the room that the bounds are about, and
products on both sides of the wrap-around; the proofs cover every other shape. On the small curve, as on the real
one, the cofactor is 8 and some encodings of y are not below the prime.
`CHECK_DEADLOCK FALSE` is given because a round ends, because the process ends
with a panic, and in `Node` because of the bounds; in `PeerPool` nothing stops, and it is checked.

One run shows a disagreement of the code with what the repository says of it:
`doc_queue`. `peer.go:133` says that `voteIterator` returns the iterator of the
incoming messages; two goroutines make a list for the step, and the iterator has the
one that is lost, so that countVotes waits although all the votes are there.

The modules show other things that the code does and that are worth knowing:

* A node may decide for a block that it has not received: getBlock returns nil, and
  the next assignment panics (`algorand.go:406`). `BAPanic` in `BAStar`.
* A hang that is forced to quit (`algorand.go:492`) returns the zero hash, for which
  there is no block, and the process panics: `BAPanic` in `BAStar`, `forceQuit` in
  `Node`.
* A handler compares its proposal with the stored one, another proposal is stored in
  between, and the lower one replaces it (`peer.go:112`): the flag `raced` of
  `Proposals`, without which `HighestUnlessRaced` fails.
* A fork proposal is compared by its round only (`peer.go:103`), so the first one is
  kept whatever its priority; `HighestUnlessRaced` is stated for regular proposals.
* The third phase of binaryBA leaves `step` as it is, so an iteration takes two
  step numbers (docs/剖析Algorand.md:120 counts three) and every odd step from 3 on
  is voted in and counted twice. `ba_steps` and the proofs cover this.
* The parent of a decided block is not compared with the chain, and blocks of other
  forks are not stored (docs/剖析Algorand.md:128 has every user track them): a block
  is appended whose parent the node does not have. `Strayed` in `Node`.
* After such a block, or after a fork has been resolved to a block that is not
  stored, vrfSeed does not find a parent and panics (`algorand.go:101`): without
  `Unresolved` and `Strayed`, `SeedsFound` fails.
* `resolveFork` may put a block of a lower round at the end of the chain, if the
  main loop has gone on while the fork was decided.
* `sortitionSeed` finds only the last block: `getByRound` returns it for round 0, and
  nothing for any other round below it. Hence the bound by R in `SeedsFound`.
* `subUsers` takes the interval between CDF(j) and CDF(j+1) for j, so that a node gets
  one sub-user less than the distribution has for its hash: `SelectedExact`.
* FINAL consensus on a block and TENTATIVE consensus on the empty one may come out of
  one round, as the committees of FINAL and of the later steps are independent:
  `FinalUnlessApart` states it, and without its second part it fails in `ba_async`.
* The two halves of a gossip are taken from two slices in different orders
  (`peer.go:67`), where `algorand.go:291` speaks of "the remaining half peers" and
  README.md of the repository says "and another version to the others" (line 49): a
  peer may get both versions or none. The sender is skipped in either half. There is
  no relation of the halves that the code keeps, so no property is stated.
* A message goes to the peers in the pool at that moment (`gossip`). A node that is
  added later gets nothing of what was sent before, and nothing makes up for it.

### Fairness

`BAStarSync`: every node is weakly fair. Its waits all end with a vote or a timer,
and the Go scheduler runs a goroutine that can run. The timers are bound to the
votes as the docs assume in "strong synchrony"; one slow call is the "weak
synchrony" period. More slow calls in a row can exhaust the steps ahead, and
then termination depends on the coin being common, which the code does not
guarantee. `Node`: the two loops, and a Stop that has begun, are weakly fair; the
fork loop's ticker fires every hour. Nobody is obliged to call Stop. `Sortition`: a
goroutine that can compute or send does, the channel having room for all of them.
`PeerPool` has no fairness: a node gossips a vote only if sortition selects it, and a BA
that hangs gossips nothing, so nothing is said of who hears whom in the end.

## 4. Proofs

All theorems hold for every value of the constants that satisfies the named
assumptions of the module.

`BAStarProofs`. `IInv` of `BAStar` is inductive (`Invariance`). The argument:

1. Votes for a block in the second reduction step rest on a quorum of the first
   step, votes in binaryBA on a quorum of the second one (`BlockVoteInv`,
   `HashInv`). Nobody votes twice in the second reduction step (`VoteOnce`, which
   needs `NoFutureVote`). Two quorums of it share a voter, so only one block gets
   into binaryBA: `RoundYieldsOneBlock`, `BlocksAreProposed`.
2. A vote in FINAL is cast only by a node that saw a quorum in step 1, is out of
   binaryBA, and has voted for the same hash in all later steps (`FinalVoteInv`).
   A decision needs a quorum of its step (`DecisionInv`). In step 1 it shares a
   voter with the quorum that FINAL rests on, and nobody votes twice there. In a
   later step for something else it consists of users who did not vote in FINAL:
   `FinalBindsItsVoters`. By `RoundYieldsOneBlock` that something is empty.
3. Step 1 decides only for a block that is not the empty one of the voter:
   `FinalIsNotEmpty`.
4. From these, each step gives no result or one `RoundConsensus` allows:
   `ImplementsRound`. `RoundConsensus` says that nodes part at most between one block
   and the empty one, and that FINAL is never empty; it does not promise that FINAL
   binds everybody.

None of the properties is inductive on its own: they speak of results, which come
long after the votes that exclude each other. That binaryBA uses a step twice, so
that nodes do vote twice in odd steps from 3 on, is why `VoteOnce` is limited to
two steps and why `FinalVoteInv` speaks of all the votes of a voter.

`OwnChainDecides`: a vote that `processMsg` weighs is of a user whose chain ends with
the same block, so that the quorum behind a decision is one of the own chain; this is
part of `DecisionInv`.

`SumProofs`. The models add weights up with `MapThenSumSet`, a recursive function over
the subsets of a set. That it exists, that it is unique, and that it may take the
elements in any order (`SumRemove`, `SumAdd`, `SumMono`, `SumDisjoint`) is proved
without an induction rule: among the subsets of a finite set for which a claim fails
there would be a minimal one, and the same for natural numbers. Powers, congruence
modulo m (`Same`) and the recursive function behind a fold over a sequence
(`FoldExists`) are treated in the same way.

`BAStarProofs`, second part. `SyncInv` of `BAStarSync` adds to `IInv` that what a node has read of its list are
votes that were sent by others for the step it counts, that it weighs, at most one of
each voter (`ReadInv`). So the sum over the votes read is at most the sum over the votes
sent, and a return of `countVotes` here is one that `BAStar` allows: `SyncRefines`, for
any set of slow calls, and with it `SyncIsSafe`, that the network whose termination is
checked has all the safety proved for `BAStar`. `QuorumsMeet` is independent of it.

`VoteListProofs`. `TypeOK`, which says that no vote is in a list twice, with
`ListInv`, which says what a goroutine holds and which votes are in lists
(`TypeCorrect`); `CalmIsStable` for `CalmStays`. For the counts, `CountInv` says that
`voters` and `counts` are those of the part of the list that has been read, which later
appends do not change, and that no hash has reached the threshold in it; `ReturnInv`
that every return was exact and that what it read is still there. A vote that is
counted adds its weight once, to one hash only, and the first hash to reach the
threshold is returned at once: `CountsExactly`. Two calls on one list read prefixes of
the same sequence: `RecountsTheSame`.

`NodeProofs`. `IInv` of `Node` is inductive (`Invariance`). `RoundInv` bounds the rounds
of the two loops: a tick of the fork loop takes the last block one round further at
most. `ChainInv` says that before a fork is resolved only the main loop changes the
chain, so that its round is the next one and what it decides for is linked, while the
fork loop may be behind: `ChainIsLinked`, and `SeedsAreFound`, as in the first R rounds
both loops look up the last block or the parent of one that is stored. `HangInv` says
that hangForever is open when the fork loop waits for its next tick, unless Stop has
been called: `ClosedOnce`.

`ProposalsProofs`. `IInv` of `Proposals` is inductive (`Invariance`): a handler
about to store a proposal has found it higher than the one it read (`SeenInv`),
and what is stored, read and returned is known (`KnownInv`). If the proposal it
read is still stored, the new one is higher than all handled before; if not, the
step sets `raced`: `HighestMissedOnlyByRace`, for regular proposals,
`StoredOnlyRises` and `OnlyVerifiedBlocks`.

`PeerPoolProofs`. `IInv` of `PeerPool` is inductive (`Invariance`): a node that runs is
in the pool that it was given, because only a node itself is taken out and no pool is
made twice, and the last writer of the variable holds its own pool (`PoolInv`). Hence
`LostByRace`; `PoolIsKept` needs that a test for nil comes before every write.
A stopped node may still be in a pool, but only in one that was replaced, and a pool
that comes into use is empty: `FoundRun`.

`SortitionProofs`. The recursive functions of the model (powers, factorials, `Exp`, the
folds of the coin) are shown to exist and to compute what they should. `IInv` of
`Sortition` is inductive (`Invariance`), in two layers:

1. `SumInv`. The caches of powers hold powers, whoever stored them (`PowersIn`);
   `ExpIsPower` needs that a root of y is neither 0 nor y from 2 on, so that both
   exponents that `Exp` splits y into are smaller. The running sum is at a place of its
   own and consists of the terms below the cached one it started from and of those that
   have been received (`Added`): `CachedSumsAreExact`, in whatever order the goroutines
   answer.
2. `SearchInv`. `subUsers` has its lower bound at the sum of j, and the hash reaches this
   sum or not even the first one. The sums grow, and the sum of all N terms, for which
   CDF returns 1 without adding up, is the binomial theorem (`Binomial`, from Pascal's
   triangle for quotients of factorials). So a hash that reaches the first sum is found
   in an interval before the end, and one that does not ends the loop with 0:
   `SubUsersAreExact`.

The two loops of `commonCoin` find the least of all hashes of the votes (`CoinIsMin`), so
that lists with the same votes give the same coin, whatever their lengths and orders:
`SameVotesSameCoin`, and `CoinIsOrderFree`.

`LimbsProofs`. The theorems hold for every shape of limbs in `FieldShape`: an even
number of them, at least as wide as a byte and 4 bits. `CodeHasRoom` shows that the limbs
of the code also have the room (`FieldRoom`) that the bounds need. Three arguments, over
any sequence of calls, FeToBytes' write to its argument among them:

1. Limbs stand for an integer (`Value`) that is congruent modulo p to the
   number they have to stand for (`Stands`). A carry moves bits from one limb to the next and keeps
   the integer, or around the end, where 2^FieldBits is 19 modulo p (`CarrySame`); the
   factors 2 and 19 put each product of two limbs in its place (`FactorSame`), and a
   double sum in any order is the product (`ProductSame`); the pairs of a square are that
   product (`SquareIsProduct`); the bits that `FeFromBytes` loads add up to the bytes
   (`FromBytesSame`).
2. `BoundInv`, the inductive invariant, adds that limbs are at most 1.1 times half their range for each product
   that was added up since the last carry, canonical limbs counting as two. That is not inductive call by call without
   following the carries of `FeCombine`: `Reach` says how large a limb can be after k of
   them, by whether it has been carried from, and whether what came into it afterwards
   was itself small (`ReachStep`). In the end each limb has been carried from after all
   that is large (`AllSettled`), so that what a carry around the end brings, times 19, is
   small against a limb: `LimbsAreBounded`. The estimate of a product, all limbs at
   their bounds with the factor 19, is also what `CodeDoesNotOverflow` needs.
3. The pass of carries in `Quotient` gives the quotient of the number and its first carry
   by 2^FieldBits (`QuotientBetween`). The first carry, from 19 times the last limb, is
   within 19 of 19 times the quotient by p, because the limbs below are small
   (`FirstCarry`, from `BoundInv`), so that the two quotients are equal
   (`QuotientExact`). `Canonical` leaves digits (`CanonicalValue`), of the number below p:
   `BytesAreExact`. So the digits that FeToBytes writes back stand for the number and
   have the bounds of two products (`CanonicalFits`), which closes the induction:
   `LimbsAreExact` rests on the bounds, as `FeToBytes` is right only within them.

`ChainsAreExact` follows the addition chains exponent by exponent, modulo any number.
`FieldRoom` is generous: the small shape of the run does not satisfy it, and
LimbsBounded and BytesExact hold there all the same.

Assumptions beyond the quorums: the sets of nodes and of votes are finite, the weights
are natural numbers, p is below 1, N is positive, hashes are natural numbers below
2^256; the shapes of limbs as said above.

Only model-checked: `Termination`, `StopQuits` and `SubUsersReturns`
(liveness under fairness, out of the prover's reach); `ScalarExact`, whose bounds are
those of the code's own constants, limb by limb; and the properties of `VRF`, which rest
on the algebra of a curve over a prime field, for which the prover has no theory.

## 5. What is not modelled

* The second BA for the same round that the fork loop runs: in `BAStar` a node
  runs one BA per round, in `Node` the two are independent. The votes of both go
  into the same lists. Fork proposals and block proposals of a round share one map
  in the code; a run of `Proposals` has one of the two.
* The lock of the chain. Its operations are single steps; `getByRound` takes the read
  lock and takes it again in `get` (`blockchain.go:105`, `:112`, `:95`), which can
  deadlock with a writer that waits in between.
* In `Node` the steps of blockProposal: they are those of `Proposals`, and one step here.
* The JSON encodings, vote keys and what `Block.Hash` leaves out; hashes are
  injective in the models.
* `ApproxBinomial` and `parallelTrevels`, which the program does not call, and
  `maxPriority`, of which `Proposals` keeps the order of the priorities.
* Signatures, key generation, SHA-256 and SHA-512 are those of Go's libraries; a
  signature stands for the identity of the signer.
* The entries of the tables in `const.go` as numbers: `Curve` has the multiples of
  the base point they are meant to be.
* Parsing of options, configuration, logging, metrics and hex conversion have no
  part in the protocol.

## 6. Plan

Done: `BAStar` with its abstract specification and proofs; `BAStarSync`; `VoteList`;
`Proposals`; `Blockchain` and `Node`; `PeerPool`; `Sortition`; `Field`, `Scalar` and
`Limbs`; `Curve` and `VRF`; proofs of every safety property of the models down to and
including `Limbs`, but for the scalars. What is left, in this order:

1. Proofs: that a fold and a carry of `Scalar` keep the number modulo l.
2. Two BA per node: `BAStar` with a main and a fork call per node that share the
   votes of a round, to see which of its guarantees survive fork resolution.
3. `Encoding`: vote keys, roles, `Uint2Bytes`, `Block.Hash` and what is told apart by
   them.
