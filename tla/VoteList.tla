------------------------------ MODULE VoteList ------------------------------
(***************************************************************************)
(* How a peer collects the votes of one step of one round and how          *)
(* countVotes reads them (peer.go: handle for VOTE, voteIterator, List,    *)
(* Iterator; algorand.go: countVotes).                                     *)
(*                                                                         *)
(* Each vote is handled by a goroutine of its own.  It looks the list of   *)
(* the step up, makes one if there is none, appends the vote, and stores   *)
(* the list in the map: three critical sections, of two locks.             *)
(* voteIterator looks the list up and stores a new one in two.  So two     *)
(* goroutines may both find no list, and the list stored last stays; the   *)
(* votes in the other one are seen only by an iterator that holds it.      *)
(*                                                                         *)
(* Lists are pointers in the code.  Here a list is named by the goroutine  *)
(* that made it: a vote for its handler, a number for a countVotes call.   *)
(***************************************************************************)
EXTENDS Integers, Sequences, FiniteSets, FiniteSetsExt

CONSTANTS
  Votes,     \* the vote messages of this step
  Voter,     \* Voter[v]: who signed vote v
  HashOf,    \* HashOf[v]: the hash v is for
  Weight,    \* Weight[u]: the sub-users processMsg finds in a vote of user u
  Threshold, \* uint64(float64(expectedNum) * threshold)
  MaxCalls,  \* bound on the countVotes calls for this step
  NoList,    \* no entry in incomingVotes
  Timeout    \* errCountVotesTimeout

Users == {Voter[v] : v \in Votes}
Hashes == {HashOf[v] : v \in Votes}
Calls == 1 .. MaxCalls
Lists == Votes \cup Calls

ASSUME VoteListAssumption ==
  /\ IsFiniteSet(Votes)
  /\ Weight \in [Users -> Nat]
  /\ Threshold \in Nat \ {0}
  /\ MaxCalls \in Nat \ {0}
  /\ Votes \cap Calls = {}
  /\ NoList \notin Lists
  /\ Timeout \notin Hashes

VARIABLES
  incomingVotes, \* the list the map holds for this step
  content,       \* content[l]: the votes in list l
  hpc,           \* hpc[v]: where the handler of vote v is
  hlist,         \* hlist[v]: its local list
  cpc,           \* where countVotes is
  clist,         \* the list of its iterator
  index,         \* the index of its iterator
  voters,        \* the users whose votes it has counted
  counts,        \* counts[h]: the votes it has counted for h
  returns        \* the list, the votes read and the outcome of each call

handlerVars == <<hpc, hlist>>
counterVars == <<cpc, clist, index, voters, counts, returns>>
vars == <<incomingVotes, content, handlerVars, counterVars>>

-----------------------------------------------------------------------------
(* peer.handle, one goroutine per vote.                                    *)

(* Mutant: the handler makes a list of its own without looking one up. *)
MutHandleLookup(v) ==
  /\ hpc[v] = "gossiped"
  /\ hlist' = [hlist EXCEPT ![v] = v]
  /\ hpc' = [hpc EXCEPT ![v] = "add"]
  /\ UNCHANGED <<incomingVotes, content, counterVars>>

(* Under vmu.RLock: look the list up, or make one. *)
handleLookup(v) ==
  /\ hpc[v] = "gossiped"
  /\ hlist' = [hlist EXCEPT ![v] = IF incomingVotes = NoList THEN v ELSE incomingVotes]
  /\ hpc' = [hpc EXCEPT ![v] = "add"]
  /\ UNCHANGED <<incomingVotes, content, counterVars>>

(* Under the lock of the list: append the vote. *)
handleAdd(v) ==
  /\ hpc[v] = "add"
  /\ content' = [content EXCEPT ![hlist[v]] = Append(@, v)]
  /\ hpc' = [hpc EXCEPT ![v] = "store"]
  /\ UNCHANGED <<incomingVotes, hlist, counterVars>>

(* Mutant: the vote is appended again when the list is stored. *)
MutHandleStore(v) ==
  /\ hpc[v] = "store"
  /\ incomingVotes' = hlist[v]
  /\ content' = [content EXCEPT ![hlist[v]] = Append(@, v)]
  /\ hpc' = [hpc EXCEPT ![v] = "done"]
  /\ UNCHANGED <<hlist, counterVars>>

(* Under vmu.Lock: store the list. *)
handleStore(v) ==
  /\ hpc[v] = "store"
  /\ incomingVotes' = hlist[v]
  /\ hpc' = [hpc EXCEPT ![v] = "done"]
  /\ UNCHANGED <<content, hlist, counterVars>>

-----------------------------------------------------------------------------
(* countVotes, called up to MaxCalls times for the step by one goroutine.  *)

call == Len(returns) + 1

(* Mutant: the iterator goes on where the one of the last call stopped. *)
MutBeginCount(l) ==
  /\ clist' = l
  /\ index' = index
  /\ voters' = {}
  /\ counts' = [h \in Hashes |-> 0]

(* A countVotes call begins on list l. *)
BeginCount(l) ==
  /\ clist' = l
  /\ index' = 1
  /\ voters' = {}
  /\ counts' = [h \in Hashes |-> 0]

(* voteIterator, under vmu.RLock: look the list up, or make one. *)
iteratorLookup ==
  /\ cpc = "idle"
  /\ call <= MaxCalls
  /\ \/ /\ incomingVotes # NoList
        /\ BeginCount(incomingVotes)
        /\ cpc' = "loop"
     \/ /\ incomingVotes = NoList
        /\ BeginCount(call)
        /\ cpc' = "store"
  /\ UNCHANGED <<incomingVotes, content, handlerVars, returns>>

(* voteIterator, under vmu.Lock: store the new list. *)
iteratorStore ==
  /\ cpc = "store"
  /\ incomingVotes' = clist
  /\ cpc' = "loop"
  /\ UNCHANGED <<content, handlerVars, clist, index, voters, counts, returns>>

Return(outcome) ==
  /\ cpc' = "idle"
  /\ returns' = Append(returns, [list |-> clist, read |-> index' - 1, outcome |-> outcome])

(* Mutant: a vote is counted although its voter has been counted. *)
MutCountable(v) == Weight[Voter[v]] # 0

(* A vote counts if it has sub-users and its voter has not been counted. *)
Countable(v) == Voter[v] \notin voters /\ Weight[Voter[v]] # 0

(* The iterator is not at the end of its list: it.next returns a vote. *)
hasNext == index <= Len(content[clist])

(* it.next returns a vote: count it, and return its hash if that is enough. *)
countVote ==
  /\ cpc = "loop"
  /\ hasNext
  /\ index' = index + 1
  /\ LET v == content[clist][index]
         h == HashOf[v]
     IN  \/ /\ ~Countable(v)
            /\ UNCHANGED <<cpc, voters, counts, returns>>
         \/ /\ Countable(v)
            /\ voters' = voters \cup {Voter[v]}
            /\ counts' = [counts EXCEPT ![h] = @ + Weight[Voter[v]]]
            /\ IF counts'[h] >= Threshold THEN Return(h) ELSE UNCHANGED <<cpc, returns>>
  /\ UNCHANGED <<incomingVotes, content, handlerVars, clist>>

(* it.next returns nil and the timer has expired.  A vote that is added
   between the two is not read, like one that is added afterwards.         *)
countTimeout ==
  /\ cpc = "loop"
  /\ ~hasNext
  /\ UNCHANGED <<incomingVotes, content, handlerVars, clist, index, voters, counts>>
  /\ Return(Timeout)

-----------------------------------------------------------------------------
Init ==
  /\ incomingVotes = NoList
  /\ content = [l \in Lists |-> <<>>]
  /\ hpc = [v \in Votes |-> "gossiped"]
  /\ hlist = [v \in Votes |-> NoList]
  /\ cpc = "idle"
  /\ clist = NoList
  /\ index = 1
  /\ voters = {}
  /\ counts = [h \in Hashes |-> 0]
  /\ returns = <<>>

handle(v) == handleLookup(v) \/ handleAdd(v) \/ handleStore(v)
countVotes == iteratorLookup \/ iteratorStore \/ countVote \/ countTimeout

Next == (\E v \in Votes : handle(v)) \/ countVotes

Spec == Init /\ [][Next]_vars

-----------------------------------------------------------------------------
(* Every variable stays in its type, and no vote is in a list twice. *)
TypeOK ==
  /\ incomingVotes \in Lists \cup {NoList}
  /\ content \in [Lists -> Seq(Votes)]
  /\ hpc \in [Votes -> {"gossiped", "add", "store", "done"}]
  /\ hlist \in [Votes -> Lists \cup {NoList}]
  /\ cpc \in {"idle", "store", "loop"}
  /\ clist \in Lists \cup {NoList}
  /\ index \in Nat \ {0}
  /\ voters \subseteq Users
  /\ counts \in [Hashes -> Nat]
  /\ returns \in Seq([list : Lists, read : Nat, outcome : Hashes \cup {Timeout}])
  /\ \A l \in Lists : \A i, j \in 1 .. Len(content[l]) :
       content[l][i] = content[l][j] => i = j

(* The users with sub-users whose first vote in s is for h. *)
FirstVoters(s, h) ==
  {u \in Users : /\ Weight[u] # 0
                 /\ \E i \in 1 .. Len(s) :
                      /\ Voter[s[i]] = u /\ HashOf[s[i]] = h
                      /\ \A j \in 1 .. i - 1 : Voter[s[j]] # u}

SubUsers(S) == MapThenSumSet(LAMBDA u : Weight[u], S)

ReachedIn(s, h) == SubUsers(FirstVoters(s, h)) >= Threshold

(* The return e is the one that the votes it read call for, and no fewer. *)
ExactReturn(e) ==
  LET l == content[e.list]
  IN  \A h \in Hashes :
        /\ ReachedIn(SubSeq(l, 1, e.read), h) <=> h = e.outcome
        /\ ~ReachedIn(SubSeq(l, 1, e.read - 1), h)

(* What BAStar assumes of countVotes, whatever list each handler and each call
   got hold of: a hash is returned if and only if different users whose first
   votes read are for it hold Threshold sub-users, and no vote is read after
   that.  A user that votes twice in the step, as happens in the step that
   binaryBA counts twice, is counted once.                                 *)
CountExact == \A i \in 1 .. Len(returns) : ExactReturn(returns[i])

(* A step that is counted again on the same list gives the same hash: lists
   only grow at the end, and the first vote of a user is the one that counts
   in every call.                                                          *)
RecountSame ==
  \A i, j \in 1 .. Len(returns) :
    /\ i < j
    /\ returns[i].list = returns[j].list
    /\ returns[i].outcome # Timeout
    => returns[j].outcome = returns[i].outcome

(* All goroutines at work hold the list that is in the map. *)
Calm ==
  /\ incomingVotes # NoList
  /\ \A v \in Votes : hpc[v] \in {"add", "store"} => hlist[v] = incomingVotes
  /\ cpc \in {"store", "loop"} => clist = incomingVotes

(* Votes get lost only when lists are made: once every goroutine at work
   holds the list in the map, that list stays and every later vote is put
   in it.                                                                  *)
CalmStays == [][Calm => Calm' /\ incomingVotes' = incomingVotes]_vars

(* The iterator of countVotes is the one of the incoming messages: when all
   the votes have been handled, the call that waits for them finds them.   *)
IteratorOnQueue ==
  cpc = "loop" /\ (\A v \in Votes : hpc[v] = "done")
    => \A v \in Votes : \E i \in 1 .. Len(content[clist]) : content[clist][i] = v

-----------------------------------------------------------------------------
(* The inductive invariant behind TypeOK: where a goroutine is tells which
   list it holds, and whether its vote is in a list.                       *)
ListInv ==
  /\ \A v \in Votes : hpc[v] \in {"add", "store"} => hlist[v] \in Lists
  /\ cpc \in {"store", "loop"} => clist \in Lists
  /\ \A l \in Lists : \A i \in 1 .. Len(content[l]) :
       hpc[content[l][i]] \in {"store", "done"}

(* What the call at work has counted are the users of the votes it has read,
   each with the first of its votes, and it is not enough for any hash.    *)
CountInv ==
  cpc \in {"store", "loop"} =>
    LET read == SubSeq(content[clist], 1, index - 1)
    IN  /\ index - 1 <= Len(content[clist])
        /\ voters = {u \in Users : Weight[u] # 0 /\ \E i \in 1 .. Len(read) : Voter[read[i]] = u}
        /\ \A h \in Hashes : counts[h] = SubUsers(FirstVoters(read, h)) /\ ~ReachedIn(read, h)

(* The votes a call has read are still the first ones of its list, and a call
   that timed out has read all that earlier calls read from the list.      *)
ReturnInv ==
  /\ CountExact
  /\ \A i \in 1 .. Len(returns) : returns[i].read <= Len(content[returns[i].list])
  /\ \A i, j \in 1 .. Len(returns) :
       i < j /\ returns[i].list = returns[j].list /\ returns[j].outcome = Timeout
         => returns[i].read <= returns[j].read

IInv == TypeOK /\ ListInv /\ CountInv /\ ReturnInv

=============================================================================
