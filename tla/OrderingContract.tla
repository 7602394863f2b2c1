-------------------------- MODULE OrderingContract --------------------------
(***************************************************************************)
(* The ordering contract of truffle/contracts/ConsensusContract.sol.       *)
(*                                                                         *)
(* Interactions submitted during a window of block_interval blocks form a  *)
(* round.  The accounts that take part in two interactions or more are the *)
(* orderers of the round; after the window each of them votes an order of  *)
(* its interactions, the votes are merged into one list, and the last vote *)
(* executes the list on the workflow contract.                             *)
(*                                                                         *)
(* A transaction is atomic: it commits all its writes or, when a require,  *)
(* a revert or an out-of-range index stops it, none.  So each external     *)
(* function is one action, enabled exactly when the transaction commits.   *)
(* Its loops are recursive functions of the iteration number over a record *)
(* s of the storage that they write, with s.ok FALSE once it has reverted. *)
(***************************************************************************)
EXTENDS WorkflowNew, IdList

CONSTANTS
  Parties,         \* per instance, its participants as setup() registers them
  DirectTasks,     \* tasks also called without going through this contract
  MaxSubmissions,  \* bound on the interactions submitted
  MaxBlock,        \* bound on the block number
  MaxVoteLength    \* bound on the length of a vote

ASSUME OrderingAssumption ==
  /\ Parties \in [InstanceIds -> [Roles -> Addresses]]
  /\ DirectTasks \subseteq Tasks
  /\ MaxSubmissions \in Nat
  /\ MaxBlock \in Nat
  /\ MaxVoteLength \in Nat

VARIABLES
  block,                       \* block.number
  index_block,                 \* block that opened the round, 0 for no round
  pending_interactions,        \* sequence of records
  pending_interactions_count,  \* the next id
  orderers, orderers_count,    \* a duplicate-free array, as a set, and its size
  vote_count,
  domain_count,                \* the next domain label
  pending_domains,             \* domains flagged by a conflict, as a set
  list,                        \* the merged order
  \* History: every id executed, in order, and the pairs <<a, b>> such that a
  \* vote of the round put a before b and no conflict has withdrawn a or b.
  executed, precedes

contractVars == <<index_block, pending_interactions, pending_interactions_count,
                  orderers, orderers_count, vote_count, domain_count,
                  pending_domains, list, executed, precedes>>

vars == <<block, contractVars, workflowVars>>

-----------------------------------------------------------------------------
block_interval == 2

Unlabelled == -1

Ids(pending) == {pending[i].id : i \in DOMAIN pending}

Involved(p) == {p.sender, p.receiver}

\* fetch_interaction_by_id, for an id that is pending.
IndexOf(pending, id) == CHOOSE i \in DOMAIN pending : pending[i].id = id

\* Mutant of removeInteraction: the array is left as it is.
removeNothing(pending, index) == pending

removeInteraction(pending, index) == RemoveAt(pending, index)

\* Mutant of Contending: the interaction is compared with itself.
ContendingAlone(pending) ==
  {a \in Addresses \cup {NoAddress} : \E i \in DOMAIN pending : a \in Involved(pending[i])}

\* get_orderers: the parties of two different pending interactions.
Contending(pending) ==
  {a \in Addresses \cup {NoAddress} : \E i, j \in DOMAIN pending :
     i # j /\ a \in Involved(pending[i]) /\ a \in Involved(pending[j])}

\* The storage as a transaction finds it.
Storage == [ok |-> TRUE, pending |-> pending_interactions, list |-> list,
            domains |-> domain_count, flagged |-> pending_domains,
            tasks_state |-> tasks_state, supplies |-> supplies,
            executed |-> executed]

-----------------------------------------------------------------------------
(* generate_domains: label interaction i and everything that shares a party *)
(* with it, and list it at once if nothing does.                            *)
Neighbours(pending, i) ==
  {j \in DOMAIN pending : j # i /\ Involved(pending[j]) \cap Involved(pending[i]) # {}}

\* Mutant of LabelStep: the counter is not raised for a new label.
LabelStepUncounted(s, i) ==
  LET fresh == s.pending[i].domain = Unlabelled
      label == IF fresh THEN s.domains ELSE s.pending[i].domain
      near  == Neighbours(s.pending, i)
  IN  [s EXCEPT !.pending = [j \in DOMAIN @ |->
                               IF j = i \/ j \in near THEN [@[j] EXCEPT !.domain = label]
                                                      ELSE @[j]],
                !.list    = IF near = {} THEN PushFront(@, s.pending[i].id) ELSE @]

LabelStep(s, i) ==
  LET fresh == s.pending[i].domain = Unlabelled
      label == IF fresh THEN s.domains ELSE s.pending[i].domain
      near  == Neighbours(s.pending, i)
  IN  [s EXCEPT !.pending = [j \in DOMAIN @ |->
                               IF j = i \/ j \in near THEN [@[j] EXCEPT !.domain = label]
                                                      ELSE @[j]],
                !.domains = IF fresh THEN @ + 1 ELSE @,
                !.list    = IF near = {} THEN PushFront(@, s.pending[i].id) ELSE @]

GenerateDomains(s) ==
  LET n == Len(s.pending)
      run[i \in 0..n] == IF i = 0 THEN s ELSE LabelStep(run[i-1], i)
  IN  IF s.domains = 0 THEN run[n] ELSE s

-----------------------------------------------------------------------------
(* order_interactions: merge a vote into the list.                          *)

\* Iteration j of the conflict branch, for a conflict met at position v of the
\* vote: the test and the list look at entry v, the deletion is of entry j.
DropStep(s, v, domain, j) ==
  IF ~s.ok \/ j > Len(s.pending) THEN s
  ELSE IF v > Len(s.pending) THEN [s EXCEPT !.ok = FALSE]
  ELSE IF s.pending[v].domain = domain
       THEN [s EXCEPT !.list = RemoveNode(@, s.pending[v].id),
                      !.pending = removeInteraction(@, j)]
       ELSE s

Conflict(s, v, domain) ==
  LET n == Len(s.pending)
      run[j \in 0..n] == IF j = 0 THEN s ELSE DropStep(run[j-1], v, domain, j)
  IN  [run[n] EXCEPT !.flagged = @ \cup {domain}]

\* Iteration v of the vote of an orderer.  b holds the storage b.s, the anchor,
\* the number of ids taken, and whether a conflict has broken off the loop.
VoteStep(b, orderer, vote, v) ==
  LET id == vote[v]
      p  == b.s.pending[IndexOf(b.s.pending, id)]
  IN  IF b.broken \/ ~b.s.ok THEN b
      ELSE IF id \notin Ids(b.s.pending) \/ orderer \notin Involved(p)
           THEN [b EXCEPT !.s.ok = FALSE]
      ELSE IF Listed(b.s.list, id) /\ ~is_after(b.s.list, b.anchor, id)
           THEN [b EXCEPT !.s = Conflict(@, v, p.domain), !.broken = TRUE]
      ELSE [b EXCEPT !.s.list = InsertAfter(@, b.anchor, id),
                     !.anchor = id,
                     !.taken  = v]

Vote(s, orderer, vote) ==
  LET n == Len(vote)
      run[v \in 0..n] ==
        IF v = 0 THEN [s |-> s, anchor |-> HEAD, taken |-> 0, broken |-> FALSE]
                 ELSE VoteStep(run[v-1], orderer, vote, v)
  IN  run[n]

-----------------------------------------------------------------------------
(* execute_interactions: walk the list, execute what is not in a flagged    *)
(* domain and delete it.  A call that fails is not undone nor retried.      *)

\* What an iteration does with the node it stands on.
ExecuteStep(s, id) ==
  LET i == IndexOf(s.pending, id)
      p == s.pending[i]
      w == CallTask([tasks_state |-> s.tasks_state, supplies |-> s.supplies],
                    p.task, p.instance)
  IN  IF ~s.ok \/ id \notin Ids(s.pending) THEN [s EXCEPT !.ok = FALSE]
      ELSE IF p.domain \in s.flagged THEN s
      ELSE [s EXCEPT !.tasks_state = w.tasks_state,
                     !.supplies    = w.supplies,
                     !.list        = RemoveNode(@, id),
                     !.pending     = removeInteraction(@, i),
                     !.executed    = Append(@, id)]

\* Mutant of WalkStep: the next node is read after this one is unlinked.
WalkStepLate(b) ==
  LET done == ExecuteStep(b.s, b.node)
  IN  [s |-> done, node |-> getNextNode(done.list, b.node)]

\* An iteration of the walk b, which holds the storage b.s and the node it stands
\* on: the node after it is read from the list that still has this one.
WalkStep(b) == [s |-> ExecuteStep(b.s, b.node), node |-> getNextNode(b.s.list, b.node)]

\* Mutant of Execute: the list is walked from its tail.
ExecuteBackwards(s) ==
  LET n == Len(s.list)
      run[k \in 0..n] == IF k = 0 THEN s ELSE ExecuteStep(run[k-1], s.list[n - k + 1])
  IN  run[n]

Execute(s) ==
  LET n == Len(s.list)
      run[k \in 0..n] == IF k = 0 THEN [s |-> s, node |-> getNextNode(s.list, HEAD)]
                                  ELSE WalkStep(run[k-1])
  IN  run[n].s

-----------------------------------------------------------------------------
Init ==
  /\ block = 1
  /\ index_block = 0
  /\ pending_interactions = <<>>
  /\ pending_interactions_count = 1
  /\ orderers = {} /\ orderers_count = 0
  /\ vote_count = 0
  /\ domain_count = 0
  /\ pending_domains = {}
  /\ list = <<>>
  /\ executed = <<>> /\ precedes = {}
  /\ instancesCount = MaxInstances
  /\ tasks_state = [i \in InstanceIds |-> {"purchaseOrder"}]
  /\ participants = Parties
  /\ supplies = 1

\* Commit the storage s of a transaction that leaves the round open ...
KeepRound(s) ==
  /\ pending_interactions' = s.pending
  /\ list' = s.list
  /\ domain_count' = s.domains
  /\ pending_domains' = s.flagged
  /\ vote_count' = vote_count + 1
  /\ UNCHANGED <<index_block, orderers, orderers_count, tasks_state, supplies, executed>>

\* ... or closes it: execute the list, then reset.
CloseRound(s) ==
  LET done == Execute(s)
  IN  /\ done.ok
      /\ pending_interactions' = done.pending
      /\ list' = done.list
      /\ tasks_state' = done.tasks_state
      /\ supplies' = done.supplies
      /\ executed' = done.executed
      /\ vote_count' = 0
      /\ orderers' = {} /\ orderers_count' = 0
      /\ domain_count' = 0
      /\ pending_domains' = {}
      /\ index_block' = 0

\* Mutant of WindowOpen: the window lasts a block too long.
WindowOpenTooLong(opened) == block <= opened + block_interval

WindowOpen(opened) == block < opened + block_interval

submit_interaction(sender, instance, task) ==
  LET opened == IF index_block = 0 THEN block ELSE index_block
  IN  /\ pending_interactions_count <= MaxSubmissions
      /\ WindowOpen(opened)
      /\ task \in tasks_state[instance]
      /\ index_block' = opened
      /\ pending_interactions' =
           Append(pending_interactions,
                  [instance |-> instance, sender |-> sender,
                   receiver |-> Receiver(instance, task), task |-> task,
                   id |-> pending_interactions_count, block_number |-> block,
                   domain |-> Unlabelled])
      /\ pending_interactions_count' = pending_interactions_count + 1
      /\ orderers' = orderers \cup Contending(pending_interactions')
      /\ orderers_count' = orderers_count + Cardinality(orderers' \ orderers)
      /\ precedes' = IF index_block = 0 THEN {} ELSE precedes
      /\ UNCHANGED <<block, vote_count, domain_count, pending_domains, list,
                     executed, workflowVars>>

\* Mutant of WindowClosed: a round is closed as soon as it is opened.
RoundOpened == index_block # 0

WindowClosed == index_block # 0 /\ block >= index_block + block_interval

\* Mutant of canVote: the window is not looked at.
canVoteAnyTime(voter) == voter \in orderers

canVote(voter) == WindowClosed /\ voter \in orderers

\* Mutant of permitted_interactions: whoever asks gets everything that is pending.
all_interactions(voter) == Ids(pending_interactions)

\* permitted_interactions: the ids on which the caller may vote.
permitted_interactions(voter) ==
  {p.id : p \in {q \in ToSet(pending_interactions) : voter \in Involved(q)}}

isIsolate == WindowClosed /\ orderers_count = 0

\* The pairs that the first n entries of a vote put in order.
InVoteOrder(vote, n) ==
  {x \in ToSet(vote) \X ToSet(vote) :
     \E i, j \in 1..n : i < j /\ x = <<vote[i], vote[j]>>}

\* An id that is pending outside the domains flagged so far.
Unflagged(s, id) ==
  \E i \in DOMAIN s.pending : s.pending[i].id = id /\ s.pending[i].domain \notin s.flagged

order_interactions(orderer, vote) ==
  LET b == Vote(GenerateDomains(Storage), orderer, vote)
  IN  /\ canVote(orderer)
      /\ b.s.ok
      /\ IF vote_count + 1 = orderers_count THEN CloseRound(b.s) ELSE KeepRound(b.s)
      /\ precedes' = {x \in precedes \cup InVoteOrder(vote, b.taken) :
                        Unflagged(b.s, x[1]) /\ Unflagged(b.s, x[2])}
      /\ UNCHANGED <<block, pending_interactions_count, instancesCount, participants>>

release ==
  /\ isIsolate
  /\ CloseRound(GenerateDomains(Storage))
  /\ UNCHANGED <<block, pending_interactions_count, precedes, instancesCount, participants>>

\* The rest of the chain: a new block, and transactions on the workflow itself.
NextBlock ==
  /\ block < MaxBlock
  /\ block' = block + 1
  /\ UNCHANGED <<contractVars, workflowVars>>

WorkflowCall ==
  /\ \/ \E task \in DirectTasks, inst \in InstanceIds : performTask(task, inst)
     \/ \E n \in SupplyValues : resetSupplies(n)
  /\ UNCHANGED <<block, contractVars>>

\* The votes tried: all sequences of submitted ids, repetitions included.
Votes == UNION {[1..n -> 1..(pending_interactions_count - 1)] : n \in 0..MaxVoteLength}

Next ==
  \/ \E sender \in Addresses, instance \in InstanceIds, task \in Tasks :
       submit_interaction(sender, instance, task)
  \/ \E orderer \in Addresses, vote \in Votes : order_interactions(orderer, vote)
  \/ release
  \/ NextBlock
  \/ WorkflowCall

Spec == Init /\ [][Next]_vars

-----------------------------------------------------------------------------
Interactions ==
  [instance : InstanceIds, sender : Addresses, receiver : Addresses \cup {NoAddress},
   task : Tasks, id : Nat \ {0}, block_number : Nat, domain : Int]

TypeOK ==
  /\ block \in Nat \ {0}
  /\ index_block \in 0..block
  /\ pending_interactions \in Seq(Interactions)
  /\ pending_interactions_count \in Nat \ {0}
  /\ orderers \subseteq Addresses \cup {NoAddress}
  /\ orderers_count = Cardinality(orderers)
  /\ vote_count \in Nat
  /\ domain_count \in Nat
  /\ pending_domains \subseteq Int
  /\ list \in Seq(Nat \ {0})
  /\ executed \in Seq(Nat \ {0})
  /\ precedes \subseteq (Nat \ {0}) \X (Nat \ {0})
  /\ WorkflowTypeOK

\* A round never steps over its last vote: votes are cast only once the window
\* is closed and the orderers fixed, and fewer than there are orderers, so that
\* the equality vote_count == orderers_count that executes the list
\* (ConsensusContract.sol:159) is still ahead; with no orderer there is no vote,
\* and release is what closes the round.
LastVoteAhead ==
  /\ vote_count > 0 => WindowClosed
  /\ orderers_count > 0 => vote_count < orderers_count
  /\ orderers_count = 0 => vote_count = 0

\* Every id in the list is pending unless a conflict was flagged in the round:
\* execute_interactions, which looks each of them up and reverts on one that is
\* gone (ConsensusContract.sol:174), cannot block the last vote or a release of
\* a round without conflict.
ListedArePending ==
  pending_domains = {} => ToSet(list) \subseteq Ids(pending_interactions)

\* The walk that closes a round stands on a node that it is about to unlink and
\* finds the next one all the same: in a round without conflict it reverts nowhere,
\* executes everything listed in the order of the list and leaves an empty list,
\* for any order that the votes made (ConsensusContract.sol:172-190).
WholeListIsExecuted ==
  WindowClosed /\ pending_domains = {} =>
    LET s    == GenerateDomains(Storage)
        done == Execute(s)
    IN  done.ok /\ done.list = <<>> /\ done.executed = executed \o s.list

\* Merging keeps every vote: the list agrees with each vote accepted in the
\* round on each pair that the vote ordered and no conflict withdrew, although
\* later votes insert between (ConsensusContract.sol:132-157).
ListFollowsVotes ==
  \A x \in precedes :
    Listed(list, x[1]) /\ Listed(list, x[2]) => Pos(list, x[1]) < Pos(list, x[2])

\* An interaction that shares no party with another needs no vote: it is in the
\* list as soon as a vote is cast (ConsensusContract.sol:92).
IsolatedAreListed ==
  vote_count > 0 /\ pending_domains = {} =>
    \A i \in DOMAIN pending_interactions :
      Neighbours(pending_interactions, i) = {} => Listed(list, pending_interactions[i].id)

\* What the contract says of a conflict (ConsensusContract.sol:138): it removes
\* the conflicting interactions and flags their domain.  It does not: no
\* interaction of a flagged domain should be left pending, and some are.
ConflictWithdrawsDomain ==
  \A i \in DOMAIN pending_interactions : pending_interactions[i].domain \notin pending_domains

\* A label never joins interactions that have nothing to do with one another,
\* whatever labels overwrite others on the way: groups that share no party get
\* different ones, so that a conflict withholds no group but its own.  Labels
\* kept from an earlier round are excepted: the count starts again from zero
\* and may give them out anew (ConsensusContract.sol:60-96, 198).
SeparateGroupsSeparateDomains ==
  WindowClosed /\ (\A p \in ToSet(pending_interactions) : p.domain = Unlabelled) =>
    LET labelled == GenerateDomains(Storage).pending
    IN  \A group \in SUBSET DOMAIN labelled :
          (\A i \in group : Neighbours(labelled, i) \subseteq group)
            => \A i \in group, j \in DOMAIN labelled \ group :
                 labelled[i].domain # labelled[j].domain

\* The ids that a step executes, in order.
Batch == SubSeq(executed', Len(executed) + 1, Len(executed'))

\* What is executed is executed in the order of the votes, the vote that closes
\* the round included (ConsensusContract.sol:173-191).
BatchFollowsVotes ==
  [][\A i, j \in DOMAIN Batch : <<Batch[i], Batch[j]>> \in precedes' => i < j]_vars

\* Nothing is executed in the block that submits it: the interactions of a block
\* cannot be ordered by who builds that block (ConsensusContract.sol:48, 122, 214).
ExecutedInALaterBlock ==
  [][\A i \in DOMAIN pending_interactions :
       pending_interactions[i].id \in ToSet(Batch)
         => block > pending_interactions[i].block_number]_vars

\* The vote is on a closed set: from the first vote of a round to the step that
\* closes it nothing is submitted and nobody becomes or stops being an orderer.
VotesOnAClosedSet ==
  [][vote_count > 0 => /\ pending_interactions_count' = pending_interactions_count
                       /\ \/ orderers' = orderers
                          \/ vote_count' = 0 /\ orderers' = {}]_vars

\* Refinement: numbered, executed at most once, never again once withdrawn.
Ledger == INSTANCE InteractionLedger
            WITH issued  <- pending_interactions_count - 1,
                 waiting <- Ids(pending_interactions),
                 ledger  <- executed

ImplementsLedger == Ledger!Spec
=============================================================================
