# A TLA+ model of Transparent Transaction Ordering

The repository runs a *choreography* - a customer, a store and a logistic provider
taking turns - on a permissioned chain, and asks who decides the order in which
conflicting steps take effect. In the plain set-up it is the validator that builds
the block; two forks of GoQuorum let a validator displace or suppress
transactions. In the other set-up the participants send their steps to an
*ordering contract*, which collects them for two blocks, lets the participants
concerned vote on their order, and executes them itself.

This directory holds TLA+ modules of that system, the TLC configurations that
check them, and proofs checked by TLAPS. `PROJECT.json` maps every definition to
the lines it models; the paths below are relative to the repository, and `core`
stands for `quorum/consensus/istanbul/qbft/core`.

## 1. Inventory

| Component | Source | State it keeps | Operations | Status |
|---|---|---|---|---|
| Ordering contract | `truffle/contracts/ConsensusContract.sol` | round (`index_block`), pending interactions, orderers, vote count, domain labels, flagged domains, merged list | `submit_interaction`, `order_interactions`, `release` (and `execute_interactions` inside them) | partly: all but the address set at deployment |
| Linked list library | `truffle/contracts/StructuredLinkedList.sol` | size, two links per node | insert, push, remove, pop | modelled |
| Delivery workflow | `truffle/contracts/WorkflowNew.sol` | per instance: open tasks, participants; shared supplies | six task functions, `newInstance`, `resetSupplies`, `resetState` | modelled |
| Ordering client | `src/interact_ordering_proces.js` | per instance: counters, `complete`; one polling timer | submit, poll, vote, release, react to events | partly: no overlapping polls, no nonces, no statistics |
| Plain client | `src/interact_plain_process.js` | the same, and nonces | calls the workflow directly | partly: no statistics |
| QBFT core | `core` | view, state, prepared certificate, round-change set, backlogs, timers | one handler per message, timeout, request, final commit | partly: no stop and start of a running engine |
| QBFT engine, backend, validator sets | `quorum/consensus/istanbul/{qbft/engine,backend,validator}` | chain head, validator snapshot, proposer | verify, seal, commit, broadcast | partly: as the surroundings of the core |
| Block building, three variants | `{quorum,quorumal,quorumal_del}/miner/worker.go` | the block under construction | select and commit pool transactions: honest, displacing, suppressing | partly: selection and order |
| Transaction pool | `quorum/core/tx_pool.go` | pending and queued transactions | add, promote, drop | partly: arrival order and nonces |
| Network scripts | `start-network.sh`, `start-validator.sh` | - | start five validators | partly: who runs a fork, with which targets |
| Earlier workflows | `Workflow.sol`, `WorkflowOld.sol` | the same choreography in other encodings | the same tasks | not modelled |
| Event log generator, data set, the rest of three GoQuorum trees | various | - | - | not modelled |

Nearly all lines of the repository are three vendored copies of GoQuorum. What is
the repository's own, or decides its subject, is the contracts, the two scripts,
the changed part of the worker, and the consensus that makes validators agree on a
block; the modules cover these, and so a very small share of all lines.

### How they interact

* A participant's account sends a transaction to the ordering contract
  (`submit_interaction`, `order_interactions`, `release`) or, in the plain set-up,
  to the workflow. Transactions are atomic and are executed one after the other;
  the interleaving that matters is that of transactions of different accounts and
  of blocks.
* The ordering contract reads the workflow when an interaction is submitted
  (`getParticipantsByTask`, which fails for a task that is not open) and calls it
  when a round is executed (`execute`, a low-level call whose failure is ignored).
  In between the workflow may change.
* It keeps the merged order in the linked list library. Interactions are in two
  places at once, the array `pending_interactions` and the list of ids.
* The clients react to events of the workflow: a task that is enabled is the cue
  for the next submission. The ordering client polls the contract every five
  seconds and votes in the name of the store.
* The transactions of a block are selected and ordered by the validator that
  proposes it, and QBFT makes the validators agree on the block. The backend
  inserts it from another goroutine than the core's event loop and posts an event.

### What is hard

* **Order.** Votes over overlapping sets of interactions are merged by insertion
  after an anchor; a later vote must not disturb an earlier one; the list is
  executed while it is being unlinked.
* **Boundaries.** The window and the closing vote are decided by comparisons of
  block numbers and by an equality of two counters; a validator joins a round when
  a count *equals* F+1; priorities of a queue are rounded to a `float32`.
* **Two copies of one thing.** List and array, labels and flagged domains, and
  `orderers_count` and `orderers` must stay in step over steps that write one and
  then the other - and survive a round.
* **Stale facts.** A task that was open when submitted may be closed when it is
  executed; labels outlive the round that gave them; the client votes on what it
  read some calls ago; a ROUND-CHANGE of one height is counted at the next.
* **Conflicts.** The branch for contradicting votes edits both copies with
  different indices.
* **Consensus.** Views, timeouts, lost and delayed messages, restarts that forget
  a prepared block, proposals made by timers.
* **Something must happen.** A script that waits for every instance, although
  submissions are refused, suppressed or come late.

`PROJECT.json` lists each hazard at its line with the properties that cover it.

### What makes each component correct

* Ordering contract: what is executed respects every vote that was accepted and
  not withdrawn by a conflict; nothing is executed twice, or in the block that
  submitted it; votes are about a fixed set; a round does not miss its last vote.
* Linked list: one circle of links, and the behaviour of a sequence.
* Workflow: each instance in one stage of the choreography, once it is created and
  as long as nothing resets it before that; no order without a unit of supply.
* Clients: votes are taken, and every round of the process comes to its end.
* QBFT: two validators never commit different blocks of one height, whatever is
  lost, late or forgotten; a message that comes early is not lost.
* Block building: only a validator that runs a fork lets a later transaction win.

## 2. Modules

| Module | What it is |
|---|---|
| `WorkflowNew` | `WorkflowNew.sol`; `CallTask` is the effect of a task function, used by direct calls and by the ordering contract alike |
| `IdList` | the linked list as a sequence of ids, as operators |
| `IdSequence` | the same as a specification with results of calls: what the library promises |
| `StructuredLinkedList` | the library pointer by pointer; `ImplementsSequence` is the refinement of `IdSequence` |
| `InteractionLedger` | what the ordering contract promises to a submitter |
| `OrderingContract` | `ConsensusContract.sol` composed with `WorkflowNew` and `IdList`; `ImplementsLedger` is the refinement of `InteractionLedger` |
| `ProcessClient` | what the two scripts share: events, listeners, submissions, the end of a round of the process and the reset |
| `OrderingSystem` | `ProcessClient` with polling and voting, composed with `OrderingContract` and the chain |
| `BlockBuilding` | which pool transactions a block takes, in which order, in the three versions of `worker.go` |
| `PlainSystem` | `ProcessClient` composed with `WorkflowNew`, the pool and five validators that build blocks in turn |
| `FinalLedger` | what a validator promises: one final block per height, and chains that grow by final blocks |
| `Qbft` | the QBFT core of N validators with the network and the chains; `ImplementsFinalLedger` is the refinement of `FinalLedger` |
| `Backlog` | the queue in which a validator keeps messages that come too early |
| `MC*` | instances for TLC |
| `IdListProofs` | lemmas about sequences of ids and about loops, for the modules below |
| `StructuredLinkedListProofs`, `InteractionLedgerProofs`, `QbftProofs`, `BacklogProofs` | theorems about the module of that name |
| `OrderingContractProofs` | theorems about `WorkflowNew`, and about `OrderingContract`: types, accounts and the ledger |
| `OrderingMergeProofs` | theorems about the merged list and the labels of `OrderingContract` |
| `OrderingSystemProofs` | theorems about `OrderingSystem`, and that it is an `OrderingContract` |

### Contracts

**Transactions are actions.** Each external function is one action; its guard is
the conjunction of the conditions under which the transaction commits. A
transaction that reverts changes nothing and is not a step.

**Loops are recursive functions of the iteration number** over a record of the
storage the loop writes (`ok`, `pending`, `list`, `domains`, `flagged`,
`tasks_state`, `supplies`, `executed`): `LabelStep` for `generate_domains`,
`VoteStep` for a vote, `DropStep` for the conflict branch, `WalkStep` for the
execution, which holds the node it stands on beside the storage and reads the next
one from the list that `ExecuteStep` is about to unlink it from. Each is written
iteration by iteration because what the code does there depends on deletions made
by earlier iterations. `ok` becomes `FALSE` where the code reverts: an id that is
not pending, a voter that is not involved, an index past the end of the array.

**Data.** An interaction keeps all its fields but `removed`, which is never set
(the two assignments, lines 142 and 183, are commented out). `orderers` is a set,
since `is_oderer` is asked before each push; `pending_domains` is a set, since it
is only searched. Task and role names are strings as in the code. `block_number`
is kept although the code never reads it, because a property is about it.

**History variables.** `executed` is every id executed, in order. `precedes` holds
the pairs that a vote of the round has put in order and that no conflict has
withdrawn; it is what the votes asked for, computed from the votes and not from
the list.

**Environment.** `NextBlock` advances the chain. `WorkflowCall` lets accounts call
tasks of the workflow directly (those in `DirectTasks`) and restock. In
`OrderingContract` the instances exist from the start, as `setup()` in the client
creates them before anything else; it has no `resetState`. In `WorkflowNew` on its
own everything may be called at any time, and `resetState` on any instance number,
as the function checks nothing. Any account may submit any open task, as in the
code: `submit_interaction` looks up the sender's role and ignores it.

### Clients

`ProcessClient` has the listeners of one event loop: `taskEnabled` and
`taskExecuted` events wait in a queue each, and handling one sends the next
transactions of the accounts concerned (`outbox`). A choice - confirm or cancel,
deliver or not - makes the script send *both* sides; the blockchain decides.

In `OrderingSystem`, `checkVote` is a chain of separate calls: `AskCanVote`,
`AskPermitted`, `SendVote` or `AskIsolate`, `Rearm`; transactions of other
accounts are mined between any two of them. The `get_interaction` calls that the
script awaits one by one for the permitted ids are one step with the vote
(`SendVote`): nothing is submitted in that phase, so all of them answer from the
same pending interactions. The vote is sorted by the script's own counters. `Mine`
takes the next transaction of *any* account, so what is shown holds for every
order a block builder may choose. `failed` counts refused submissions whose
`catch` has not run (`HandleFailure` marks the instance complete).

`late` counts the blocks built while something was still on its way - an unhandled
event, an unmined transaction, an unhandled failure - and is the measure of
lateness: `MaxLate` bounds it, and two properties are stated for `late = 0`.
`OnlyTheStoreOrders` and `CompleteMeansReset` fail otherwise. A late
`confirmShipping` makes a provider an orderer, for whom the script does not vote;
the round closes all the same, because the store votes again and votes, not
voters, are counted. A submission that comes after the window is refused, and the
script takes the instance for complete in the middle of the process.

Ties in the script's counters are broken by id, the order in which the
interactions were mined: there the block builder still has a say.

In `PlainSystem`, `Submit` is `signTx` with its nonce and the pool's answer;
`Block` is the proposal of the validator whose turn it is, all that
`commitNewWork` selects or less when a signal, the gas limit or the empty block
sealed in advance cuts it short; `SkipProposer` is a round change. Nodes 0 and 4
run the fork chosen by `mode`, with the targets that `start-network.sh` gives
them; the rotation of proposers follows the addresses and is chosen at the start.
Which side a choice fell on, who proposed the block and whose rival transaction
was waiting longer is kept in `decided`.

### Consensus

`Qbft` has one action per handler of the event loop (`HandleRequest`,
`HandlePreprepare`, `HandlePrepare`, `HandleCommit`, `HandleRoundChange`,
`HandleTimeout`, `HandleFinalCommitted`), the callback of `newRoundTimer`, which
runs outside of it, the insertion of a block by the backend, and the restart of a
process. A message once sent stays in one of four sets and may be handled at any
later time, again, or never: loss, delay, duplication and reordering. A hash
stands for its block. PREPAREs and COMMITs are counted when the quorum is
complete; ROUND-CHANGEs are kept one by one, since the code acts on partial
counts.

Proposals by `NewRoundTimer` carry whatever view is current when the callback
fires. A proposal it makes in a later round is not justified, the others refuse
it, and the round is lost; a decision never is.

`Building`, `Impatient`, `Restarting`, `MaxSequence`, `MaxRound` and `MaxRestarts`
say who does what in an instance. `IsRead` leaves out ROUND-CHANGEs that the code
stores and never reads.

`Prompt` says that a validator handles the `FinalCommittedEvent` before any other
event once its chain has grown. The code does not enforce it: see `qbft_late`
below.

`Backlog` is the queue of one sender at one validator: `checkMessage`,
`addToBacklog`, `processBacklog` with the heap, its `float32` priority and the
re-posting of messages. All other events are `OtherEvent`: the validator moves to
a later state, to a later round of the height, or to the first round of any later
height, as `startNewRound` does when it catches up with the chain. Ties of the
heap are a nondeterministic choice, each message is sent once, heights are at most
2 147 482 and rounds at most 99, beyond which priorities of rounds and heights mix
(the FIXME in `toPriority`).

## 3. Model checking

| Run | Instance | States | What it shows |
|---|---|---|---|
| `workflow` | 2 accounts, 2 instances, supplies set to 0, 1 or 2 | 45 468 | an instance is in one stage unless it is created after a reset, and never in more than two; every accepted order takes a unit |
| `linked_list` | nodes 0 to 5, all calls with all arguments | 912 | links stay one circle of `size` nodes; refines `IdSequence` with its results |
| `ordering` | 3 accounts, 2 instances, 3 interactions, 5 blocks, votes of length up to 3, tasks after the purchase also called directly | 200 339 | the properties of the ordering contract, and the refinement of the ledger |
| `conflict` | as `ordering`, 4 blocks | | violated: a conflict leaves interactions of the flagged domain pending |
| `system` | the script's 5 accounts, 2 instances, 3 rounds of the process, 3 late blocks | 328 252 | votes are taken, nothing is left behind, every round completes |
| `plain` | the same accounts, 5 validators, 5 rotations, 3 modes, 2 rounds, 1 late block | 381 610 | nothing fails unhandled; only forks let a later side win; every round completes |
| `qbft_round` | 3 validators, 2 rounds; the first proposer seals two blocks, one timer runs out | 863 000 | agreement and the lemmas behind it, in one height |
| `qbft_heights` | 2 validators, 2 heights, timeouts, one restart | 1 930 000 | the chains implement `FinalLedger` |
| `qbft_panic` | 3 validators | | violated: a proposer without a block |
| `qbft_catch_up` | 4 validators, 3 rounds | | violated: a validator stays behind F+1 others |
| `qbft_late` | 3 validators, not prompt | | violated: agreement |
| `backlog` | 10 messages over three heights on either side of 2^24 | 429 056 | no message is lost before its time |

### Bounds

`MaxSubmissions`, `MaxBlock`, `MaxVoteLength`, `MaxRounds`, `MaxLate`,
`MaxSequence`, `MaxRound` and the like cap counters; the actions carry them as
guards, and so most runs end in states without a successor: their configurations
say `CHECK_DEADLOCK FALSE`. The runs `workflow` and `linked_list` do not need it,
and there TLC checks that no state is stuck.

*Ordering.* Three interactions are the smallest number with an interaction
*between* two others in the list, with two orderers that share only one
interaction, and with one isolated interaction beside a contended pair. With two
instances whose customer and store are exchanged, rounds have no orderer, one, two
or three. Five blocks are two rounds: the second starts with what the first left
behind. Votes of length three include repetitions, omissions and reversals, so
every branch of the vote loop is taken, the conflict branch with its index past
the end included. Five list nodes are enough for an insertion and a removal at
each end, in the middle and of the only node.

*Clients.* `MaxVoteLength` is as large as `MaxSubmissions`, so the votes of the
script are never too long for the contract's bound. Two instances race for one
unit of supply and share the store's votes. Three rounds of the process are two
resets; three late blocks are a window that closes on a transaction and one more.
In `plain` the five rotations are the places that node 4 can take relative to node
0, as far as the order of their blocks matters; with one late block a transaction
may miss the first block that could take it, and a proposer its turn. With a block
period of a second late blocks are not rare: what this run shows is about
behaviours in which the script mostly keeps up with the chain, and section 4 says
what fails beyond. Overtaking is reached in both forks. Two transactions of one
account wait at once, never three, which is what `NoncesAreFree` rests on.

*QBFT.* `qbft_round` has F = 0 and quorums of two out of three: the smallest
instance in which two quorums differ. `qbft_heights` adds chains, the event of the
new head and a restart. A restart in an instance with F = 0 may break agreement,
as TLC confirms with three validators, since the two quorums then share only the
validator that forgot; with two validators the quorum is both. Four validators
with a restart are too many states; that case is covered by a theorem
(`QbftAgreementWithRestarts`).

### Properties

Contract (`ordering`). `LastVoteAhead`: the equality of line 159 is always still
ahead.
`VotesOnAClosedSet`: no submission and no new orderer between the first vote and
the close.
`ListedArePending`: without a conflict the list holds only pending ids, hence the
closing vote cannot fail at line 174.
`WholeListIsExecuted`: the walk that closes a round unlinks the nodes it stands on
and still meets every one, in the order of the list, and leaves an empty list, in a
round without a conflict.
`SeparateGroupsSeparateDomains`: labels never join groups of interactions that
share no party. It is stated for rounds in which nothing is labelled yet: a label
kept from a round with a conflict may be given out again, and a later conflict
then withholds an unrelated interaction with it (TLC reaches this in the second
round).
`ListFollowsVotes` and `BatchFollowsVotes`: list and execution agree with each
vote on each pair it ordered.
`ExecutedInALaterBlock`: no interaction is executed in its own block.
`ImplementsLedger`: numbered, executed at most once, never after being withdrawn.
`OneStage`: stale interactions leave each instance in one stage, with direct calls
in between.

Workflow (`workflow`). `OneStage` is not true of the workflow alone:
`resetState(1)`, `purchaseOrder(1)`, `newInstance` leaves `deliveryDetails` and
`purchaseOrder` of instance 1 open together. `OnlyCreationDoubles` says that this is
the only way out of a single stage, and `AtMostTwoStages` how far it goes: two
stages and never more, confirming and cancelling always together.
`SuppliesPayForOrders`: an order is accepted against a unit, and a unit is taken
for nothing else, except by the second purchase of such a doubled instance, whose
order is merged into the first.

List (`linked_list`). `LinksFormOneCircle`: next and previous are inverse, one walk
of `size` steps from the head meets each present node once, and absent nodes have no
links. `ImplementsSequence`: every call changes the list and answers as on the
sequence of ids.

Clients (`system`, `plain`). `RequestsAreCurrent`: a vote put together from
separate reads, or a release, is still what the contract would answer for when it
is mined. `VotesAreTaken`: such a vote is accepted. `NothingIsLeftBehind`: closed
rounds have executed all that was submitted, by a vote or, for an interaction that
shares no party and that nobody votes on, by its labelling.
`NothingFailsUnhandled`: no receipt that the script awaits without a `catch`
fails. `NoStaleChoice`: a losing transaction that outlives its round does not
decide a later one. Both hold while few blocks are late (see *Only
model-checked*). `OnlyForksDecide`: a later side wins only in a block of a fork,
and there only for the fork's own account or against its targets. `RoundsComplete`
(liveness): the whole event log is played, whatever is refused, suppressed or
late.

Consensus. `Agreement`; `CommitsAreCarried`: a ROUND-CHANGE reports a prepared
round as high as any its sender committed in; `ProposalsKeepDecisions`: a
justified proposal is the block decided before, if there is one; `OneVotePerView`.
`FutureIsKept`: an early message stays until its view and state have come.
`ReadyIsPosted`: a ready message waits in the queue only if it is a PREPARE behind
a COMMIT of its sender or behind one whose priority is rounded to the same number.
The first case is real: `msgPriority` puts COMMIT before PREPARE, unlike the order
of the states. The second begins at height 16 778, where even a proposal can wait
behind a COMMIT of its own view.

### Violated properties

* `conflict`. The comment on line 138 of `ConsensusContract.sol` says of a
  conflict "remove the conflicting interactions and flag the domain". The loop
  under it runs `j` over the array, but tests and unlists entry `i`, the position
  in the vote, and deletes entry `j`. The run ends in a state whose flagged domain
  still has a pending interaction. As list and array lose different interactions,
  the list may keep an id that is not pending any more; that is why
  `ListedArePending` is stated for rounds without a conflict.
* `qbft_panic`. `core/roundchange.go` line 153 reads the pending request of the
  proposer of a later round, which is nil until its worker has sealed a block. A
  quorum of ROUND-CHANGEs that comes first ends the process. The copy under
  `quorumal` tests for it.
* `qbft_catch_up`. Line 134 of the same file asks whether the number of validators
  ahead *equals* F+1, when a message arrives. The number can pass F+1 while the
  validator is in another round, and it then stays behind.
* `qbft_late`. When the chain has grown and a ROUND-CHANGE or a timeout is handled
  before the `FinalCommittedEvent`, `startNewRound` moves to the next height but
  keeps the round-change set, as the target round is not 0. A ROUND-CHANGE of the
  old height then helps to justify a proposal at the new one, although it knows
  nothing of the COMMITs there. The run starts from a state, spelled out in
  `MCQbftLate`, that `Qbft` reaches from `Init` in 17 steps with only delays, and
  ends in two decided blocks of one height.

### Fairness

`OrderingSystem`: weak fairness of each step of the event loop (listeners, the
steps of `checkVote`, the handling of failures) and of `Tick`, and every account's
transactions are mined again and again until none is left. `PlainSystem`: weak
fairness of the script, and of `NextBlock` with its enabling condition written
out. The code justifies it: the scripts are single event loops, timers are
re-armed after every poll, QBFT nodes build a block every period with or without
transactions, and pool transactions with the next nonce stay until they are mined.
`Qbft` and `Backlog` assume no fairness, and no liveness is claimed for them;
`qbft_catch_up` is one reason.

## 4. Proofs

For every value of the constants:

| Theorem | Statement |
|---|---|
| `OrderingTypeCorrect` | `Spec => []TypeOK` |
| `LastVoteNeverMissed` | `Spec => []LastVoteAhead` |
| `VoteOnAClosedSet` | `Spec => VotesOnAClosedSet` |
| `OrderingOneStage` | `Spec => []OneStage`, in the composition with the workflow |
| `OrderingExecutesLater` | `Spec => ExecutedInALaterBlock` |
| `OrderingImplementsLedger` | `Spec => ImplementsLedger` |
| `OrderingAtMostOnce` | `Spec => []Ledger!AtMostOnce` |
| `OrderingExecutesList` | `Spec => []WholeListIsExecuted` |
| `OrderingListedPending`, `OrderingFollowsVotes` | `Spec => []P` for `ListedArePending`, `ListFollowsVotes` |
| `OrderingListsIsolated` | `Spec => []IsolatedAreListed`: from the first vote on, what shares no party is listed |
| `OrderingExecutesInOrder` | `Spec => BatchFollowsVotes` |
| `OrderingSeparatesDomains` | `Spec => []SeparateGroupsSeparateDomains` |
| `ListTypeOK`, `ListOneCircle` | `Spec => []TypeOK`, `Spec => []LinksFormOneCircle` of the linked list |
| `ListImplementsSequence` | `Spec => ImplementsSequence` |
| `WorkflowTypeCorrect` | `WorkflowSpec => []WorkflowTypeOK` |
| `WorkflowTwoStages` | `WorkflowSpec => []AtMostTwoStages` |
| `WorkflowDoubles` | `WorkflowSpec => OnlyCreationDoubles` |
| `WorkflowSuppliesPay` | `WorkflowSpec => SuppliesPayForOrders` |
| `SystemTypeCorrect` | `SystemSpec => []SystemTypeOK` |
| `SystemImplementsContract` | `SystemSpec => Spec`: the contract under the script is the contract |
| `SystemExecutesVotes` | hence `ListFollowsVotes`, `BatchFollowsVotes` and `AtMostOnce` under the script |
| `SystemRequestsAreCurrent` | `SystemSpec => []RequestsAreCurrent`, for any lateness |
| `CourseKept` | `SystemSpec => [](...)`: the invariant of a course in which nothing is late |
| `SystemOnlyStoreOrders`, `SystemCompleteMeansReset` | `SystemSpec => []P` for `OnlyTheStoreOrders` and `CompleteMeansReset` |
| `SystemVotesAreTaken` | `SystemSpec => [](late = 0 => VotesAreTaken /\ NothingIsLeftBehind)` |
| `LedgerAtMostOnce` | the ledger executes every interaction at most once |
| `QbftTypeCorrect` | `Spec => []TypeOK`, with no hypothesis |
| `QbftAgreement` | `Spec => []Agreement`, if `Prompt` and `QuorumsMeet` |
| `QbftAgreementWithRestarts` | the same for quorums of ceil(2N/3) and at most F validators that restart, any number of times |
| `QbftProposalsKeepDecisions`, `QbftCommitsAreCarried`, `QbftOneVotePerView` | the properties of that name |
| `QbftImplementsFinalLedger` | `Spec => Ledger!LedgerSpec` |
| `BacklogTypeCorrect`, `BacklogFutureIsKept`, `BacklogReadyIsPosted` | `Spec => []P` for `TypeOK` and the properties of that name |
| `BacklogOnlyPreparesWait` | up to height 16 776 only a PREPARE behind a COMMIT waits |

**Assumptions.** `WorkflowAssumption` (finitely many accounts, none of them
`address(0)`), `OrderingAssumption` (the types of the constants), `NAssumption`
and its neighbours in `Qbft`, and those of `Backlog` on heights, rounds and
messages. `SystemAssumption` says that the script's reset to one unit is among the
supplies and that `MaxVoteLength`, a bound of the contract's instance, does not
cut the script's votes short. `AccountsAssumption`, which `CourseKept` and the
three theorems that follow from it need, is the script's cast
(`interact_ordering_proces.js:22-80`): every customer and every provider has an
account of its own, one store serves all instances, and a task is sent from the
account of the role that starts it. `Prompt` and `QuorumsMeet` (any two quorums
share a validator that does not restart) are hypotheses of the theorems, not
assumptions: with 2F+1 and N of 2, 3 or 6 quorums need not meet, and without
promptness agreement fails (`qbft_late`).

**Contract types.** `TypeOK` is inductive. The work is in the loops: a step of a
loop maps a well-typed storage record to one, and so does the loop. The second
half is an induction over the iteration number. The library's induction theorems
take an operator argument, which the provers here cannot instantiate, so
`IdListProofs` derives what is needed from the well-ordering of the naturals, for
*sets*: a run that starts in `S[0]` and whose every step goes from `S[i-1]` to
`S[i]` ends in `S[n]`, and the recursive function that describes it exists. It is
then stated for each of the four loops, and the proofs choose `S`.
`orderers_count`, which the code counts up one by one, stays equal to the size of
`orderers` by the cardinality of a disjoint union.

**The last vote.** `LastVoteAhead` is inductive together with `TypeOK`
(`RoundInv`): a submission needs the window open, so no vote was cast; a vote
needs a member of `orderers`, so their number is positive and the vote count below
it; it then reaches the number, and the round is closed, or stays below.
`VoteOnAClosedSet` is a property of one step from a state of `RoundInv`.

**Stages.** For the workflow alone `AtMostTwoStages` is inductive with the types: a
call moves one of the two stages of the instance and spares the other
(`TaskMovesStage`, `TaskSparesStage`), `newInstance` adds a second stage to the
instance it creates, which had one, and `resetState` leaves one. From one stage a
call leads to one, so that only `newInstance` doubles (`WorkflowDoubles`).
`SuppliesPayForOrders` is a property of one step from a well-typed state: what
`performTask` does to the tasks of its instance and to the supplies is
`PerformTaskEffect`.

In the composition only the execution of a list and direct calls reach the
workflow. `Staged`, the storage in which every instance is in a stage, is kept by
the other three loops because they leave `tasks_state` alone, and by the execution
by `CallTaskStage` - of which the case that matters is the task that is no longer
open and changes nothing. Here all instances exist from the start, so that
`OneStage` holds of every one of them.

**The ledger.** `LedgerInv` adds to `AtMostOnce` that everything that waits or was
executed has a number already given out. That the contract implements the ledger
is proved by one family for all four loops, `Accounted(o, s)`: seen from the
storage `o` in which the transaction started, what waits in `s` waited in `o`, in
the same block and under a number of its own; the ledger was only appended to; and
what was appended had waited, waits no more, and was appended once. Removing an
entry from the array keeps this whichever entry it is, so the conflict branch,
which mixes its two indices up, cannot break it. `WaitInv` says that numbers are
below the counter, and that what waits in a round was submitted before the round's
window ended; since rounds are closed after the window, what is executed was
submitted in an earlier block. An interaction that a conflict leaves behind
satisfies the bound in the next round too, as that round starts no earlier than it
was submitted.

`OrderingAtMostOnce` is then `LedgerAtMostOnce`, taken from an instance of
`InteractionLedgerProofs` and carried over by the refinement.

**The merged list.** The six properties of the list and the merge rest on one
invariant, `MergeInv`: `WaitInv` and `LastVoteAhead`; the list has no id twice
and, without a conflict, only pending ones; pairs that votes ordered are in that
order if both are listed (`OrderKept`) and both are while the round is open
(`RoundOrdered`); and after the first vote everything is labelled and what shares
no party is listed. Each loop has its family `S`. `Labelled`: labelling leaves
everything as it was but the labels, and only inserts into the list. `Merging`:
the entries of a vote taken so far follow one another in the list, between what
was there, the anchor being the last (`Taking`); or a conflict has broken the vote
off and flagged its domain, and the pairs of interactions that are still pending
in no flagged domain are in order, as only others were unlinked (`BrokenOff`).
`Walked`: the execution walks a list from which it removes the node it stands on,
and appends in the order in which the list was (`InListOrder`). That the walk is
still on its way through the list after each iteration is `StillToVisit`: what the
list had from the place of the iteration on is what it still has behind the places
kept, and the node in hand is the first of it, as it was read before its
predecessor was unlinked (`WalkAdvances`). `WholeListIsExecuted` follows by
`ExecutesList`, for a list in which everything is pending and nothing flagged.
What keeps the votes' order through later insertions is that inserting behind the
anchor leaves all others in their order (`InsertAfterOrder`); the anchor moves
back over ids already listed only forwards (`is_after`), which is what the
conflict test is for.

`SeparateGroupsSeparateDomains` is about one labelling. The label that iteration
`i` hands to its neighbours is the count, hence new, or the one that `i` has got,
hence of its group; `KeptApart` says so after each iteration, for a group that is
closed under neighbourhood.

**The linked list.** The invariant is that the links are the circle of the
sequence met from the head (`Circle`): `Spot(q, i)` is the node at place `i`, the
head at both ends, next of place `i` is place `i+1` and back, and no other node
has a link. `_insert` in either direction writes four links between two
neighbouring places, which is the circle with the new node there (`SpliceIn`);
`remove` links past a place (`SpliceOut`). `nodeExists` finds what is listed
(`ExistsIffListed`) because in a circle a node without links is alone behind the
head or not there. That the recursive function `Forward` returns the sequence is
`WalkIsSequence`, by the loop lemmas. `LinksFormOneCircle` follows from both
(`CircleIsOne`), and
the refinement from the lemma of each call.

**The ordering client.** `SystemStep` says that a step of the system is one of the
contract, or leaves it alone; so `Spec` follows, and with it what is proved of the
contract. What that needs is that every vote in an outbox is one that
`OrderingContract` lets callers try: on ids that were given out, and no longer than
there are ids. `SystemInv` says so, with `WaitInv` and the types: numbers only
grow, so a vote that fits goes on fitting (`FittingGrows`), and what
`permitted_interactions` returns is pending, hence given out. The types of the
events follow the two loops of `ProcessClient`, with families as above: `Sent`
only adds tasks to outboxes, `Run` only appends events of tasks that the script
listens to; and what is executed in a step was pending before it
(`StepExecutes`), by the ledger's `Moves`.

`RequestsAreCurrent` is inductive with what `checkVote` knows (`FlightInv`): only
the store's outbox holds a vote or a release, and only one, while `check` is
"sent"; between the reads the store may vote, and may still vote on what it has
read. It is kept because all of this needs the window closed, when no submission
is accepted and no `Tick` is needed (`NothingAsked`), and because the one vote
that can be mined is the one that was sent.

**When nothing is late.** `OnlyTheStoreOrders` and `CompleteMeansReset` are far
from inductive: who becomes an orderer depends on what is submitted in one window,
which depends on what the script has heard, which depends on the last round having
executed everything. `Course` describes a state of a run in which no block found
anything still on its way, and `CourseInv` says that the state is such while
`late = 0`. Its heart is `InFlight`, the calls that have been sent, are submitted, or
have been announced and are about to be sent. These three are disjoint (`Apart`),
each call is in flight once (`SentOnce`, `OneEvent`) and its task is open; an
execution that the script has not heard of yet stands for the stage that follows
it (`Answers`); and an instance that is complete, or between two rounds of the
script, is ready for a purchase and has nothing in flight (`Stands`). Once the
round of the contract is a block old, everything in flight is submitted
(`Drained`). So no submission is refused, neither because its task is not open nor
because it finds the window closed.

A round then looks the same every time (`RoundCourse`). By `OneStage` an instance
has one open task, or the two sides of the choice, of a customer and a provider;
both are interactions with the store, and so two interactions can only share the
store (`OnlyStoreContends`). Its one vote is on just the interactions that have
neighbours (`StoreVotesNeighbours`); labelling has listed the others
(`LoneInteractionsListed`), so after the vote, or at a release, the list holds all
that is pending (`VoteListsAll`), and the execution calls each of them and leaves
nothing (`ListedAllExecutes`, `RoundClears`). That the script hears exactly the
events of the workflow's new state is `RunStands`, by the loop of `Run` over the
batch with one case per task (`RunStepRuns`), and that it acts on them as it
should is `HeardStands`. There is a lemma for each action that the course is kept
(`SubmitCourse`, `MineRequestCourse`, `HandleExecutedCourse`, ...); `CourseGives`
and `CourseTakesVotes` draw the conclusions. TLC checked `CourseInv` on the
instance of `system` before it was proved.

**QBFT.** `Agreement` is not inductive. `IInv` is: the types; `CoreInv`, what a
core knows is backed by messages that were sent, and what it has sent does not go
past its view; `PrepareInv`, `CommitInv`, `RoundChangeInv` and `PreprepareInv`,
messages are backed by messages, a COMMIT and a prepared round by a quorum of
PREPAREs; `OneVotePerView`; `CommitsAreCarried`; `SealedInv`, a sealed block has a
quorum of COMMITs in some round; and `SafeInv`, the heart: for a block that is
voted for in a round and for every earlier round of its height there is a quorum
that has left that round and has committed to no other block in it. The steps of
the argument are lemmas: `OnePreparedPerView`, two quorums of PREPAREs in a view
share a validator that voted once; `PreparedIsSafe`, what a quorum prepared is
safe; `JustifiedIsSafe`, so is what a quorum of ROUND-CHANGEs justifies, since
each of them reports a prepared round at least as high as its sender committed in,
and below the highest one that block was safe already; `CommittedIsKept`, a safe
block is the one committed in any earlier round, as two quorums share a validator
that keeps its memory. `Agreement` follows from `SealedInv` and `SafeInv`. Each
handler has a lemma on what it writes and one that it keeps `IInv`.

**Backlog.** The invariant is that a ready message stays in the queue only behind
one of a rank that is not lower (`ReadyFirst`): messages are ranked as states and
views are, with the one exception of COMMIT before PREPARE, and
`Float32KeepsOrder` says that rounding is monotone. Below height 16 777 rounding
changes nothing.

**Only model-checked.** `VotesAreTaken` and `NothingIsLeftBehind` are proved for
the course in which nothing is late. How far they hold beyond it depends on how
late things come: `system` checks them with 3 late blocks, and TLC also finds them
true with 4 and 5, but with any lateness submissions of one choice may pile up
over several rounds, and nothing keeps the script's counters as they were between
two votes of one round; they are not claimed for every `MaxLate`. The five
invariants of `PlainSystem` depend on lateness and on who takes turns in the same
way: `PlainTypeOK` says among other things that no two waiting transactions are
equal, and with 3 late blocks two equal ones may wait, one sent in the round
before; `NoStaleChoice` needs a validator that does not suppress between two
choices, and fails when six blocks of three rounds are late; `NoncesAreFree`, and
with it `NothingFailsUnhandled`, fails when four are: a provider's suppressed
confirmation of one round and that of the next wait together when it signs the
delivery. For three instances it fails without any, as the store signs a third
answer while two of its transactions wait. `OnlyForksDecide` needs to know which
transactions may be waiting, and so rests on the others.

Out of reach of the prover and left to TLC: liveness (`RoundsComplete`), and what
the recursive definitions compute for every input.

## 5. Plan

1. Proofs: the course of an instance in `PlainSystem`, for the lateness and the
   turns under which its invariants hold.
2. `Workflow.sol` and `WorkflowOld.sol` as implementations of one choreography.
3. Two runs of `checkVote` at once, when a read takes longer than the timer.
4. The labelling of chains of four and more interactions.

## 6. Not modelled

*Contracts.* Gas and its limits; the encodings of calls, addresses and strings;
events as data on the chain; `setWorkflow` and `setOrderingContract`, called once
at deployment. Words of the contracts are unbounded here: the counters have 256
bits and are raised by one per transaction, and `domain_count`, of 32 bits, is
raised by one per interaction of a round. `Workflow.sol` and `WorkflowOld.sol`,
which no script drives.

*Clients.* Overlapping runs of `checkVote`; the nonces of the ordering client,
which `increase_nonce` counts up in turns of one event loop; `order_sequence` and
statistics; subscriptions that break and lose events. In `plain` a nonce is
computed and the transaction accepted in one step: a count read before another
block and used after it is not modelled.

*Block building.* All validators see transactions arrive in one order and at one
price; the worker's channels, uncles, resubmission and gas are left out, and so
are the pool's queues, limits, replacement and reorganisations.

*QBFT.* Messages are authentic and the validator set is fixed; validators follow
the code. Stopping and starting the engine in a running process, the ROUND-CHANGE
after a COMMIT that the backend refuses, two head events merged into one, and a
callback that runs at the very moment of a handler are left out. Headers, seals,
snapshots and validator votes are data.

*The rest.* The event log generator, the data set, the scripts that start
processes and copy files, and the parts of three GoQuorum trees other than the
QBFT core and the worker's selection: third-party code with its own subject.
