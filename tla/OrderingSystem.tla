--------------------------- MODULE OrderingSystem ---------------------------
(***************************************************************************)
(* The script src/interact_ordering_proces.js against the ordering         *)
(* contract: the event listeners of ProcessClient submit interactions, and *)
(* checkVote, started by a timer, votes for the store or releases a round  *)
(* without orderers.                                                       *)
(*                                                                         *)
(* A transaction that the contract reverts has no effect on the chain; the *)
(* script learns of it from the receipt and marks the instance complete.   *)
(***************************************************************************)
EXTENDS OrderingContract, ProcessClient

CONSTANTS
  MaxLate   \* bound: blocks built while something is still on its way

\* The script resets the supplies to one unit, and votes on what it likes: the
\* contract's bound on the length of a vote is no bound here.
ASSUME SystemAssumption ==
  /\ MaxLate \in Nat
  /\ 1 \in SupplyValues
  /\ MaxSubmissions <= MaxVoteLength

\* Every participant has an account of its own, the store serves all instances, and
\* a task is sent from the account of the role that starts it.
ASSUME AccountsAssumption ==
  /\ \A i \in InstanceIds :
       /\ Parties[i].Store = Store
       /\ Parties[i].Customer # Parties[i].Delivery
       /\ Store \notin {Parties[i].Customer, Parties[i].Delivery}
       /\ \A t \in Tasks : Sender[i][t] = Parties[i][rolesToTask[t][1]]
  /\ \A i, j \in InstanceIds : i # j =>
       {Parties[i].Customer, Parties[i].Delivery}
         \cap {Parties[j].Customer, Parties[j].Delivery} = {}

VARIABLES
  late,        \* how many such blocks there were
  counts,      \* how often each task of each instance was executed
  check,       \* how far checkVote is
  permitted,   \* the ids permitted_interactions returned to it
  failed       \* per instance, the failed receipts on their way to the script

systemVars == <<vars, clientVars, late, counts, check, permitted, failed>>

VoteTx(vote) == [kind |-> "vote", vote |-> vote]
ReleaseTx == [kind |-> "release"]

Counted == {"purchaseOrder", "cancelOrder", "confirmShipping"}

Transactions ==
  {TaskTx(Call(t, i)) : t \in Tasks, i \in InstanceIds}
    \cup [kind : {"vote"}, vote : Seq(Nat \ {0})] \cup {ReleaseTx, SuppliesTx}

-----------------------------------------------------------------------------
SystemInit ==
  /\ Init
  /\ ClientInit
  /\ late = 0
  /\ counts = [i \in InstanceIds |-> [t \in Counted |-> 0]]
  /\ check = "armed"
  /\ permitted = {}
  /\ failed = [i \in InstanceIds |-> 0]

\* The interactions the next step executes.
Executing ==
  [k \in DOMAIN Batch |->
     LET p == pending_interactions[IndexOf(pending_interactions, Batch[k])]
     IN  TaskTx(Call(p.task, p.instance))]

\* The transaction at the head of an outbox, and what it does if it is not reverted.
Effect(a, tx) ==
  CASE tx.kind = "task"     -> submit_interaction(a, tx.call.instance, tx.call.task)
    [] tx.kind = "vote"     -> order_interactions(a, tx.vote)
    [] tx.kind = "release"  -> release
    [] tx.kind = "supplies" -> resetSupplies(1) /\ UNCHANGED <<block, contractVars>>

\* The conditions under which the contract does not revert it.
Accepts(a, tx) ==
  CASE tx.kind = "task"     -> /\ WindowOpen(IF index_block = 0 THEN block ELSE index_block)
                               /\ tx.call.task \in tasks_state[tx.call.instance]
    [] tx.kind = "vote"     -> LET b == Vote(GenerateDomains(Storage), a, tx.vote)
                               IN  /\ canVote(a) /\ b.s.ok
                                   /\ vote_count + 1 = orderers_count => Execute(b.s).ok
    [] tx.kind = "release"  -> isIsolate /\ Execute(GenerateDomains(Storage)).ok
    [] tx.kind = "supplies" -> TRUE

\* A block takes the next transaction of an account.
Mine(a) ==
  /\ outbox[a] # <<>>
  /\ outbox' = [outbox EXCEPT ![a] = Tail(@)]
  /\ LET tx == Head(outbox[a])
     IN  \/ /\ Accepts(a, tx)
            /\ Effect(a, tx)
            /\ Announce(Run(Workflow, Executing))
            /\ UNCHANGED failed
         \/ /\ ~Accepts(a, tx)
            /\ failed' = IF tx.kind = "task"
                         THEN [failed EXCEPT ![tx.call.instance] = @ + 1] ELSE failed
            /\ UNCHANGED <<vars, enabledEvents, executedEvents>>
  /\ UNCHANGED <<round, phase, complete, counts, late, check, permitted>>

Quiet ==
  /\ enabledEvents = <<>> /\ executedEvents = <<>>
  /\ \A a \in Addresses : outbox[a] = <<>>
  /\ \A i \in InstanceIds : failed[i] = 0

\* A new block.  Outside a window the block number is of no consequence.
Tick ==
  /\ index_block # 0 /\ WindowOpen(index_block)
  /\ IF Quiet THEN late' = late ELSE late < MaxLate /\ late' = late + 1
  /\ NextBlock
  /\ UNCHANGED <<clientVars, counts, check, permitted, failed>>

\* Mutant of HandleFailure: the failure is logged only.
LogFailure(i) ==
  /\ failed[i] > 0
  /\ failed' = [failed EXCEPT ![i] = @ - 1]
  /\ UNCHANGED <<vars, clientVars, late, counts, check, permitted>>

\* The receipt of a failed submission: the catch of the submitting function.
HandleFailure(i) ==
  /\ failed[i] > 0
  /\ failed' = [failed EXCEPT ![i] = @ - 1]
  /\ complete' = [complete EXCEPT ![i] = TRUE]
  /\ UNCHANGED <<vars, round, phase, counts, enabledEvents, executedEvents, outbox,
                 late, check, permitted>>

-----------------------------------------------------------------------------
\* checkVote asks the contract in separate calls.
AskCanVote ==
  /\ check = "armed"
  /\ check' = IF canVote(Store) THEN "mayVote" ELSE "mayNotVote"
  /\ UNCHANGED <<vars, clientVars, late, counts, permitted, failed>>

AskPermitted ==
  /\ check = "mayVote"
  /\ check' = "ordering"
  /\ permitted' = permitted_interactions(Store)
  /\ UNCHANGED <<vars, clientVars, late, counts, failed>>

\* Interactions of a task executed less often first, else in the order of their ids.
Before(x, y) ==
  LET Key(id) == LET p == pending_interactions[IndexOf(pending_interactions, id)]
                 IN  IF p.task \in Counted THEN counts[p.instance][p.task] ELSE 0
  IN  Key(x) < Key(y) \/ (Key(x) = Key(y) /\ x < y)

\* The script awaits a get_interaction call for each permitted id before it sends the
\* vote (lines 153-170).  The reads are one step here: canVote has been answered
\* yes, the window is closed, and until the vote is mined nothing is submitted.
SendVote ==
  /\ check = "ordering"
  /\ check' = "sent"
  /\ \E vote \in SetToSeqs(permitted) :
       /\ \A i, j \in DOMAIN vote : i < j => Before(vote[i], vote[j])
       /\ outbox' = [outbox EXCEPT ![Store] = Append(@, VoteTx(vote))]
  /\ permitted' = {}
  /\ UNCHANGED <<vars, round, phase, complete, counts, enabledEvents, executedEvents,
                 late, failed>>

AskIsolate ==
  /\ check = "mayNotVote"
  /\ IF isIsolate
     THEN /\ check' = "sent"
          /\ outbox' = [outbox EXCEPT ![Store] = Append(@, ReleaseTx)]
     ELSE /\ check' = "armed"
          /\ UNCHANGED outbox
  /\ UNCHANGED <<vars, round, phase, complete, counts, enabledEvents, executedEvents,
                 late, permitted, failed>>

\* The receipt of the vote or release, whether accepted or not: the timer again.
Rearm ==
  /\ check = "sent"
  /\ \A k \in DOMAIN outbox[Store] : outbox[Store][k].kind \notin {"vote", "release"}
  /\ check' = "armed"
  /\ UNCHANGED <<vars, clientVars, late, counts, permitted, failed>>

CheckVote == AskCanVote \/ AskPermitted \/ SendVote \/ AskIsolate \/ Rearm

\* The listeners; what the script counts, it votes by.
Listen ==
  /\ \/ ClientStep /\ UNCHANGED counts
     \/ SuppliesTx \notin ToSet(outbox[Store]) /\ NextRound /\ UNCHANGED counts
     \/ /\ HandleExecuted
        /\ LET e == Head(executedEvents)
               counted == IF e.task = "deliveryDetails" THEN "purchaseOrder" ELSE e.task
           IN  counts' = IF counted \in Counted
                         THEN [counts EXCEPT ![e.instance][counted] = @ + 1]
                         ELSE counts
  /\ UNCHANGED <<vars, late, check, permitted, failed>>

SystemNext ==
  \/ \E a \in Addresses : Mine(a)
  \/ Tick
  \/ \E i \in InstanceIds : HandleFailure(i)
  \/ CheckVote
  \/ Listen

SystemSpec == SystemInit /\ [][SystemNext]_systemVars

\* Blocks are built, take what is sent, and the event loop of the script runs.
Fairness ==
  /\ \A a \in Addresses : []<>(outbox[a] = <<>>) \/ []<><<Mine(a)>>_systemVars
  /\ WF_systemVars(Tick)
  /\ \A i \in InstanceIds : WF_systemVars(HandleFailure(i))
  /\ WF_systemVars(AskPermitted) /\ WF_systemVars(SendVote)
  /\ WF_systemVars(AskCanVote) /\ WF_systemVars(AskIsolate) /\ WF_systemVars(Rearm)
  /\ WF_systemVars(Listen)

FairSystemSpec == SystemSpec /\ Fairness

-----------------------------------------------------------------------------
SystemTypeOK ==
  /\ TypeOK
  /\ round \in 0..MaxRounds
  /\ phase \in {"start", "running", "resetting"}
  /\ complete \in [InstanceIds -> BOOLEAN]
  /\ counts \in [InstanceIds -> [Counted -> Nat]]
  /\ enabledEvents \in Seq([task : Tasks, instance : InstanceIds])
  /\ executedEvents \in Seq([task : Tasks, instance : InstanceIds])
  /\ outbox \in [Addresses -> Seq(Transactions)]
  /\ late \in 0..MaxLate
  /\ check \in {"armed", "mayVote", "mayNotVote", "ordering", "sent"}
  /\ permitted \subseteq Nat \ {0}
  /\ failed \in [InstanceIds -> Nat]

\* The script votes for the store alone (interact_ordering_proces.js:144), and a
\* round waits for the vote of every orderer.  As long as every block finds what
\* was sent before it mined and answered, nobody but the store becomes an orderer,
\* although customers and providers submit in the same rounds.
OnlyTheStoreOrders == late = 0 => orderers \subseteq {Store}

\* A vote is put together from separate reads (lines 144-158) and sent later, in
\* between other accounts' transactions; still it is never out of date: as long as
\* it is under way the store may vote, and on just those interactions, and as
\* long as a release is under way there is nobody to vote.
RequestsAreCurrent ==
  \A k \in DOMAIN outbox[Store] :
    LET tx == outbox[Store][k]
    IN  /\ tx.kind = "vote" => /\ canVote(Store)
                              /\ ToSet(tx.vote) = permitted_interactions(Store)
        /\ tx.kind = "release" => isIsolate

\* And the contract takes such a vote: it reverts in none of the loops behind it.
VotesAreTaken ==
  \A k \in DOMAIN outbox[Store] :
    LET tx == outbox[Store][k]
    IN  tx.kind = "vote" => Accepts(Store, tx)

\* Although transactions and receipts come late, the votes of the script raise no
\* conflict, and a round that is closed has executed all that was submitted.
NothingIsLeftBehind == pending_domains = {} /\ (index_block = 0 => pending_interactions = <<>>)

\* An instance that the script takes for complete is ready for the next purchase
\* as long as everything is mined in time; when a window closes on a transaction, its
\* failure marks the instance complete in the middle of the process (line 273).
CompleteMeansReset ==
  late = 0 => \A i \in InstanceIds : complete[i] => "purchaseOrder" \in tasks_state[i]

\* waitForRoundComplete returns in every round (line 474): whatever is refused,
\* fails or comes late, each instance is marked complete in the end and the whole
\* event log is played.
RoundsComplete == <>(round = MaxRounds)
=============================================================================
