----------------------------- MODULE PlainSystem -----------------------------
(***************************************************************************)
(* The script src/interact_plain_process.js, which calls the workflow      *)
(* without the ordering contract, on a chain whose validators build blocks *)
(* as in BlockBuilding and take turns in proposing.  The order in a block  *)
(* decides the choice between confirming and cancelling.                   *)
(*                                                                         *)
(* All validators see the transactions arrive in the same order.           *)
(***************************************************************************)
EXTENDS ProcessClient, BlockBuilding, Integers

CONSTANTS
  MaxLate,   \* bound: blocks that are cut short or find the script at work
  Rotations  \* the orders in which the validators may take turns

ASSUME PlainAssumption ==
  /\ Accounts = Addresses
  /\ MaxLate \in Nat
  /\ Rotations \subseteq Seq(Nodes) \ {<<>>}

VARIABLES
  mode,        \* the argument of start-network.sh
  turns,       \* whose turn it is, and who follows
  pool,        \* transactions accepted and not mined
  signed,      \* nonce[a] minus the number of a's transactions mined, from -1 up
  late,        \* blocks that were cut short or found the script at work
  unhandled,   \* did a transaction fail whose failure is not caught?
  \* History: per instance, how its last choice between confirming and cancelling
  \* fell: whose block, for whom, in time, and past an earlier rival.
  decided

chainVars == <<mode, turns, pool, signed, late, unhandled, decided>>

plainVars == <<workflowVars, clientVars, chainVars>>

-----------------------------------------------------------------------------
Choice == {"confirmShipping", "cancelOrder"}

\* The failures of these are caught and logged.
Caught == {"purchaseOrder", "confirmShipping", "cancelOrder"}

Undecided == [node |-> CHOOSE v \in Nodes : TRUE, task |-> "cancelOrder",
              stale |-> FALSE, past |-> {}]

PlainInit ==
  /\ instancesCount = MaxInstances
  /\ tasks_state = [i \in InstanceIds |-> {"purchaseOrder"}]
  /\ participants = [i \in InstanceIds |-> [r \in Roles |-> NoAddress]]
  /\ supplies = 1
  /\ ClientInit
  /\ mode \in Modes
  /\ turns \in Rotations
  /\ pool = <<>>
  /\ signed = [a \in Addresses |-> -1]
  /\ late = 0
  /\ unhandled = FALSE
  /\ decided = [i \in InstanceIds |-> Undecided]

Waiting(a) == Len(From(pool, {a}))

\* Mutant of NextNonce: the nonce is the number of transactions mined.
MinedNonce(a) == 0

\* signTx compares the last nonce with the number of transactions mined.
NextNonce(a) == IF signed[a] = 0 THEN 1 ELSE 0

\* signTx and sendSignedTransaction: the pool takes a transaction with a nonce
\* that is not taken, and refuses another one of the same price.
Submit(a) ==
  /\ outbox[a] # <<>>
  /\ outbox' = [outbox EXCEPT ![a] = Tail(@)]
  /\ signed' = [signed EXCEPT ![a] = NextNonce(a)]
  /\ LET tx == Head(outbox[a])
     IN  IF NextNonce(a) = Waiting(a)
         THEN /\ pool' = Append(pool, [sender |-> a, tx |-> tx, round |-> round])
              /\ UNCHANGED unhandled
         ELSE /\ unhandled' = (unhandled \/ tx = SuppliesTx \/ tx.call.task \notin Caught)
              /\ UNCHANGED pool
  /\ UNCHANGED <<workflowVars, round, phase, complete, enabledEvents,
                 executedEvents, mode, turns, late, decided>>

-----------------------------------------------------------------------------
Quiet ==
  /\ enabledEvents = <<>> /\ executedEvents = <<>>
  /\ \A a \in Addresses : outbox[a] = <<>>

\* How the choice of instance i falls with the k-th transaction of a block.
Decision(txs, k) ==
  LET c == txs[k].tx.call
      Rival(p) == p.tx # SuppliesTx /\ p.tx.call.instance = c.instance
                    /\ p.tx.call.task \in Choice \ {c.task}
      at == CHOOSE j \in DOMAIN pool : pool[j] = txs[k]
  IN  [node |-> Head(turns), task |-> c.task, stale |-> txs[k].round # round,
       past |-> {pool[j].sender : j \in {x \in 1..at - 1 : Rival(pool[x])}}]

\* The transactions of a block that decide a choice.
Decisive(txs, failed, i) ==
  {k \in DOMAIN txs \ failed : /\ txs[k].tx # SuppliesTx
                               /\ txs[k].tx.call.instance = i
                               /\ txs[k].tx.call.task \in Choice}

\* The validator whose turn it is proposes a block, and the chain executes it:
\* all it selects, or less when a signal or the gas limit has cut it short.
Block(n) ==
  LET all  == commitNewWork(Head(turns), mode, pool)
      txs  == SubSeq(all, 1, n)
      run  == Run(Workflow, [k \in DOMAIN txs |-> txs[k].tx])
  IN  /\ n <= Len(all)
      /\ IF Quiet /\ n = Len(all) THEN late' = late ELSE late < MaxLate /\ late' = late + 1
      /\ tasks_state' = run.w.tasks_state
      /\ supplies' = run.w.supplies
      /\ Announce(run)
      /\ pool' = SelectSeq(pool, LAMBDA p : p \notin ToSet(txs))
      /\ signed' = [a \in Addresses |-> Max({-1, signed[a] - Len(From(txs, {a}))})]
      /\ unhandled' = (unhandled \/ \E k \in run.failed : txs[k].tx.call.task \notin Caught)
      /\ decided' = [i \in InstanceIds |->
                       LET last == Decisive(txs, run.failed, i)
                       IN  IF last = {} THEN decided[i] ELSE Decision(txs, Max(last))]
      /\ turns' = Append(Tail(turns), Head(turns))
  /\ UNCHANGED <<instancesCount, participants, round, phase, complete, outbox, mode>>

\* The proposer misses its turn: a round change gives it to the next.
SkipProposer ==
  /\ late < MaxLate
  /\ late' = late + 1
  /\ turns' = Append(Tail(turns), Head(turns))
  /\ UNCHANGED <<workflowVars, clientVars, mode, pool, signed, unhandled, decided>>

Listen ==
  /\ \/ ClientStep \/ HandleExecuted
     \/ /\ SuppliesTx \notin ToSet(outbox[Store]) \cup {p.tx : p \in ToSet(pool)}
        /\ NextRound
  /\ UNCHANGED <<workflowVars, chainVars>>

Script == Listen \/ \E a \in Addresses : Submit(a)

NextBlock == \E n \in 0..Len(pool) : Block(n)

PlainNext == Script \/ NextBlock \/ SkipProposer

PlainSpec == PlainInit /\ [][PlainNext]_plainVars

\* The script runs, and validators build blocks in turn: weak fairness of Script,
\* and of NextBlock with the condition under which it is enabled written out.
Fairness ==
  /\ WF_plainVars(Script)
  /\ []<>~(Quiet \/ late < MaxLate) \/ []<><<NextBlock>>_plainVars

FairPlainSpec == PlainSpec /\ Fairness

-----------------------------------------------------------------------------
PlainTypeOK ==
  /\ WorkflowTypeOK
  /\ round \in 0..MaxRounds
  /\ complete \in [InstanceIds -> BOOLEAN]
  /\ IsInjective(pool)
  /\ \A p \in ToSet(pool) : p.sender \in Addresses /\ p.round \in 0..round
  /\ signed \in [Addresses -> -1..1]
  /\ late \in 0..MaxLate
  /\ \A i \in InstanceIds : decided[i].task \in Choice /\ decided[i].past \subseteq Addresses

\* The script waits for these receipts without a catch (interact_plain_process.js:228,
\* 237, 260, 268), so that one failure ends the process.  None of them fails: not in the
\* workflow, whatever overtakes it, and not for a nonce that is taken as long as
\* NoncesAreFree.
NothingFailsUnhandled == ~unhandled

\* signTx (lines 308-314) can tell one pending transaction of an account from none; with
\* two it would sign a nonce that is taken.  With few late blocks the process never asks
\* for that: whoever signs has at most one transaction waiting, though the store serves
\* all instances.  It takes four (MaxLate) until a provider's suppressed confirmation of
\* one round and that of the next wait together when the delivery is signed.
NoncesAreFree == \A a \in Addresses : outbox[a] # <<>> => NextNonce(a) = Waiting(a)

\* The losing side of a choice stays in the pool, and a suppressed one outlives its round
\* (the instance is complete and bought from again).  Still it does not decide the choice
\* of a later round: lines 164-175 submit both sides in every round, and with few late
\* blocks a validator that does not suppress it comes before the next choice.
NoStaleChoice == \A i \in InstanceIds : ~decided[i].stale

\* A side that arrived later wins over one that was waiting only in a block of a validator
\* that runs a fork: the displacing one for its own account (quorumal/miner/worker.go:1106),
\* the suppressing one against its targets (quorumal_del/miner/worker.go:935).
OnlyForksDecide ==
  \A i \in InstanceIds :
    LET d == decided[i]
    IN  d.past # {} =>
          /\ d.node \in Forked
          /\ \/ mode = "quorumal" /\ Sender[i][d.task] = Unlocked[d.node]
             \/ mode = "quorumal_del" /\ d.past \subseteq Targets[d.node]

\* waitForRoundComplete returns in every round (line 345) under all three versions:
\* suppression delays a transaction until a validator without the target proposes, and
\* no order in the blocks keeps an instance from being complete.
RoundsComplete == <>(round = MaxRounds)
=============================================================================
