---------------------------- MODULE ProcessClient ----------------------------
(***************************************************************************)
(* The script that drives the delivery process, as far as its two versions *)
(* agree (src/interact_ordering_proces.js, src/interact_plain_process.js). *)
(*                                                                         *)
(* A round starts every instance with a purchase; after that the script    *)
(* only reacts to the events of the workflow, which reach it on two        *)
(* subscriptions, each in order but not in order with the other.  When all *)
(* instances are marked complete it resets the supplies and starts the     *)
(* next round.  Transactions wait in the outbox of their sender, in the    *)
(* order in which they are sent.                                           *)
(*                                                                         *)
(* Statistics are left out, and so is the order in which confirmation and  *)
(* cancellation are sent: they are of two accounts, and any of them may be *)
(* mined first.                                                            *)
(***************************************************************************)
EXTENDS WorkflowNew, Sequences, SequencesExt

CONSTANTS
  Sender,     \* Sender[i][task]: the account that submits a task of instance i
  Store,      \* the account of the store
  MaxRounds   \* bound: length of the event log

ASSUME ClientAssumption ==
  /\ Sender \in [InstanceIds -> [Tasks -> Addresses]]
  /\ Store \in Addresses
  /\ MaxRounds \in Nat

VARIABLES
  round,           \* rounds of the event log that are done
  phase,           \* what the script waits for
  complete,        \* instances[i].complete
  enabledEvents, executedEvents,   \* the events on their way to the script
  outbox           \* per account, the transactions sent

clientVars == <<round, phase, complete, enabledEvents, executedEvents, outbox>>

-----------------------------------------------------------------------------
Call(task, instance) == [task |-> task, instance |-> instance]

\* What a transaction is for, besides a vote.
TaskTx(call) == [kind |-> "task", call |-> call]
SuppliesTx == [kind |-> "supplies"]

\* Sending calls, in any number of accounts; of two for one account the order is given.
Sent(box, calls) ==
  LET n == Len(calls)
      run[k \in 0..n] ==
        IF k = 0 THEN box
        ELSE [run[k-1] EXCEPT ![Sender[calls[k].instance][calls[k].task]] =
                                Append(@, TaskTx(calls[k]))]
  IN  run[n]

\* Executing transactions one after the other on the workflow w: the events that
\* somebody waits for, and the calls that fail; these emit nothing.
Run(w, txs) ==
  LET n == Len(txs)
      ran[k \in 0..n] ==
        IF k = 0 THEN [w |-> w, enabled |-> <<>>, executed |-> <<>>, failed |-> {}]
        ELSE LET r == ran[k-1]
                 c == txs[k].call
                 opened == Opens(c.task, r.w.supplies)
                             \cap {"deliveryDetails", "insufficientSupplies", "itemDelivered"}
             IN  IF txs[k] = SuppliesTx THEN [r EXCEPT !.w.supplies = 1]
                 ELSE IF c.task \notin r.w.tasks_state[c.instance]
                      THEN [r EXCEPT !.failed = @ \cup {k}]
                 ELSE [r EXCEPT
                         !.w        = CallTask(@, c.task, c.instance),
                         !.enabled  = @ \o SetToSeq({Call(t, c.instance) : t \in opened}),
                         !.executed = IF c.task = "purchaseOrder" THEN @ ELSE Append(@, c)]
  IN  ran[n]

Workflow == [tasks_state |-> tasks_state, supplies |-> supplies]

\* The events of a step of the workflow reach the script.
Announce(run) ==
  /\ enabledEvents' = enabledEvents \o run.enabled
  /\ executedEvents' = executedEvents \o run.executed

-----------------------------------------------------------------------------
ClientInit ==
  /\ round = 0
  /\ phase = "start"
  /\ complete = [i \in InstanceIds |-> FALSE]
  /\ enabledEvents = <<>> /\ executedEvents = <<>>
  /\ outbox = [a \in Addresses |-> <<>>]

\* interact: a purchase for every instance.
StartRound ==
  /\ phase = "start"
  /\ round < MaxRounds
  /\ phase' = "running"
  /\ outbox' = Sent(outbox, [i \in InstanceIds |-> Call("purchaseOrder", i)])
  /\ UNCHANGED <<round, complete, enabledEvents, executedEvents>>

\* The listener of taskEnabled submits the task.
HandleEnabled ==
  /\ enabledEvents # <<>>
  /\ enabledEvents' = Tail(enabledEvents)
  /\ outbox' = Sent(outbox, <<Head(enabledEvents)>>)
  /\ UNCHANGED <<round, phase, complete, executedEvents>>

\* Mutant of Ends: an instance is complete once its delivery is decided.
EndsWithTheChoice == {"cancelOrder", "confirmShipping", "insufficientSupplies"}

\* Tasks that end an instance.
Ends == {"cancelOrder", "itemDelivered", "insufficientSupplies"}

\* The listener of taskExecuted: after the delivery details both sides of the
\* deferred choice are submitted, the customer's and the provider's.
HandleExecuted ==
  /\ executedEvents # <<>>
  /\ LET e == Head(executedEvents)
     IN  /\ outbox' = IF e.task = "deliveryDetails"
                      THEN Sent(outbox, <<Call("confirmShipping", e.instance),
                                          Call("cancelOrder", e.instance)>>)
                      ELSE outbox
         /\ complete' = [complete EXCEPT ![e.instance] = @ \/ e.task \in Ends]
  /\ executedEvents' = Tail(executedEvents)
  /\ UNCHANGED <<round, phase, enabledEvents>>

\* waitForRoundComplete and resetState.
FinishRound ==
  /\ phase = "running"
  /\ \A i \in InstanceIds : complete[i]
  /\ phase' = "resetting"
  /\ complete' = [i \in InstanceIds |-> FALSE]
  /\ outbox' = [outbox EXCEPT ![Store] = Append(@, SuppliesTx)]
  /\ UNCHANGED <<round, enabledEvents, executedEvents>>

\* The receipt of resetSupplies, once it is mined.
NextRound ==
  /\ phase = "resetting"
  /\ phase' = "start"
  /\ round' = round + 1
  /\ UNCHANGED <<complete, enabledEvents, executedEvents, outbox>>

\* All but the listener of taskExecuted, in which the two scripts differ.
ClientStep == StartRound \/ HandleEnabled \/ FinishRound
=============================================================================
