---------------------------- MODULE WorkflowNew ----------------------------
(***************************************************************************)
(* The delivery choreography of truffle/contracts/WorkflowNew.sol.  A      *)
(* customer orders from a store, the store asks a logistic provider to     *)
(* deliver, the delivery is confirmed or cancelled, the item is delivered. *)
(* Every external function of the contract is one transaction, hence one   *)
(* atomic action.  Events are not modelled: no contract reads them.        *)
(***************************************************************************)
EXTENDS Naturals, FiniteSets

CONSTANTS
  Addresses,     \* the accounts that call the contract or take part in it
  NoAddress,     \* address(0), what an unset mapping(string=>address) returns
  MaxInstances,  \* bound on newInstance
  SupplyValues   \* the arguments resetSupplies is called with

ASSUME WorkflowAssumption ==
  /\ IsFiniteSet(Addresses)   \* an address is a word of 160 bits
  /\ NoAddress \notin Addresses
  /\ MaxInstances \in Nat
  /\ SupplyValues \subseteq Nat

VARIABLES
  instancesCount,  \* number of instances created
  tasks_state,     \* per instance, the set of tasks whose flag is true
  participants,    \* per instance, the account behind each role
  supplies         \* units the store has left, shared by all instances

workflowVars == <<instancesCount, tasks_state, participants, supplies>>

-----------------------------------------------------------------------------
Roles == {"Customer", "Store", "Delivery"}

Tasks == {"purchaseOrder", "insufficientSupplies", "deliveryDetails",
          "confirmShipping", "cancelOrder", "itemDelivered"}

InstanceIds == 1..MaxInstances

\* Who starts a task and who it is addressed to.
rolesToTask ==
  [purchaseOrder        |-> <<"Customer", "Store">>,
   insufficientSupplies |-> <<"Store", "Customer">>,
   deliveryDetails      |-> <<"Store", "Delivery">>,
   confirmShipping      |-> <<"Delivery", "Store">>,
   cancelOrder          |-> <<"Customer", "Store">>,
   itemDelivered        |-> <<"Delivery", "Customer">>]

\* The tasks a task's function enables, given the supplies it finds.
Opens(task, stock) ==
  CASE task = "purchaseOrder"   -> IF stock > 0 THEN {"deliveryDetails"}
                                                ELSE {"insufficientSupplies"}
    [] task = "deliveryDetails" -> {"confirmShipping", "cancelOrder"}
    [] task = "confirmShipping" -> {"itemDelivered"}
    [] OTHER                    -> {"purchaseOrder"}

\* Mutant of Closes: the other branch of the choice is left open.
ClosesItselfOnly(task) == {task}

\* The tasks it disables: itself, and the other branch of the deferred choice.
Closes(task) ==
  IF task \in {"confirmShipping", "cancelOrder"}
  THEN {"confirmShipping", "cancelOrder"}
  ELSE {task}

\* Mutants of Consumes: the purchase takes no unit; it takes one unchecked.
ConsumesNothing(task, stock) == 0
ConsumesUnchecked(task, stock) == IF task = "purchaseOrder" THEN 1 ELSE 0

\* The units it consumes.
Consumes(task, stock) == IF task = "purchaseOrder" /\ stock > 0 THEN 1 ELSE 0

\* Mutant of CallTask: the require is missing.
CallTaskUnchecked(w, task, inst) ==
  [tasks_state |-> [w.tasks_state EXCEPT
                      ![inst] = (@ \cup Opens(task, w.supplies)) \ Closes(task)],
   supplies    |-> w.supplies - Consumes(task, w.supplies)]

\* The effect of calling a task's function on the workflow state w, a record
\* of the two variables the six functions write; a call of a task that is not
\* enabled fails its require and changes nothing.
CallTask(w, task, inst) ==
  IF task \in w.tasks_state[inst]
  THEN [tasks_state |-> [w.tasks_state EXCEPT
                           ![inst] = (@ \cup Opens(task, w.supplies)) \ Closes(task)],
        supplies    |-> w.supplies - Consumes(task, w.supplies)]
  ELSE w

\* getParticipantsByTask(inst, task)[1]: the role that receives the task.
Receiver(inst, task) == participants[inst][rolesToTask[task][2]]

-----------------------------------------------------------------------------
WorkflowInit ==
  /\ instancesCount = 0
  /\ tasks_state = [i \in InstanceIds |-> {}]
  /\ participants = [i \in InstanceIds |-> [r \in Roles |-> NoAddress]]
  /\ supplies = 1

newInstance(customer, store, delivery) ==
  /\ instancesCount < MaxInstances
  /\ instancesCount' = instancesCount + 1
  /\ tasks_state' = [tasks_state EXCEPT ![instancesCount'] = @ \cup {"purchaseOrder"}]
  /\ participants' = [participants EXCEPT ![instancesCount'] =
                        [Customer |-> customer, Store |-> store, Delivery |-> delivery]]
  /\ UNCHANGED supplies

\* A direct call of one of the six task functions: they check the flag of the
\* task and nothing about the caller.
performTask(task, inst) ==
  /\ task \in tasks_state[inst]
  /\ LET w == CallTask([tasks_state |-> tasks_state, supplies |-> supplies], task, inst)
     IN  /\ tasks_state' = w.tasks_state
         /\ supplies' = w.supplies
  /\ UNCHANGED <<instancesCount, participants>>

resetSupplies(n) ==
  /\ supplies' = n
  /\ UNCHANGED <<instancesCount, tasks_state, participants>>

\* Mutant of resetState: the flags of the other tasks are not cleared.
resetStateAddsOnly(inst) ==
  /\ tasks_state' = [tasks_state EXCEPT ![inst] = @ \cup {"purchaseOrder"}]
  /\ UNCHANGED <<instancesCount, participants, supplies>>

\* Any instance number is taken, that of an instance not created yet included.
resetState(inst) ==
  /\ tasks_state' = [tasks_state EXCEPT ![inst] = {"purchaseOrder"}]
  /\ UNCHANGED <<instancesCount, participants, supplies>>

WorkflowNext ==
  \/ \E c, s, d \in Addresses : newInstance(c, s, d)
  \/ \E task \in Tasks, inst \in InstanceIds : performTask(task, inst)
  \/ \E n \in SupplyValues : resetSupplies(n)
  \/ \E inst \in InstanceIds : resetState(inst)

WorkflowSpec == WorkflowInit /\ [][WorkflowNext]_workflowVars

-----------------------------------------------------------------------------
WorkflowTypeOK ==
  /\ instancesCount \in 0..MaxInstances
  /\ tasks_state \in [InstanceIds -> SUBSET Tasks]
  /\ participants \in [InstanceIds -> [Roles -> Addresses \cup {NoAddress}]]
  /\ supplies \in Nat

\* The stages of the choreography: the sets of tasks that can be open together.
Stages == {{}, {"purchaseOrder"}, {"insufficientSupplies"}, {"deliveryDetails"},
           {"confirmShipping", "cancelOrder"}, {"itemDelivered"}}

\* An instance is in exactly one stage: no two of its tasks are open together
\* except the two branches of the choice between confirming and cancelling; an
\* order that was confirmed can no longer be cancelled.  This holds for a
\* contract whose instances exist from the start (OrderingContract).  It does
\* not hold of the workflow alone, where resetState opens an instance that is
\* not created yet and newInstance then adds a second purchaseOrder to it.
OneStage == \A i \in InstanceIds : tasks_state[i] \in Stages

\* Whatever functions are called, by whom and in which order, an instance is in
\* at most two stages at a time, and in one while it is not created: confirming
\* and cancelling are open together or not at all, and an instance that was
\* opened by resetState before it was created is doubled once, never more.
AtMostTwoStages ==
  \A i \in InstanceIds : \E s, t \in Stages :
    tasks_state[i] = s \cup t /\ (i > instancesCount => s = t)

\* Only creation doubles an instance: an instance in one stage leaves it for
\* another single stage, whatever is called, unless the step creates it after
\* it was reset (WorkflowNew.sol:130) and moved on.
OnlyCreationDoubles ==
  [][\A i \in InstanceIds :
       tasks_state[i] \in Stages /\ tasks_state'[i] \notin Stages =>
         /\ i = instancesCount' /\ i > instancesCount
         /\ ~(tasks_state[i] \subseteq {"purchaseOrder"})]_workflowVars

\* The tasks of an order that the store has accepted and not yet settled.
InDelivery == {"deliveryDetails", "confirmShipping", "cancelOrder", "itemDelivered"}

\* The orders that a step accepts.
Accepted == {i \in InstanceIds : /\ tasks_state[i] \cap InDelivery = {}
                                /\ tasks_state'[i] \cap InDelivery # {}}

\* A purchase is made again while an earlier order of the same instance is in
\* delivery: the instance is doubled.
OrderedTwice(i) ==
  "purchaseOrder" \in tasks_state[i] /\ tasks_state[i] \cap InDelivery # {}

\* An order leaves the shop only against a unit of the shared supplies: a step
\* that brings an instance into delivery takes one unit, and a unit is taken for
\* nothing else, except by the second purchase of a doubled instance, whose order
\* is lost in the first one.  Every other step that moves an order leaves the
\* supplies alone; one that moves none may restock them.
SuppliesPayForOrders ==
  [][\/ tasks_state' = tasks_state
     \/ Accepted = {} /\ supplies' = supplies
     \/ /\ supplies = supplies' + 1
        /\ \E i \in InstanceIds :
             Accepted = {i} \/ (Accepted = {} /\ OrderedTwice(i))]_workflowVars
=============================================================================
