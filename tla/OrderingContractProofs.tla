----------------------- MODULE OrderingContractProofs -----------------------
(***************************************************************************)
(* Theorems about WorkflowNew and about OrderingContract, which calls it,  *)
(* for any accounts, any number of process instances, interactions and     *)
(* blocks, any supply values, and votes of any length: their types and     *)
(* that an instance is always in one stage of the choreography; then that  *)
(* the contract keeps its accounts, implements InteractionLedger, and      *)
(* executes an interaction in a later block than that of its submission.   *)
(***************************************************************************)
EXTENDS OrderingContract, IdListProofs, FiniteSetTheorems

-----------------------------------------------------------------------------
(* The delivery workflow on its own.                                        *)

\* What calling a task's function does to the state of one instance keeps the
\* types of both variables; this is the whole effect of execute() too.
LEMMA CallTaskType ==
  ASSUME NEW ts \in [InstanceIds -> SUBSET Tasks], NEW stock \in Nat,
         NEW task \in Tasks, NEW inst \in InstanceIds
  PROVE  LET w == CallTask([tasks_state |-> ts, supplies |-> stock], task, inst)
         IN  /\ w.tasks_state \in [InstanceIds -> SUBSET Tasks]
             /\ w.supplies \in Nat
<1> DEFINE new == (ts[inst] \cup Opens(task, stock)) \ Closes(task)
<1>1. new \in SUBSET Tasks
  BY DEF Opens, Tasks
<1>2. [ts EXCEPT ![inst] = new] \in [InstanceIds -> SUBSET Tasks]
  BY <1>1
<1>3. stock - Consumes(task, stock) \in Nat
  BY DEF Consumes
<1> QED
  BY <1>2, <1>3 DEF CallTask

\* What calling an open task's function makes of a stage is a stage.
LEMMA TaskMovesStage ==
  ASSUME NEW s \in Stages, NEW stock \in Nat, NEW task \in Tasks, task \in s
  PROVE  (s \cup Opens(task, stock)) \ Closes(task) \in Stages
<1> DEFINE new == (s \cup Opens(task, stock)) \ Closes(task)
<1>1. CASE task = "purchaseOrder"
  <2>1. s = {"purchaseOrder"}
    BY <1>1 DEF Stages
  <2>2. new = IF stock > 0 THEN {"deliveryDetails"} ELSE {"insufficientSupplies"}
    BY <1>1, <2>1 DEF Opens, Closes
  <2> QED
    BY <2>2 DEF Stages
<1>2. CASE task = "insufficientSupplies"
  <2>1. s = {"insufficientSupplies"}
    BY <1>2 DEF Stages
  <2>2. new = {"purchaseOrder"}
    BY <1>2, <2>1 DEF Opens, Closes
  <2> QED
    BY <2>2 DEF Stages
<1>3. CASE task = "deliveryDetails"
  <2>1. s = {"deliveryDetails"}
    BY <1>3 DEF Stages
  <2>2. new = {"confirmShipping", "cancelOrder"}
    BY <1>3, <2>1 DEF Opens, Closes
  <2> QED
    BY <2>2 DEF Stages
<1>4. CASE task \in {"confirmShipping", "cancelOrder"}
  <2>1. s = {"confirmShipping", "cancelOrder"}
    BY <1>4 DEF Stages
  <2>2. new = IF task = "confirmShipping" THEN {"itemDelivered"} ELSE {"purchaseOrder"}
    BY <1>4, <2>1 DEF Opens, Closes
  <2> QED
    BY <2>2 DEF Stages
<1>5. CASE task = "itemDelivered"
  <2>1. s = {"itemDelivered"}
    BY <1>5 DEF Stages
  <2>2. new = {"purchaseOrder"}
    BY <1>5, <2>1 DEF Opens, Closes
  <2> QED
    BY <2>2 DEF Stages
<1> QED
  BY <1>1, <1>2, <1>3, <1>4, <1>5 DEF Tasks

\* A stage without the task has none of the tasks that its function closes.
LEMMA TaskSparesStage ==
  ASSUME NEW s \in Stages, NEW task \in Tasks, task \notin s
  PROVE  s \cap Closes(task) = {}
BY DEF Stages, Tasks, Closes

\* Calling a task's function moves the instance from a stage to a stage.
LEMMA CallTaskStage ==
  ASSUME NEW ts \in [InstanceIds -> Stages], NEW stock \in Nat,
         NEW task \in Tasks, NEW inst \in InstanceIds
  PROVE  CallTask([tasks_state |-> ts, supplies |-> stock], task, inst).tasks_state
           \in [InstanceIds -> Stages]
<1>1. task \in ts[inst] => (ts[inst] \cup Opens(task, stock)) \ Closes(task) \in Stages
  BY TaskMovesStage
<1> QED
  BY <1>1 DEF CallTask

\* The workflow keeps its types; in particular supplies, which purchaseOrder
\* decrements, never goes below zero (WorkflowNew.sol:42-44).
THEOREM WorkflowTypeCorrect == WorkflowSpec => []WorkflowTypeOK
<1>1. WorkflowInit => WorkflowTypeOK
  BY WorkflowAssumption DEF WorkflowInit, WorkflowTypeOK, InstanceIds
<1>2. WorkflowTypeOK /\ [WorkflowNext]_workflowVars => WorkflowTypeOK'
  <2> SUFFICES ASSUME WorkflowTypeOK, [WorkflowNext]_workflowVars
               PROVE  WorkflowTypeOK'
    OBVIOUS
  <2> USE WorkflowAssumption DEF WorkflowTypeOK, InstanceIds
  <2>1. ASSUME NEW c \in Addresses, NEW s \in Addresses, NEW d \in Addresses,
               newInstance(c, s, d)
        PROVE  WorkflowTypeOK'
    <3>1. instancesCount' \in 1..MaxInstances /\ instancesCount' \in 0..MaxInstances
      BY <2>1 DEF newInstance
    <3>2. tasks_state' \in [InstanceIds -> SUBSET Tasks]
      BY <2>1, <3>1 DEF newInstance, Tasks
    <3>3. [Customer |-> c, Store |-> s, Delivery |-> d]
            \in [Roles -> Addresses \cup {NoAddress}]
      BY DEF Roles
    <3>4. participants' \in [InstanceIds -> [Roles -> Addresses \cup {NoAddress}]]
      BY <2>1, <3>1, <3>3 DEF newInstance
    <3> QED
      BY <2>1, <3>1, <3>2, <3>4 DEF newInstance
  <2>2. ASSUME NEW task \in Tasks, NEW inst \in InstanceIds, performTask(task, inst)
        PROVE  WorkflowTypeOK'
    BY <2>2, CallTaskType DEF performTask
  <2>3. ASSUME NEW n \in SupplyValues, resetSupplies(n)
        PROVE  WorkflowTypeOK'
    BY <2>3 DEF resetSupplies
  <2>4. ASSUME NEW inst \in InstanceIds, resetState(inst)
        PROVE  WorkflowTypeOK'
    BY <2>4 DEF resetState, Tasks
  <2>5. CASE UNCHANGED workflowVars
    BY <2>5 DEF workflowVars
  <2> QED
    BY <2>1, <2>2, <2>3, <2>4, <2>5 DEF WorkflowNext
<1> QED
  BY <1>1, <1>2, PTL DEF WorkflowSpec

\* What a direct call of a task's function does, spelled out.
LEMMA PerformTaskEffect ==
  ASSUME WorkflowTypeOK, NEW task \in Tasks, NEW inst \in InstanceIds,
         performTask(task, inst)
  PROVE  /\ task \in tasks_state[inst]
         /\ tasks_state' = [tasks_state EXCEPT ![inst] =
                             (@ \cup Opens(task, supplies)) \ Closes(task)]
         /\ supplies' = supplies - Consumes(task, supplies)
         /\ instancesCount' = instancesCount
BY DEF performTask, CallTask

\* An instance is in at most two stages, whatever is called: confirming and
\* cancelling are open together or not at all, and resetState before newInstance
\* doubles an instance once at most (WorkflowNew.sol:39-110, 130-137).
THEOREM WorkflowTwoStages == WorkflowSpec => []AtMostTwoStages
<1> DEFINE At(ts, i, count) ==
             \E s, t \in Stages : ts[i] = s \cup t /\ (i > count => s = t)
<1>1. WorkflowInit => AtMostTwoStages
  <2>1. {} \in Stages
    BY DEF Stages
  <2> QED
    BY <2>1 DEF WorkflowInit, AtMostTwoStages
<1>2. WorkflowTypeOK /\ AtMostTwoStages /\ [WorkflowNext]_workflowVars => AtMostTwoStages'
  <2> SUFFICES ASSUME WorkflowTypeOK, AtMostTwoStages, [WorkflowNext]_workflowVars,
                      NEW i \in InstanceIds
               PROVE  At(tasks_state', i, instancesCount')
    BY DEF AtMostTwoStages
  <2>0. At(tasks_state, i, instancesCount) /\ tasks_state \in [InstanceIds -> SUBSET Tasks]
        /\ instancesCount \in Nat /\ supplies \in Nat /\ i \in Nat
    BY WorkflowAssumption DEF AtMostTwoStages, WorkflowTypeOK, InstanceIds
  <2> PICK s \in Stages, t \in Stages :
             tasks_state[i] = s \cup t /\ (i > instancesCount => s = t)
    BY <2>0
  <2>p. {"purchaseOrder"} \in Stages
    BY DEF Stages
  <2>1. ASSUME NEW c \in Addresses, NEW n \in Addresses, NEW d \in Addresses,
               newInstance(c, n, d)
        PROVE  At(tasks_state', i, instancesCount')
    <3>1. /\ instancesCount' = instancesCount + 1
          /\ tasks_state' = [tasks_state EXCEPT ![instancesCount'] = @ \cup {"purchaseOrder"}]
      BY <2>1 DEF newInstance
    <3>2. CASE i = instancesCount'
      <4>1. s = t /\ ~(i > instancesCount')
        BY <2>0, <3>1, <3>2
      <4>2. tasks_state'[i] = s \cup {"purchaseOrder"}
        BY <2>0, <3>1, <3>2, <4>1
      <4> QED
        BY <2>p, <4>1, <4>2
    <3>3. CASE i # instancesCount'
      <4>1. tasks_state'[i] = s \cup t
        BY <2>0, <3>1, <3>3
      <4>2. i > instancesCount' => i > instancesCount
        BY <2>0, <3>1
      <4> QED
        BY <4>1, <4>2
    <3> QED
      BY <3>2, <3>3
  <2>2. ASSUME NEW task \in Tasks, NEW inst \in InstanceIds, performTask(task, inst)
        PROVE  At(tasks_state', i, instancesCount')
    <3>1. /\ task \in tasks_state[inst]
          /\ tasks_state' = [tasks_state EXCEPT ![inst] =
                              (@ \cup Opens(task, supplies)) \ Closes(task)]
          /\ instancesCount' = instancesCount
      BY <2>2, PerformTaskEffect
    <3>2. CASE i # inst
      BY <2>0, <3>1, <3>2
    <3>3. CASE i = inst
      <4> DEFINE Moved(x) == IF task \in x
                             THEN (x \cup Opens(task, supplies)) \ Closes(task) ELSE x
      <4>1. tasks_state'[i] = (s \cup t \cup Opens(task, supplies)) \ Closes(task)
        BY <2>0, <3>1, <3>3
      <4>2. task \in s \/ task \in t
        BY <3>1, <3>3
      <4>3. (task \notin s => s \cap Closes(task) = {})
            /\ (task \notin t => t \cap Closes(task) = {})
        BY TaskSparesStage
      <4>4. tasks_state'[i] = Moved(s) \cup Moved(t)
        BY <4>1, <4>2, <4>3
      <4>5. Moved(s) \in Stages /\ Moved(t) \in Stages
        BY <2>0, TaskMovesStage
      <4>6. i > instancesCount' => Moved(s) = Moved(t)
        BY <3>1
      <4> HIDE DEF Moved
      <4> QED
        BY <4>4, <4>5, <4>6
    <3> QED
      BY <3>2, <3>3
  <2>3. ASSUME NEW n \in SupplyValues, resetSupplies(n)
        PROVE  At(tasks_state', i, instancesCount')
    BY <2>0, <2>3 DEF resetSupplies
  <2>4. ASSUME NEW inst \in InstanceIds, resetState(inst)
        PROVE  At(tasks_state', i, instancesCount')
    <3>1. tasks_state'[i] = (IF i = inst THEN {"purchaseOrder"} ELSE s \cup t)
          /\ instancesCount' = instancesCount
      BY <2>0, <2>4 DEF resetState
    <3>2. CASE i = inst
      BY <2>p, <3>1, <3>2
    <3>3. CASE i # inst
      BY <3>1, <3>3
    <3> QED
      BY <3>2, <3>3
  <2>5. CASE UNCHANGED workflowVars
    BY <2>0, <2>5 DEF workflowVars
  <2> QED
    BY <2>1, <2>2, <2>3, <2>4, <2>5 DEF WorkflowNext
<1> QED
  BY <1>1, <1>2, WorkflowTypeCorrect, PTL DEF WorkflowSpec

\* No call takes an instance out of a single stage but the creation of one that
\* was reset and ordered from before (WorkflowNew.sol:130-137).
THEOREM WorkflowDoubles == WorkflowSpec => OnlyCreationDoubles
<1> DEFINE Doubles == \A i \in InstanceIds :
             tasks_state[i] \in Stages /\ tasks_state'[i] \notin Stages =>
               /\ i = instancesCount' /\ i > instancesCount
               /\ ~(tasks_state[i] \subseteq {"purchaseOrder"})
<1>1. WorkflowTypeOK /\ [WorkflowNext]_workflowVars => [Doubles]_workflowVars
  <2> SUFFICES ASSUME WorkflowTypeOK, WorkflowNext, NEW i \in InstanceIds,
                      tasks_state[i] \in Stages, tasks_state'[i] \notin Stages
               PROVE  /\ i = instancesCount' /\ i > instancesCount
                      /\ ~(tasks_state[i] \subseteq {"purchaseOrder"})
    OBVIOUS
  <2>0. tasks_state \in [InstanceIds -> SUBSET Tasks] /\ instancesCount \in Nat
        /\ supplies \in Nat
    BY WorkflowAssumption DEF WorkflowTypeOK
  <2>p. {"purchaseOrder"} \in Stages
    BY DEF Stages
  <2>1. ASSUME NEW c \in Addresses, NEW n \in Addresses, NEW d \in Addresses,
               newInstance(c, n, d)
        PROVE  /\ i = instancesCount' /\ i > instancesCount
               /\ ~(tasks_state[i] \subseteq {"purchaseOrder"})
    <3>1. /\ instancesCount' = instancesCount + 1
          /\ tasks_state' = [tasks_state EXCEPT ![instancesCount'] = @ \cup {"purchaseOrder"}]
      BY <2>1 DEF newInstance
    <3>2. i = instancesCount'
      BY <2>0, <3>1
    <3>3. tasks_state'[i] = tasks_state[i] \cup {"purchaseOrder"}
      BY <2>0, <3>1, <3>2
    <3>4. tasks_state[i] \subseteq {"purchaseOrder"} => tasks_state'[i] = {"purchaseOrder"}
      BY <3>3
    <3> QED
      BY <2>0, <2>p, <3>1, <3>2, <3>4
  <2>2. ASSUME NEW task \in Tasks, NEW inst \in InstanceIds, performTask(task, inst)
        PROVE  FALSE
    <3>1. /\ task \in tasks_state[inst]
          /\ tasks_state' = [tasks_state EXCEPT ![inst] =
                              (@ \cup Opens(task, supplies)) \ Closes(task)]
      BY <2>2, PerformTaskEffect
    <3>2. i = inst
      BY <2>0, <3>1
    <3>3. tasks_state'[i] \in Stages
      BY <2>0, <3>1, <3>2, TaskMovesStage
    <3> QED
      BY <3>3
  <2>3. ASSUME NEW n \in SupplyValues, resetSupplies(n)
        PROVE  FALSE
    BY <2>3 DEF resetSupplies
  <2>4. ASSUME NEW inst \in InstanceIds, resetState(inst)
        PROVE  FALSE
    BY <2>0, <2>p, <2>4 DEF resetState
  <2> QED
    BY <2>1, <2>2, <2>3, <2>4 DEF WorkflowNext
<1> QED
  BY <1>1, WorkflowTypeCorrect, PTL DEF WorkflowSpec, OnlyCreationDoubles

\* A call accepts an order, and takes a unit, when it is a purchase with supplies;
\* no other call changes the supplies.
LEMMA PerformTaskPays ==
  ASSUME WorkflowTypeOK, NEW task \in Tasks, NEW inst \in InstanceIds,
         performTask(task, inst)
  PROVE  \/ Accepted = {} /\ supplies' = supplies
         \/ /\ supplies = supplies' + 1
            /\ \E i \in InstanceIds : Accepted = {i} \/ (Accepted = {} /\ OrderedTwice(i))
<1> DEFINE new == (tasks_state[inst] \cup Opens(task, supplies)) \ Closes(task)
<1>1. /\ task \in tasks_state[inst] /\ supplies \in Nat
      /\ tasks_state' = [tasks_state EXCEPT ![inst] = new]
      /\ supplies' = supplies - Consumes(task, supplies)
      /\ tasks_state \in [InstanceIds -> SUBSET Tasks]
  BY PerformTaskEffect DEF WorkflowTypeOK
<1>2. tasks_state'[inst] = new
  BY <1>1
<1>3. Accepted = IF tasks_state[inst] \cap InDelivery = {} /\ new \cap InDelivery # {}
                 THEN {inst} ELSE {}
  <2> HIDE DEF new
  <2>1. \A i \in InstanceIds : i # inst => tasks_state'[i] = tasks_state[i]
    BY <1>1
  <2> QED
    BY <1>2, <2>1 DEF Accepted
<1>4. CASE task = "purchaseOrder" /\ supplies > 0
  <2>1. "deliveryDetails" \in new \cap InDelivery
    BY <1>4 DEF Opens, Closes, InDelivery
  <2>2. supplies = supplies' + 1
    BY <1>1, <1>4 DEF Consumes
  <2>3. Accepted = {inst} \/ (Accepted = {} /\ OrderedTwice(inst))
    <3> HIDE DEF new
    <3> QED
      BY <1>1, <1>3, <1>4, <2>1 DEF OrderedTwice
  <2> QED
    BY <2>2, <2>3
<1>5. CASE task = "insufficientSupplies" \/ (task = "purchaseOrder" /\ ~(supplies > 0))
  <2>1. new \cap InDelivery \subseteq tasks_state[inst] \cap InDelivery
    BY <1>5 DEF Opens, InDelivery
  <2>2. supplies' = supplies
    BY <1>1, <1>5 DEF Consumes
  <2> HIDE DEF new
  <2> QED
    BY <1>3, <2>1, <2>2
<1>6. CASE task \in InDelivery
  <2>1. tasks_state[inst] \cap InDelivery # {}
    BY <1>1, <1>6
  <2>2. supplies' = supplies
    BY <1>1, <1>6 DEF Consumes, InDelivery
  <2> HIDE DEF new
  <2> QED
    BY <1>3, <2>1, <2>2
<1> QED
  BY <1>4, <1>5, <1>6 DEF Tasks, InDelivery

\* No order is accepted without a unit taken for it, and no unit is taken for
\* anything else but the second purchase of a doubled instance, however the
\* purchases of instances that share the supplies are interleaved
\* (WorkflowNew.sol:39-52, 130-137).
THEOREM WorkflowSuppliesPay == WorkflowSpec => SuppliesPayForOrders
<1> DEFINE Paid == \/ tasks_state' = tasks_state
                   \/ Accepted = {} /\ supplies' = supplies
                   \/ /\ supplies = supplies' + 1
                      /\ \E i \in InstanceIds :
                           Accepted = {i} \/ (Accepted = {} /\ OrderedTwice(i))
<1>1. WorkflowTypeOK /\ [WorkflowNext]_workflowVars => [Paid]_workflowVars
  <2> SUFFICES ASSUME WorkflowTypeOK, [WorkflowNext]_workflowVars PROVE [Paid]_workflowVars
    OBVIOUS
  <2>1. ASSUME NEW c \in Addresses, NEW s \in Addresses, NEW d \in Addresses,
               newInstance(c, s, d)
        PROVE  Accepted = {} /\ supplies' = supplies
    <3>1. tasks_state \in [InstanceIds -> SUBSET Tasks] /\ supplies' = supplies
      BY <2>1 DEF newInstance, WorkflowTypeOK
    <3>2. tasks_state' = [tasks_state EXCEPT ![instancesCount'] = @ \cup {"purchaseOrder"}]
      BY <2>1 DEF newInstance
    <3>3. \A i \in InstanceIds : tasks_state'[i] \cap InDelivery = tasks_state[i] \cap InDelivery
      BY <3>1, <3>2 DEF InDelivery
    <3> QED
      BY <3>1, <3>3 DEF Accepted
  <2>2. ASSUME NEW task \in Tasks, NEW inst \in InstanceIds, performTask(task, inst)
        PROVE  Paid
    BY <2>2, PerformTaskPays
  <2>3. ASSUME NEW n \in SupplyValues, resetSupplies(n)
        PROVE  tasks_state' = tasks_state
    BY <2>3 DEF resetSupplies
  <2>4. ASSUME NEW inst \in InstanceIds, resetState(inst)
        PROVE  Accepted = {} /\ supplies' = supplies
    <3>1. tasks_state \in [InstanceIds -> SUBSET Tasks]
      BY DEF WorkflowTypeOK
    <3>2. /\ tasks_state' = [tasks_state EXCEPT ![inst] = {"purchaseOrder"}]
          /\ supplies' = supplies
      BY <2>4 DEF resetState
    <3>3. \A i \in InstanceIds : tasks_state'[i] = tasks_state[i]
                                 \/ tasks_state'[i] \cap InDelivery = {}
      BY <3>1, <3>2 DEF InDelivery
    <3> QED
      BY <3>2, <3>3 DEF Accepted
  <2> QED
    BY <2>1, <2>2, <2>3, <2>4 DEF WorkflowNext
<1> QED
  BY <1>1, WorkflowTypeCorrect, PTL DEF WorkflowSpec, SuppliesPayForOrders

-----------------------------------------------------------------------------
(* The four loops of the contract: each of them leads from S[0] to S[n]    *)
(* when its iteration i leads from S[i-1] to S[i].                          *)

\* The loop of generate_domains (ConsensusContract.sol:61-93)
LEMMA LabelLoop ==
  ASSUME NEW s, Len(s.pending) \in Nat, NEW S, s \in S[0],
         \A i \in 1..Len(s.pending) : \A x \in S[i-1] : LabelStep(x, i) \in S[i]
  PROVE  IF s.domains = 0 THEN GenerateDomains(s) \in S[Len(s.pending)]
                          ELSE GenerateDomains(s) = s
<1> DEFINE n == Len(s.pending)
           init == s
           T == UNION {S[i] : i \in 0..n}
           step == [x \in T \X (1..n) |-> LabelStep(x[1], x[2])]
           Is(f) == f = [i \in 0..n |-> IF i = 0 THEN init ELSE LabelStep(f[i-1], i)]
           run == CHOOSE f : Is(f)
<1> HIDE DEF n, init, T, step, Is, run
<1>0. n \in Nat /\ n \in 0..n /\ init \in S[0]
  BY DEF n, init
<1>1. ASSUME NEW i \in 1..n, NEW x \in S[i-1]
      PROVE  step[<<x, i>>] = LabelStep(x, i)
  <2>1. i - 1 \in 0..n
    BY <1>0
  <2>2. x \in T
    BY <2>1 DEF T
  <2> QED
    BY <2>2 DEF step
<1>2. PICK f : IsRun(f, init, step, n) /\ \A i \in 0..n : f[i] \in S[i]
  <2>1. LeadsThrough(step, S, n)
    BY <1>1 DEF LeadsThrough, n
  <2> QED
    BY <1>0, <2>1, LoopExists
<1>3. Is(f)
  <2>1. ASSUME NEW i \in 0..n
        PROVE  f[i] = IF i = 0 THEN init ELSE LabelStep(f[i-1], i)
    <3>1. CASE i = 0
      BY <1>2, <3>1 DEF IsRun
    <3>2. CASE i # 0
      <4>1. i \in 1..n /\ i - 1 \in 0..n
        BY <1>0, <3>2
      <4> QED
        BY <1>1, <1>2, <3>2, <4>1 DEF IsRun
    <3> QED
      BY <3>1, <3>2
  <2>2. [i \in 0..n |-> f[i]] = [i \in 0..n |-> IF i = 0 THEN init ELSE LabelStep(f[i-1], i)]
    BY <2>1, Zenon
  <2> QED
    BY <1>2, <2>2 DEF IsRun, Is
<1>4. Is(run)
  BY <1>3 DEF run
<1>5. run[0] = init /\ \A i \in 1..n : run[i] = LabelStep(run[i-1], i)
  BY <1>0, <1>4 DEF Is
<1>6. \A i \in 0..n : run[i] \in S[i]
  BY <1>0, <1>5, LoopInvariant DEF n
<1>7. GenerateDomains(s) = IF s.domains = 0 THEN run[n] ELSE s
  BY DEF GenerateDomains, run, Is, n, init
<1> QED
  BY <1>0, <1>6, <1>7 DEF n

\* The loop of the conflict branch (ConsensusContract.sol:139-145)
LEMMA DropLoop ==
  ASSUME NEW s, NEW v, NEW domain, Len(s.pending) \in Nat, NEW S, s \in S[0],
         \A i \in 1..Len(s.pending) : \A x \in S[i-1] : DropStep(x, v, domain, i) \in S[i]
  PROVE  \E r \in S[Len(s.pending)] :
           Conflict(s, v, domain) = [r EXCEPT !.flagged = @ \cup {domain}]
<1> DEFINE n == Len(s.pending)
           init == s
           T == UNION {S[i] : i \in 0..n}
           step == [x \in T \X (1..n) |-> DropStep(x[1], v, domain, x[2])]
           Is(f) == f = [i \in 0..n |-> IF i = 0 THEN init ELSE DropStep(f[i-1], v, domain, i)]
           run == CHOOSE f : Is(f)
<1> HIDE DEF n, init, T, step, Is, run
<1>0. n \in Nat /\ n \in 0..n /\ init \in S[0]
  BY DEF n, init
<1>1. ASSUME NEW i \in 1..n, NEW x \in S[i-1]
      PROVE  step[<<x, i>>] = DropStep(x, v, domain, i)
  <2>1. i - 1 \in 0..n
    BY <1>0
  <2>2. x \in T
    BY <2>1 DEF T
  <2> QED
    BY <2>2 DEF step
<1>2. PICK f : IsRun(f, init, step, n) /\ \A i \in 0..n : f[i] \in S[i]
  <2>1. LeadsThrough(step, S, n)
    BY <1>1 DEF LeadsThrough, n
  <2> QED
    BY <1>0, <2>1, LoopExists
<1>3. Is(f)
  <2>1. ASSUME NEW i \in 0..n
        PROVE  f[i] = IF i = 0 THEN init ELSE DropStep(f[i-1], v, domain, i)
    <3>1. CASE i = 0
      BY <1>2, <3>1 DEF IsRun
    <3>2. CASE i # 0
      <4>1. i \in 1..n /\ i - 1 \in 0..n
        BY <1>0, <3>2
      <4> QED
        BY <1>1, <1>2, <3>2, <4>1 DEF IsRun
    <3> QED
      BY <3>1, <3>2
  <2>2. [i \in 0..n |-> f[i]] = [i \in 0..n |-> IF i = 0 THEN init ELSE DropStep(f[i-1], v, domain, i)]
    BY <2>1, Zenon
  <2> QED
    BY <1>2, <2>2 DEF IsRun, Is
<1>4. Is(run)
  BY <1>3 DEF run
<1>5. run[0] = init /\ \A i \in 1..n : run[i] = DropStep(run[i-1], v, domain, i)
  BY <1>0, <1>4 DEF Is
<1>6. \A i \in 0..n : run[i] \in S[i]
  BY <1>0, <1>5, LoopInvariant DEF n
<1>7. Conflict(s, v, domain) = [run[n] EXCEPT !.flagged = @ \cup {domain}]
  BY DEF Conflict, run, Is, n, init
<1> QED
  BY <1>0, <1>6, <1>7 DEF n

\* The loop of order_interactions (ConsensusContract.sol:128-158)
LEMMA VoteLoop ==
  ASSUME NEW s, NEW orderer, NEW vote, Len(vote) \in Nat, NEW S, [s |-> s, anchor |-> HEAD, taken |-> 0, broken |-> FALSE] \in S[0],
         \A i \in 1..Len(vote) : \A x \in S[i-1] : VoteStep(x, orderer, vote, i) \in S[i]
  PROVE  Vote(s, orderer, vote) \in S[Len(vote)]
<1> DEFINE n == Len(vote)
           init == [s |-> s, anchor |-> HEAD, taken |-> 0, broken |-> FALSE]
           T == UNION {S[i] : i \in 0..n}
           step == [x \in T \X (1..n) |-> VoteStep(x[1], orderer, vote, x[2])]
           Is(f) == f = [i \in 0..n |-> IF i = 0 THEN init ELSE VoteStep(f[i-1], orderer, vote, i)]
           run == CHOOSE f : Is(f)
<1> HIDE DEF n, init, T, step, Is, run
<1>0. n \in Nat /\ n \in 0..n /\ init \in S[0]
  BY DEF n, init
<1>1. ASSUME NEW i \in 1..n, NEW x \in S[i-1]
      PROVE  step[<<x, i>>] = VoteStep(x, orderer, vote, i)
  <2>1. i - 1 \in 0..n
    BY <1>0
  <2>2. x \in T
    BY <2>1 DEF T
  <2> QED
    BY <2>2 DEF step
<1>2. PICK f : IsRun(f, init, step, n) /\ \A i \in 0..n : f[i] \in S[i]
  <2>1. LeadsThrough(step, S, n)
    BY <1>1 DEF LeadsThrough, n
  <2> QED
    BY <1>0, <2>1, LoopExists
<1>3. Is(f)
  <2>1. ASSUME NEW i \in 0..n
        PROVE  f[i] = IF i = 0 THEN init ELSE VoteStep(f[i-1], orderer, vote, i)
    <3>1. CASE i = 0
      BY <1>2, <3>1 DEF IsRun
    <3>2. CASE i # 0
      <4>1. i \in 1..n /\ i - 1 \in 0..n
        BY <1>0, <3>2
      <4> QED
        BY <1>1, <1>2, <3>2, <4>1 DEF IsRun
    <3> QED
      BY <3>1, <3>2
  <2>2. [i \in 0..n |-> f[i]] = [i \in 0..n |-> IF i = 0 THEN init ELSE VoteStep(f[i-1], orderer, vote, i)]
    BY <2>1, Zenon
  <2> QED
    BY <1>2, <2>2 DEF IsRun, Is
<1>4. Is(run)
  BY <1>3 DEF run
<1>5. run[0] = init /\ \A i \in 1..n : run[i] = VoteStep(run[i-1], orderer, vote, i)
  BY <1>0, <1>4 DEF Is
<1>6. \A i \in 0..n : run[i] \in S[i]
  BY <1>0, <1>5, LoopInvariant DEF n
<1>7. Vote(s, orderer, vote) = run[n]
  BY DEF Vote, run, Is, n, init
<1> QED
  BY <1>0, <1>6, <1>7 DEF n

\* The loop of execute_interactions (ConsensusContract.sol:172-190)
LEMMA WalkRun ==
  ASSUME NEW s, Len(s.list) \in Nat, NEW S,
         [s |-> s, node |-> getNextNode(s.list, HEAD)] \in S[0],
         \A i \in 1..Len(s.list) : \A x \in S[i-1] : WalkStep(x) \in S[i]
  PROVE  \E f : /\ f[0] = [s |-> s, node |-> getNextNode(s.list, HEAD)]
                /\ \A i \in 1..Len(s.list) : f[i] = WalkStep(f[i-1])
                /\ \A i \in 0..Len(s.list) : f[i] \in S[i]
                /\ Execute(s) = f[Len(s.list)].s
<1> DEFINE n == Len(s.list)
           init == [s |-> s, node |-> getNextNode(s.list, HEAD)]
           T == UNION {S[i] : i \in 0..n}
           step == [x \in T \X (1..n) |-> WalkStep(x[1])]
           Is(f) == f = [i \in 0..n |-> IF i = 0 THEN init ELSE WalkStep(f[i-1])]
           run == CHOOSE f : Is(f)
<1> HIDE DEF n, init, T, step, Is, run
<1>0. n \in Nat /\ n \in 0..n /\ init \in S[0]
  BY DEF n, init
<1>1. ASSUME NEW i \in 1..n, NEW x \in S[i-1]
      PROVE  step[<<x, i>>] = WalkStep(x)
  <2>1. i - 1 \in 0..n
    BY <1>0
  <2>2. x \in T
    BY <2>1 DEF T
  <2> QED
    BY <2>2 DEF step
<1>2. PICK f : IsRun(f, init, step, n) /\ \A i \in 0..n : f[i] \in S[i]
  <2>1. LeadsThrough(step, S, n)
    BY <1>1 DEF LeadsThrough, n
  <2> QED
    BY <1>0, <2>1, LoopExists
<1>3. Is(f)
  <2>1. ASSUME NEW i \in 0..n
        PROVE  f[i] = IF i = 0 THEN init ELSE WalkStep(f[i-1])
    <3>1. CASE i = 0
      BY <1>2, <3>1 DEF IsRun
    <3>2. CASE i # 0
      <4>1. i \in 1..n /\ i - 1 \in 0..n
        BY <1>0, <3>2
      <4> QED
        BY <1>1, <1>2, <3>2, <4>1 DEF IsRun
    <3> QED
      BY <3>1, <3>2
  <2>2. [i \in 0..n |-> f[i]] = [i \in 0..n |-> IF i = 0 THEN init ELSE WalkStep(f[i-1])]
    BY <2>1, Zenon
  <2> QED
    BY <1>2, <2>2 DEF IsRun, Is
<1>4. Is(run)
  BY <1>3 DEF run
<1>5. run[0] = init /\ \A i \in 1..n : run[i] = WalkStep(run[i-1])
  BY <1>0, <1>4 DEF Is
<1>6. \A i \in 0..n : run[i] \in S[i]
  BY <1>0, <1>5, LoopInvariant DEF n
<1>7. Execute(s) = run[n].s
  BY DEF Execute, run, Is, n, init
<1> QED
  BY <1>5, <1>6, <1>7 DEF n, init

-----------------------------------------------------------------------------
(* Types.                                                                   *)

\* What a list may hold.
ListIds == Nat \ {0}

\* The type of the storage record the loops work on.
Storages ==
  [ok : BOOLEAN, pending : Seq(Interactions), list : Seq(ListIds), domains : Nat,
   flagged : SUBSET Int, tasks_state : [InstanceIds -> SUBSET Tasks],
   supplies : Nat, executed : Seq(ListIds)]

\* Labelling an interaction and its neighbours keeps the types of the storage
\* and the number of pending interactions (ConsensusContract.sol:61-93).
LEMMA LabelStepType ==
  ASSUME NEW s \in Storages, NEW i \in 1..Len(s.pending)
  PROVE  /\ LabelStep(s, i) \in Storages
         /\ Len(LabelStep(s, i).pending) = Len(s.pending)
<1> DEFINE fresh == s.pending[i].domain = Unlabelled
           label == IF fresh THEN s.domains ELSE s.pending[i].domain
           near  == Neighbours(s.pending, i)
           pend  == [j \in DOMAIN s.pending |->
                       IF j = i \/ j \in near THEN [s.pending[j] EXCEPT !.domain = label]
                                              ELSE s.pending[j]]
           lst   == IF near = {} THEN PushFront(s.list, s.pending[i].id) ELSE s.list
           doms  == IF fresh THEN s.domains + 1 ELSE s.domains
<1>1. /\ s.pending \in Seq(Interactions)
      /\ DOMAIN s.pending = 1..Len(s.pending)
      /\ Len(s.pending) \in Nat
      /\ \A j \in 1..Len(s.pending) : s.pending[j] \in Interactions
      /\ s.list \in Seq(ListIds)
      /\ s.domains \in Nat
  BY DEF Storages
<1>2. label \in Int
  <2>1. s.pending[i].domain \in Int
    BY <1>1 DEF Interactions
  <2> QED
    BY <1>1, <2>1
<1>3. \A j \in 1..Len(s.pending) : [s.pending[j] EXCEPT !.domain = label] \in Interactions
  <2> HIDE DEF label
  <2> QED
    BY <1>1, <1>2 DEF Interactions
<1>4. pend \in Seq(Interactions) /\ Len(pend) = Len(s.pending)
  <2> HIDE DEF label, near
  <2>1. pend \in [1..Len(s.pending) -> Interactions]
    BY <1>1, <1>3
  <2> HIDE DEF pend
  <2> QED
    BY <1>1, <2>1, FunctionIsSeq
<1>5. lst \in Seq(ListIds)
  <2>1. s.pending[i].id \in ListIds
    BY <1>1 DEF Interactions, ListIds
  <2> QED
    BY <1>1, <2>1, InsertAfterType DEF PushFront
<1>6. LabelStep(s, i) = [s EXCEPT !.pending = pend, !.domains = doms, !.list = lst]
  BY DEF LabelStep
<1>7. doms \in Nat
  BY <1>1
<1> HIDE DEF pend, lst, doms
<1> QED
  BY <1>4, <1>5, <1>6, <1>7 DEF Storages

\* generate_domains keeps the types of the storage (ConsensusContract.sol:60-95).
LEMMA GenerateDomainsType ==
  ASSUME NEW s \in Storages
  PROVE  GenerateDomains(s) \in Storages
<1> DEFINE n == Len(s.pending)
           Same == {t \in Storages : Len(t.pending) = n}
           S == [i \in 0..n |-> Same]
<1>1. n \in Nat
  BY DEF Storages
<1>2. s \in S[0]
  BY <1>1
<1>3. ASSUME NEW i \in 1..n, NEW x \in S[i-1]
      PROVE  LabelStep(x, i) \in S[i]
  <2>1. i \in 0..n /\ i - 1 \in 0..n
    BY <1>1
  <2>2. x \in Storages /\ Len(x.pending) = n
    BY <2>1
  <2>3. LabelStep(x, i) \in Storages /\ Len(LabelStep(x, i).pending) = n
    BY <2>2, LabelStepType
  <2> QED
    BY <2>1, <2>3
<1> HIDE DEF S
<1>4. GenerateDomains(s) = s \/ GenerateDomains(s) \in S[n]
  BY <1>1, <1>2, <1>3, LabelLoop
<1> QED
  BY <1>1, <1>4 DEF S

\* removeInteraction leaves an array of interactions (ConsensusContract.sol:329-336).
LEMMA RemoveInteractionType ==
  ASSUME NEW pending \in Seq(Interactions), NEW i \in 1..Len(pending)
  PROVE  removeInteraction(pending, i) \in Seq(Interactions)
BY RemoveAtShape DEF removeInteraction

\* An iteration of the conflict branch keeps the types, also when it indexes
\* out of range and reverts (ConsensusContract.sol:139-145).
LEMMA DropStepType ==
  ASSUME NEW s \in Storages, NEW v \in Nat \ {0}, NEW domain, NEW j \in Nat \ {0}
  PROVE  DropStep(s, v, domain, j) \in Storages
<1>1. /\ s.pending \in Seq(Interactions) /\ Len(s.pending) \in Nat
      /\ s.list \in Seq(ListIds)
  BY DEF Storages
<1>2. CASE ~s.ok \/ j > Len(s.pending)
  BY <1>2 DEF DropStep
<1>3. CASE s.ok /\ j <= Len(s.pending) /\ v > Len(s.pending)
  BY <1>1, <1>3 DEF DropStep, Storages
<1>4. CASE s.ok /\ j <= Len(s.pending) /\ v <= Len(s.pending)
  <2>1. RemoveNode(s.list, s.pending[v].id) \in Seq(ListIds)
    BY <1>1, RemoveNodeType DEF ListIds, HEAD
  <2>2. removeInteraction(s.pending, j) \in Seq(Interactions)
    BY <1>1, <1>4, RemoveInteractionType
  <2> QED
    BY <1>1, <1>4, <2>1, <2>2 DEF DropStep, Storages
<1> QED
  BY <1>1, <1>2, <1>3, <1>4

\* So does the whole conflict branch (ConsensusContract.sol:136-151).
LEMMA ConflictType ==
  ASSUME NEW s \in Storages, NEW v \in Nat \ {0}, NEW domain \in Int
  PROVE  Conflict(s, v, domain) \in Storages
<1> DEFINE n == Len(s.pending)
           S == [i \in 0..n |-> Storages]
<1>1. n \in Nat
  BY DEF Storages
<1>2. s \in S[0]
  BY <1>1
<1>3. ASSUME NEW i \in 1..n, NEW x \in S[i-1]
      PROVE  DropStep(x, v, domain, i) \in S[i]
  <2>1. i \in 0..n /\ i - 1 \in 0..n /\ i \in Nat \ {0}
    BY <1>1
  <2>2. x \in Storages
    BY <2>1
  <2>3. DropStep(x, v, domain, i) \in Storages
    BY <2>1, <2>2, DropStepType
  <2> QED
    BY <2>1, <2>3
<1> HIDE DEF S
<1>4. PICK r \in S[n] : Conflict(s, v, domain) = [r EXCEPT !.flagged = @ \cup {domain}]
  BY <1>1, <1>2, <1>3, DropLoop
<1>5. r \in Storages
  BY <1>1, <1>4 DEF S
<1>6. r.flagged \in SUBSET Int
  BY <1>5 DEF Storages
<1>7. r.flagged \cup {domain} \in SUBSET Int
  BY <1>6
<1>8. [r EXCEPT !.flagged = r.flagged \cup {domain}] \in Storages
  <2> DEFINE f == r.flagged \cup {domain}
  <2>1. f \in SUBSET Int
    BY <1>7
  <2> HIDE DEF f
  <2>2. [r EXCEPT !.flagged = f] \in Storages
    BY <1>5, <2>1 DEF Storages
  <2> QED
    BY <2>2 DEF f
<1> QED
  BY <1>4, <1>8

\* The type of the record the vote loop works on.
Merges == [s : Storages, anchor : Nat, taken : Nat, broken : BOOLEAN]

\* What fetch_interaction_by_id finds.
LEMMA IndexOfPending ==
  ASSUME NEW pending \in Seq(Interactions), NEW id \in Ids(pending)
  PROVE  /\ IndexOf(pending, id) \in 1..Len(pending)
         /\ pending[IndexOf(pending, id)] \in Interactions
         /\ pending[IndexOf(pending, id)].id = id
<1>1. \E i \in DOMAIN pending : pending[i].id = id
  BY DEF Ids
<1>2. DOMAIN pending = 1..Len(pending)
  OBVIOUS
<1>3. IndexOf(pending, id) \in 1..Len(pending) /\ pending[IndexOf(pending, id)].id = id
  BY <1>1, <1>2 DEF IndexOf
<1> QED
  BY <1>3

\* Taking one entry of a vote keeps the types, whichever of its branches is
\* taken (ConsensusContract.sol:128-158).
LEMMA VoteStepType ==
  ASSUME NEW b \in Merges, NEW orderer, NEW vote \in Seq(ListIds), NEW v \in 1..Len(vote)
  PROVE  VoteStep(b, orderer, vote, v) \in Merges
<1> DEFINE id == vote[v]
           p == b.s.pending[IndexOf(b.s.pending, id)]
<1>1. /\ b.s \in Storages /\ id \in ListIds /\ v \in Nat \ {0}
      /\ b.s.pending \in Seq(Interactions) /\ b.s.list \in Seq(ListIds)
  BY DEF Merges, Storages
<1> HIDE DEF id, p
<1>2. CASE b.broken \/ ~b.s.ok
  BY <1>2 DEF VoteStep
<1>3. CASE ~(b.broken \/ ~b.s.ok) /\ (id \notin Ids(b.s.pending) \/ orderer \notin Involved(p))
  <2>1. VoteStep(b, orderer, vote, v) = [b EXCEPT !.s.ok = FALSE]
    BY <1>3 DEF VoteStep, id, p
  <2>2. [b.s EXCEPT !.ok = FALSE] \in Storages
    BY <1>1 DEF Storages
  <2> QED
    BY <2>1, <2>2 DEF Merges
<1>4. CASE /\ ~(b.broken \/ ~b.s.ok)
           /\ ~(id \notin Ids(b.s.pending) \/ orderer \notin Involved(p))
           /\ Listed(b.s.list, id) /\ ~is_after(b.s.list, b.anchor, id)
  <2>1. VoteStep(b, orderer, vote, v) =
          [b EXCEPT !.s = Conflict(b.s, v, p.domain), !.broken = TRUE]
    BY <1>4 DEF VoteStep, id, p
  <2>2. p \in Interactions
    BY <1>1, <1>4, IndexOfPending DEF p
  <2>3. p.domain \in Int
    BY <2>2 DEF Interactions
  <2>4. Conflict(b.s, v, p.domain) \in Storages
    BY <1>1, <2>3, ConflictType
  <2> QED
    BY <2>1, <2>4 DEF Merges
<1>5. CASE /\ ~(b.broken \/ ~b.s.ok)
           /\ ~(id \notin Ids(b.s.pending) \/ orderer \notin Involved(p))
           /\ ~(Listed(b.s.list, id) /\ ~is_after(b.s.list, b.anchor, id))
  <2>1. VoteStep(b, orderer, vote, v) =
          [b EXCEPT !.s.list = InsertAfter(b.s.list, b.anchor, id), !.anchor = id, !.taken = v]
    BY <1>5 DEF VoteStep, id, p
  <2>2. InsertAfter(b.s.list, b.anchor, id) \in Seq(ListIds)
    BY <1>1, InsertAfterType
  <2>3. [b.s EXCEPT !.list = InsertAfter(b.s.list, b.anchor, id)] \in Storages
    BY <1>1, <2>2 DEF Storages
  <2>4. id \in Nat
    BY <1>1 DEF ListIds
  <2> QED
    BY <1>1, <2>1, <2>3, <2>4 DEF Merges
<1> QED
  BY <1>2, <1>3, <1>4, <1>5

\* So does taking a whole vote.
LEMMA VoteType ==
  ASSUME NEW s \in Storages, NEW orderer, NEW vote \in Seq(ListIds)
  PROVE  Vote(s, orderer, vote) \in Merges
<1> DEFINE n == Len(vote)
           S == [i \in 0..n |-> Merges]
<1>1. n \in Nat
  OBVIOUS
<1>2. [s |-> s, anchor |-> HEAD, taken |-> 0, broken |-> FALSE] \in S[0]
  BY <1>1 DEF Merges, HEAD
<1>3. ASSUME NEW i \in 1..n, NEW x \in S[i-1]
      PROVE  VoteStep(x, orderer, vote, i) \in S[i]
  <2>1. i \in 0..n /\ i - 1 \in 0..n
    BY <1>1
  <2>2. x \in Merges
    BY <2>1
  <2>3. VoteStep(x, orderer, vote, i) \in Merges
    BY <2>2, VoteStepType
  <2> QED
    BY <2>1, <2>3
<1> HIDE DEF S
<1>4. Vote(s, orderer, vote) \in S[n]
  BY <1>1, <1>2, <1>3, VoteLoop
<1> QED
  BY <1>1, <1>4 DEF S

\* Executing one interaction of the list keeps the types of the storage and of
\* the workflow it calls (ConsensusContract.sol:174-190).
LEMMA ExecuteStepType ==
  ASSUME NEW s \in Storages, NEW id \in Nat
  PROVE  ExecuteStep(s, id) \in Storages
<1> DEFINE i == IndexOf(s.pending, id)
           p == s.pending[i]
           w == CallTask([tasks_state |-> s.tasks_state, supplies |-> s.supplies],
                         p.task, p.instance)
<1>1. /\ s.pending \in Seq(Interactions) /\ s.list \in Seq(ListIds)
      /\ s.tasks_state \in [InstanceIds -> SUBSET Tasks] /\ s.supplies \in Nat
      /\ s.executed \in Seq(ListIds)
  BY DEF Storages
<1> HIDE DEF i, p, w
<1>2. CASE ~s.ok \/ id \notin Ids(s.pending)
  <2>1. ExecuteStep(s, id) = [s EXCEPT !.ok = FALSE]
    BY <1>2 DEF ExecuteStep
  <2> QED
    BY <2>1 DEF Storages
<1>3. CASE ~(~s.ok \/ id \notin Ids(s.pending)) /\ p.domain \in s.flagged
  BY <1>3 DEF ExecuteStep, i, p
<1>4. CASE ~(~s.ok \/ id \notin Ids(s.pending)) /\ p.domain \notin s.flagged
  <2>1. i \in 1..Len(s.pending) /\ p \in Interactions
    BY <1>1, <1>4, IndexOfPending DEF i, p
  <2>2. p.task \in Tasks /\ p.instance \in InstanceIds
    BY <2>1 DEF Interactions
  <2>3. w.tasks_state \in [InstanceIds -> SUBSET Tasks] /\ w.supplies \in Nat
    BY <1>1, <2>2, CallTaskType DEF w
  <2>4. RemoveNode(s.list, id) \in Seq(ListIds)
    BY <1>1, RemoveNodeType DEF ListIds, HEAD
  <2>5. removeInteraction(s.pending, i) \in Seq(Interactions)
    BY <1>1, <2>1, RemoveInteractionType
  <2>6. Append(s.executed, id) \in Seq(ListIds)
    <3>1. p.id = id
      BY <1>1, <1>4, IndexOfPending DEF i, p
    <3>2. id \in ListIds
      BY <2>1, <3>1 DEF Interactions, ListIds
    <3> QED
      BY <1>1, <3>2
  <2>7. ExecuteStep(s, id) =
          [s EXCEPT !.tasks_state = w.tasks_state, !.supplies = w.supplies,
                    !.list = RemoveNode(s.list, id),
                    !.pending = removeInteraction(s.pending, i),
                    !.executed = Append(s.executed, id)]
    BY <1>4 DEF ExecuteStep, i, p, w
  <2> QED
    BY <2>3, <2>4, <2>5, <2>6, <2>7 DEF Storages
<1> QED
  BY <1>2, <1>3, <1>4

\* The walk stands on a number, and on what an iteration keeps whatever the node.
LEMMA ExecuteKeeps ==
  ASSUME NEW T \in SUBSET Storages, NEW s \in T,
         \A x \in T, id \in Nat : ExecuteStep(x, id) \in T
  PROVE  Execute(s) \in T
<1> DEFINE n == Len(s.list)
           S == [i \in 0..n |-> [s : T, node : Nat]]
<1>1. s \in Storages /\ n \in Nat
  <2>1. s \in Storages
    OBVIOUS
  <2>2. s.list \in Seq(ListIds)
    BY <2>1 DEF Storages
  <2> QED
    BY <2>1, <2>2
<1>2. \A x \in T, node \in Nat : getNextNode(x.list, node) \in Nat
  <2> SUFFICES ASSUME NEW x \in T, NEW node \in Nat PROVE getNextNode(x.list, node) \in Nat
    OBVIOUS
  <2>1. x \in Storages
    OBVIOUS
  <2>2. x.list \in Seq(ListIds)
    BY <2>1 DEF Storages
  <2> QED
    BY <2>2, NextNodeType DEF ListIds
<1>3. [s |-> s, node |-> getNextNode(s.list, HEAD)] \in S[0]
  <2>1. 0 \in 0..n /\ HEAD \in Nat
    BY <1>1 DEF HEAD
  <2>2. getNextNode(s.list, HEAD) \in Nat
    BY <1>2, <2>1
  <2> QED
    BY <2>1, <2>2
<1>4. ASSUME NEW i \in 1..n, NEW x \in S[i-1]
      PROVE  WalkStep(x) \in S[i]
  <2>1. i \in 0..n /\ i - 1 \in 0..n
    BY <1>1
  <2>2. x.s \in T /\ x.node \in Nat
    BY <2>1
  <2>3. ExecuteStep(x.s, x.node) \in T /\ getNextNode(x.s.list, x.node) \in Nat
    BY <1>2, <2>2
  <2> QED
    BY <2>1, <2>3 DEF WalkStep
<1> HIDE DEF S
<1>5. PICK f : /\ \A i \in 0..n : f[i] \in S[i]
               /\ Execute(s) = f[n].s
  BY <1>1, <1>3, <1>4, WalkRun
<1>6. f[n] \in [s : T, node : Nat]
  <2>1. n \in 0..n
    BY <1>1
  <2> QED
    BY <1>5, <2>1 DEF S
<1> QED
  BY <1>5, <1>6

\* So does executing the whole list (ConsensusContract.sol:168-191).
LEMMA ExecuteType ==
  ASSUME NEW s \in Storages
  PROVE  Execute(s) \in Storages
BY ExecuteStepType, ExecuteKeeps

-----------------------------------------------------------------------------
(* The walk visits the entries of the list it starts with, one after the    *)
(* other, although each iteration may unlink the node it stands on.         *)

\* After i iterations the list ends with the entries of o not visited yet, and
\* the walk stands on the first of them.
StillToVisit(o, i, l, node) ==
  /\ l \in Seq(ListIds) /\ Distinct(l)
  /\ i < Len(o) => node = o[i+1]
  /\ \E p \in Nat : /\ Len(l) = p + (Len(o) - i)
                    /\ \A m \in 1..(Len(o) - i) : l[p + m] = o[i + m]

\* An iteration keeps its node or removes it; the next node is the same.
LEMMA WalkAdvances ==
  ASSUME NEW o \in Seq(ListIds), NEW i \in 1..Len(o), NEW l, NEW node,
         StillToVisit(o, i-1, l, node)
  PROVE  /\ node = o[i]
         /\ StillToVisit(o, i, l, getNextNode(l, node))
         /\ StillToVisit(o, i, RemoveNode(l, node), getNextNode(l, node))
<1> DEFINE n == Len(o)
           next == getNextNode(l, node)
           r == RemoveNode(l, node)
<1>1. /\ l \in Seq(ListIds) /\ Distinct(l) /\ Len(l) \in Nat /\ n \in Nat
      /\ i \in Nat /\ i >= 1 /\ i <= n /\ n - (i-1) = n - i + 1 /\ (i-1) + 1 = i
  BY DEF StillToVisit
<1>2. node = o[i] /\ node \in ListIds
  BY <1>1 DEF StillToVisit
<1>3. PICK p \in Nat : /\ Len(l) = p + (n - i + 1)
                       /\ \A m \in 1..(n - i + 1) : l[p + m] = o[i - 1 + m]
  BY <1>1 DEF StillToVisit
<1> HIDE DEF n
<1>4. p + 1 \in 1..Len(l) /\ l[p + 1] = node
  <2>1. 1 \in 1..(n - i + 1) /\ i - 1 + 1 = i
    BY <1>1
  <2> QED
    BY <1>1, <1>2, <1>3, <2>1
<1>5. Listed(l, node) /\ node # HEAD /\ HEAD \notin ListIds
  BY <1>1, <1>2, <1>4, ListedAt DEF ListIds, HEAD
<1>6. Pos(l, node) = p + 1
  BY <1>1, <1>4, <1>5, PosOfListed DEF Distinct
<1>7. i < n => next = o[i+1]
  <2> SUFFICES ASSUME i < n PROVE next = o[i+1]
    OBVIOUS
  <2>1. p + 1 < Len(l)
    BY <1>1, <1>3
  <2>2. next = l[p + 2]
    BY <1>5, <1>6, <2>1 DEF getNextNode, NodeExists
  <2>3. 2 \in 1..(n - i + 1) /\ i - 1 + 2 = i + 1
    BY <1>1
  <2> QED
    BY <1>3, <2>2, <2>3
<1>8. \A m \in 1..(n - i) : l[p + 1 + m] = o[i + m]
  <2> SUFFICES ASSUME NEW m \in 1..(n - i) PROVE l[p + 1 + m] = o[i + m]
    OBVIOUS
  <2>1. m + 1 \in 1..(n - i + 1) /\ p + (m + 1) = p + 1 + m /\ i - 1 + (m + 1) = i + m
    BY <1>1
  <2> QED
    BY <1>3, <2>1
<1>9. StillToVisit(o, i, l, next)
  <2>1. p + 1 \in Nat /\ Len(l) = p + 1 + (n - i)
    BY <1>1, <1>3
  <2> HIDE DEF next
  <2> QED
    BY <1>1, <1>7, <1>8, <2>1 DEF StillToVisit, n
<1>10. StillToVisit(o, i, r, next)
  <2>1. r = RemoveAt(l, p + 1)
    BY <1>5, <1>6 DEF RemoveNode
  <2>2. /\ r \in Seq(ListIds) /\ Len(r) = Len(l) - 1
        /\ \A k \in 1..(Len(l) - 1) : r[k] = IF k < p + 1 THEN l[k] ELSE l[k + 1]
    <3> HIDE DEF r
    <3>1. p + 1 \in 1..Len(l)
      BY <1>4
    <3> QED
      BY <1>1, <2>1, <3>1, RemoveAtShape
  <2>3. Distinct(r)
    BY <1>1, <1>5, RemoveNodeOrder
  <2>4. Len(r) = p + (n - i)
    BY <1>1, <1>3, <2>2
  <2>5. ASSUME NEW m \in 1..(n - i) PROVE r[p + m] = o[i + m]
    <3>1. /\ p + m \in 1..(Len(l) - 1) /\ ~(p + m < p + 1)
          /\ p + m + 1 = p + 1 + m
      BY <1>1, <1>3
    <3> QED
      BY <1>8, <2>2, <3>1
  <2> HIDE DEF next, r
  <2> QED
    BY <1>7, <2>2, <2>3, <2>4, <2>5 DEF StillToVisit, n
<1> QED
  BY <1>2, <1>9, <1>10

\* What an iteration leaves of the list.
LEMMA ExecuteStepList ==
  ASSUME NEW s \in Storages, NEW id
  PROVE  ExecuteStep(s, id).list \in {s.list, RemoveNode(s.list, id)}
BY DEF ExecuteStep, Storages

\* So the walk of execute_interactions executes s.list[1], s.list[2], ... in turn
\* (ConsensusContract.sol:172-190).
LEMMA ExecuteRun ==
  ASSUME NEW s \in Storages, Distinct(s.list), NEW S, s \in S[0],
         \A i \in 0..Len(s.list) : S[i] \subseteq Storages,
         \A i \in 1..Len(s.list) : \A x \in S[i-1] : ExecuteStep(x, s.list[i]) \in S[i]
  PROVE  \E f : /\ f[0] = s
                /\ \A i \in 1..Len(s.list) : f[i] = ExecuteStep(f[i-1], s.list[i])
                /\ \A i \in 0..Len(s.list) : f[i] \in S[i]
                /\ Execute(s) = f[Len(s.list)]
<1> DEFINE n == Len(s.list)
           o == s.list
           W == [i \in 0..n |-> {b \in [s : S[i], node : Nat] :
                                   StillToVisit(o, i, b.s.list, b.node)}]
<1>1. n \in Nat /\ o \in Seq(ListIds) /\ 0 \in 0..n /\ n \in 0..n
  BY DEF Storages
<1>2. \A i \in 1..n : i \in 0..n /\ i - 1 \in 0..n
  BY <1>1
<1>3. [s |-> s, node |-> getNextNode(s.list, HEAD)] \in W[0]
  <2>1. getNextNode(o, HEAD) \in Nat
    BY <1>1, NextNodeType DEF ListIds
  <2>2. 0 < n => getNextNode(o, HEAD) = o[1]
    BY <1>1 DEF getNextNode, NodeExists, Pos, HEAD
  <2>3. StillToVisit(o, 0, o, getNextNode(o, HEAD))
    <3>1. Len(o) = 0 + (Len(o) - 0) /\ \A m \in 1..(Len(o) - 0) : o[0 + m] = o[0 + m]
      BY <1>1
    <3>2. \E p \in Nat : /\ Len(o) = p + (Len(o) - 0)
                         /\ \A m \in 1..(Len(o) - 0) : o[p + m] = o[0 + m]
      BY <3>1
    <3> QED
      BY <1>1, <2>2, <3>2 DEF StillToVisit
  <2> QED
    BY <1>1, <2>1, <2>3
<1>4. ASSUME NEW i \in 1..n, NEW b \in W[i-1]
      PROVE  /\ b.node = o[i]
             /\ WalkStep(b).s = ExecuteStep(b.s, o[i])
             /\ WalkStep(b) \in W[i]
  <2>1. /\ b.s \in S[i-1] /\ b.node \in Nat /\ b.s \in Storages
        /\ StillToVisit(o, i-1, b.s.list, b.node)
    BY <1>2
  <2> DEFINE t == ExecuteStep(b.s, b.node)
             next == getNextNode(b.s.list, b.node)
  <2>2. /\ b.node = o[i]
        /\ StillToVisit(o, i, b.s.list, next)
        /\ StillToVisit(o, i, RemoveNode(b.s.list, b.node), next)
    BY <1>1, <2>1, WalkAdvances
  <2>3. t.list \in {b.s.list, RemoveNode(b.s.list, b.node)}
    BY <2>1, ExecuteStepList
  <2>4. t \in S[i]
    BY <2>1, <2>2
  <2>5. next \in Nat
    <3>1. b.s.list \in Seq(ListIds)
      BY <2>1 DEF Storages
    <3> QED
      BY <3>1, NextNodeType DEF ListIds
  <2>6. WalkStep(b) = [s |-> t, node |-> next]
    BY DEF WalkStep
  <2> HIDE DEF t, next
  <2>7. StillToVisit(o, i, t.list, next)
    BY <2>2, <2>3
  <2>8. WalkStep(b) \in W[i]
    BY <1>2, <2>4, <2>5, <2>6, <2>7
  <2> QED
    BY <2>2, <2>6, <2>8 DEF t
<1> HIDE DEF W
<1>5. PICK g : /\ g[0] = [s |-> s, node |-> getNextNode(s.list, HEAD)]
               /\ \A i \in 1..n : g[i] = WalkStep(g[i-1])
               /\ \A i \in 0..n : g[i] \in W[i]
               /\ Execute(s) = g[n].s
  BY <1>1, <1>3, <1>4, WalkRun
<1> DEFINE f == [i \in 0..n |-> g[i].s]
<1>6. f[0] = s /\ Execute(s) = f[n]
  BY <1>1, <1>5
<1>7. ASSUME NEW i \in 1..n PROVE f[i] = ExecuteStep(f[i-1], o[i])
  <2>1. f[i] = g[i].s /\ f[i-1] = g[i-1].s
    BY <1>2
  <2>2. g[i-1] \in W[i-1] /\ g[i] = WalkStep(g[i-1])
    BY <1>2, <1>5
  <2> HIDE DEF f
  <2> QED
    BY <1>4, <2>1, <2>2
<1>8. ASSUME NEW i \in 0..n PROVE f[i] \in S[i]
  BY <1>5 DEF W
<1> HIDE DEF f
<1> QED
  BY <1>6, <1>7, <1>8

\* And it leads from S[0] to S[n] when every iteration leads on.
LEMMA ExecuteLoop ==
  ASSUME NEW s \in Storages, Distinct(s.list), NEW S, s \in S[0],
         \A i \in 0..Len(s.list) : S[i] \subseteq Storages,
         \A i \in 1..Len(s.list) : \A x \in S[i-1] : ExecuteStep(x, s.list[i]) \in S[i]
  PROVE  Execute(s) \in S[Len(s.list)]
<1>1. PICK f : /\ \A i \in 0..Len(s.list) : f[i] \in S[i]
               /\ Execute(s) = f[Len(s.list)]
  BY ExecuteRun
<1>2. Len(s.list) \in 0..Len(s.list)
  BY DEF Storages
<1> QED
  BY <1>1, <1>2

-----------------------------------------------------------------------------
(* Type correctness, by action.                                             *)

\* The storage a transaction starts from is well typed.
LEMMA StorageType == TypeOK => Storage \in Storages
BY DEF TypeOK, WorkflowTypeOK, Storage, Storages, ListIds

\* getParticipantsByTask returns an account, or address(0) for an instance that
\* has no participants (WorkflowNew.sol:112-119).
LEMMA ReceiverType ==
  ASSUME WorkflowTypeOK, NEW inst \in InstanceIds, NEW task \in Tasks
  PROVE  Receiver(inst, task) \in Addresses \cup {NoAddress}
<1>1. rolesToTask[task][2] \in Roles
  BY DEF Tasks, rolesToTask, Roles
<1> QED
  BY <1>1 DEF WorkflowTypeOK, Receiver

\* A vote is a sequence of ids.
LEMMA VotesType ==
  ASSUME TypeOK, NEW vote \in Votes
  PROVE  vote \in Seq(ListIds)
<1>1. PICK n \in Nat : vote \in [1..n -> 1..(pending_interactions_count - 1)]
  BY OrderingAssumption DEF Votes
<1>2. 1..(pending_interactions_count - 1) \subseteq ListIds
  BY DEF TypeOK, ListIds
<1>3. vote \in [1..n -> ListIds]
  BY <1>1, <1>2
<1> QED
  BY <1>3, FunctionIsSeq

\* The set of orderers is finite, and its size is kept in orderers_count.
LEMMA OrderersFinite ==
  ASSUME NEW A, A \subseteq Addresses \cup {NoAddress}
  PROVE  IsFiniteSet(A) /\ Cardinality(A) \in Nat /\ (Cardinality(A) = 0 <=> A = {})
<1>1. IsFiniteSet(Addresses \cup {NoAddress})
  BY WorkflowAssumption, FS_AddElement
<1>2. IsFiniteSet(A)
  BY <1>1, FS_Subset
<1> QED
  BY <1>2, FS_CardinalityType, FS_EmptySet

\* submit_interaction keeps the types; orderers_count, which get_orderers counts
\* up one by one, stays the size of orderers (ConsensusContract.sol:97-118).
LEMMA SubmitType ==
  ASSUME TypeOK, NEW sender \in Addresses, NEW inst \in InstanceIds, NEW task \in Tasks,
         submit_interaction(sender, inst, task)
  PROVE  TypeOK'
<1>1. index_block' \in 0..block' /\ block' = block
  BY DEF submit_interaction, TypeOK
<1>2. pending_interactions' \in Seq(Interactions)
  <2> DEFINE p == [instance |-> inst, sender |-> sender, receiver |-> Receiver(inst, task),
                   task |-> task, id |-> pending_interactions_count,
                   block_number |-> block, domain |-> Unlabelled]
  <2>1. p \in Interactions
    BY ReceiverType DEF TypeOK, Interactions, Unlabelled
  <2>2. pending_interactions' = Append(pending_interactions, p)
    BY DEF submit_interaction
  <2> HIDE DEF p
  <2> QED
    BY <2>1, <2>2 DEF TypeOK
<1>3. /\ orderers' \subseteq Addresses \cup {NoAddress}
      /\ orderers' = orderers \cup (orderers' \ orderers)
  BY DEF submit_interaction, TypeOK, Contending
<1>4. orderers_count' = Cardinality(orderers')
  <2> DEFINE new == orderers' \ orderers
  <2>1. IsFiniteSet(orderers) /\ IsFiniteSet(new)
    BY <1>3, OrderersFinite DEF TypeOK
  <2>2. orderers \cap new = {}
    OBVIOUS
  <2>3. Cardinality(orderers) \in Nat /\ Cardinality(new) \in Nat
    BY <2>1, FS_CardinalityType
  <2>4. Cardinality(orderers \cup new) = Cardinality(orderers) + Cardinality(new)
    <3>1. Cardinality(orderers \cap new) = 0
      BY <2>2, FS_EmptySet
    <3>2. Cardinality(orderers \cup new)
            = Cardinality(orderers) + Cardinality(new) - Cardinality(orderers \cap new)
      BY <2>1, FS_Union
    <3> HIDE DEF new
    <3> QED
      BY <2>3, <3>1, <3>2
  <2>5. orderers_count' = orderers_count + Cardinality(new)
    BY DEF submit_interaction
  <2> QED
    BY <1>3, <2>4, <2>5 DEF TypeOK
<1>5. precedes' \subseteq (Nat \ {0}) \X (Nat \ {0})
  BY DEF submit_interaction, TypeOK
<1> QED
  BY <1>1, <1>2, <1>3, <1>4, <1>5
     DEF submit_interaction, TypeOK, WorkflowTypeOK, workflowVars

\* A vote that is not the last writes well-typed storage.
LEMMA KeepRoundType ==
  ASSUME TypeOK, NEW s \in Storages, KeepRound(s)
  PROVE  /\ index_block' = index_block /\ orderers' = orderers
         /\ orderers_count' = orderers_count /\ executed' = executed
         /\ pending_interactions' \in Seq(Interactions)
         /\ vote_count' \in Nat /\ domain_count' \in Nat
         /\ pending_domains' \subseteq Int /\ list' \in Seq(Nat \ {0})
         /\ tasks_state' = tasks_state /\ supplies' = supplies
BY DEF TypeOK, KeepRound, Storages, ListIds

\* Closing a round writes well-typed storage and resets the round
\* (ConsensusContract.sol:192-198).
LEMMA CloseRoundType ==
  ASSUME NEW s \in Storages, CloseRound(s)
  PROVE  /\ index_block' = 0 /\ orderers' = {}
         /\ orderers_count' = 0 /\ executed' \in Seq(Nat \ {0})
         /\ pending_interactions' \in Seq(Interactions)
         /\ vote_count' = 0 /\ domain_count' = 0
         /\ pending_domains' = {} /\ list' \in Seq(Nat \ {0})
         /\ tasks_state' \in [InstanceIds -> SUBSET Tasks] /\ supplies' \in Nat
<1>1. Execute(s) \in Storages
  BY ExecuteType
<1> QED
  BY <1>1 DEF CloseRound, Storages, ListIds

\* order_interactions keeps the types, the last vote of a round or not.
LEMMA OrderType ==
  ASSUME TypeOK, NEW orderer \in Addresses, NEW vote \in Votes,
         order_interactions(orderer, vote)
  PROVE  TypeOK'
<1> DEFINE b == Vote(GenerateDomains(Storage), orderer, vote)
<1>1. vote \in Seq(ListIds)
  BY VotesType
<1>2. b \in Merges /\ b.s \in Storages /\ b.taken \in Nat
  <2>1. b \in Merges
    BY <1>1, StorageType, GenerateDomainsType, VoteType
  <2> HIDE DEF b
  <2> QED
    BY <2>1 DEF Merges
<1>3. IF vote_count + 1 = orderers_count THEN CloseRound(b.s) ELSE KeepRound(b.s)
  BY DEF order_interactions
<1>4. /\ precedes' \subseteq precedes \cup InVoteOrder(vote, b.taken)
      /\ UNCHANGED <<block, pending_interactions_count, instancesCount, participants>>
  BY DEF order_interactions
<1> HIDE DEF b
<1>5. precedes' \subseteq (Nat \ {0}) \X (Nat \ {0})
  <2>1. ToSet(vote) \subseteq Nat \ {0}
    BY <1>1 DEF ToSet, ListIds
  <2> QED
    BY <1>4, <2>1 DEF InVoteOrder, TypeOK
<1>6. CASE CloseRound(b.s)
  <2>1. Cardinality({}) = 0
    BY FS_EmptySet
  <2>2. /\ index_block' = 0 /\ orderers' = {}
        /\ orderers_count' = 0 /\ executed' \in Seq(Nat \ {0})
        /\ pending_interactions' \in Seq(Interactions)
        /\ vote_count' = 0 /\ domain_count' = 0
        /\ pending_domains' = {} /\ list' \in Seq(Nat \ {0})
        /\ tasks_state' \in [InstanceIds -> SUBSET Tasks] /\ supplies' \in Nat
    BY <1>2, <1>6, CloseRoundType
  <2> QED
    BY <1>4, <1>5, <2>1, <2>2 DEF TypeOK, WorkflowTypeOK
<1>7. CASE KeepRound(b.s)
  BY <1>2, <1>4, <1>5, <1>7, KeepRoundType DEF TypeOK, WorkflowTypeOK
<1> QED
  BY <1>3, <1>6, <1>7

\* release keeps the types.
LEMMA ReleaseType ==
  ASSUME TypeOK, release
  PROVE  TypeOK'
<1>1. GenerateDomains(Storage) \in Storages
  BY StorageType, GenerateDomainsType
<1>2. CloseRound(GenerateDomains(Storage))
  BY DEF release
<1>3. UNCHANGED <<block, pending_interactions_count, precedes, instancesCount, participants>>
  BY DEF release
<1>4. Cardinality({}) = 0
  BY FS_EmptySet
<1>5. /\ index_block' = 0 /\ orderers' = {}
      /\ orderers_count' = 0 /\ executed' \in Seq(Nat \ {0})
      /\ pending_interactions' \in Seq(Interactions)
      /\ vote_count' = 0 /\ domain_count' = 0
      /\ pending_domains' = {} /\ list' \in Seq(Nat \ {0})
      /\ tasks_state' \in [InstanceIds -> SUBSET Tasks] /\ supplies' \in Nat
  BY <1>1, <1>2, CloseRoundType
<1> QED
  BY <1>3, <1>4, <1>5 DEF TypeOK, WorkflowTypeOK

\* A new block keeps the types.
LEMMA NextBlockType ==
  ASSUME TypeOK, NextBlock
  PROVE  TypeOK'
BY DEF TypeOK, NextBlock, contractVars, workflowVars, WorkflowTypeOK

\* A transaction on the workflow contract itself keeps the types.
LEMMA WorkflowCallType ==
  ASSUME TypeOK, WorkflowCall
  PROVE  TypeOK'
<1>1. UNCHANGED <<block, contractVars>>
  BY DEF WorkflowCall
<1>2. WorkflowTypeOK'
  <2>1. ASSUME NEW task \in DirectTasks, NEW inst \in InstanceIds, performTask(task, inst)
        PROVE  WorkflowTypeOK'
    <3>1. task \in Tasks
      BY OrderingAssumption
    <3> QED
      BY <2>1, <3>1, CallTaskType DEF TypeOK, WorkflowTypeOK, performTask
  <2>2. ASSUME NEW n \in SupplyValues, resetSupplies(n)
        PROVE  WorkflowTypeOK'
    BY <2>2, WorkflowAssumption DEF TypeOK, WorkflowTypeOK, resetSupplies
  <2> QED
    BY <2>1, <2>2 DEF WorkflowCall
<1> QED
  BY <1>1, <1>2 DEF TypeOK, contractVars

\* The deployed contracts are well typed.
LEMMA TypeInit == Init => TypeOK
<1> SUFFICES ASSUME Init PROVE TypeOK
  OBVIOUS
<1>1. WorkflowTypeOK
  BY WorkflowAssumption, OrderingAssumption DEF Init, WorkflowTypeOK, Tasks
<1>2. Cardinality({}) = 0
  BY FS_EmptySet
<1> QED
  BY <1>1, <1>2 DEF Init, TypeOK

\* TypeOK is inductive.
LEMMA TypeNext == TypeOK /\ [Next]_vars => TypeOK'
<1> SUFFICES ASSUME TypeOK, [Next]_vars PROVE TypeOK'
  OBVIOUS
<1>1. CASE UNCHANGED vars
  BY <1>1 DEF vars, contractVars, workflowVars, TypeOK, WorkflowTypeOK
<1> QED
  BY <1>1, SubmitType, OrderType, ReleaseType, NextBlockType, WorkflowCallType DEF Next

\* Every variable of the ordering contract, and of the workflow it executes,
\* keeps its type; in particular supplies never underflows and orderers_count
\* is the number of orderers (ConsensusContract.sol:10-41, 97-118).
THEOREM OrderingTypeCorrect == Spec => []TypeOK
BY TypeInit, TypeNext, PTL DEF Spec

-----------------------------------------------------------------------------
(* The round, by action.  TypeOK /\ LastVoteAhead is inductive.             *)

\* Nothing is submitted once a vote of the round has been cast.
LEMMA NoVoteInTheWindow ==
  ASSUME TypeOK, LastVoteAhead, NEW sender, NEW inst, NEW task,
         submit_interaction(sender, inst, task)
  PROVE  vote_count = 0
<1>1. block \in Nat /\ index_block \in Nat /\ vote_count \in Nat
  BY DEF TypeOK
<1>2. ~WindowClosed
  BY <1>1 DEF submit_interaction, WindowOpen, WindowClosed, block_interval
<1> QED
  BY <1>1, <1>2 DEF LastVoteAhead

\* A vote steps to the last one or stays before it.
LEMMA VoteAhead ==
  ASSUME TypeOK, LastVoteAhead, NEW orderer \in Addresses, NEW vote \in Votes,
         order_interactions(orderer, vote)
  PROVE  LastVoteAhead'
<1> DEFINE b == Vote(GenerateDomains(Storage), orderer, vote)
<1>1. /\ canVote(orderer) /\ block' = block
      /\ IF vote_count + 1 = orderers_count THEN CloseRound(b.s) ELSE KeepRound(b.s)
  BY DEF order_interactions
<1> HIDE DEF b
<1>2. orderers_count > 0 /\ orderers_count \in Nat /\ vote_count \in Nat
  <2>1. orderers # {}
    BY <1>1 DEF canVote
  <2> QED
    BY <2>1, OrderersFinite DEF TypeOK
<1>3. CASE CloseRound(b.s)
  BY <1>3 DEF CloseRound, LastVoteAhead
<1>4. CASE vote_count + 1 # orderers_count /\ KeepRound(b.s)
  BY <1>1, <1>2, <1>4 DEF KeepRound, LastVoteAhead, WindowClosed, canVote
<1> QED
  BY <1>1, <1>3, <1>4

\* TypeOK and LastVoteAhead together.
RoundInv == TypeOK /\ LastVoteAhead

\* TypeOK and LastVoteAhead are inductive together.
LEMMA RoundInvNext == RoundInv /\ [Next]_vars => RoundInv'
<1> SUFFICES ASSUME TypeOK, LastVoteAhead, [Next]_vars PROVE LastVoteAhead'
  BY TypeNext DEF RoundInv
<1>1. ASSUME NEW sender \in Addresses, NEW inst \in InstanceIds, NEW task \in Tasks,
             submit_interaction(sender, inst, task)
      PROVE  LastVoteAhead'
  <2>1. vote_count' = 0
    BY <1>1, NoVoteInTheWindow DEF submit_interaction
  <2> QED
    BY <2>1 DEF LastVoteAhead
<1>2. ASSUME release PROVE LastVoteAhead'
  BY <1>2 DEF release, CloseRound, LastVoteAhead
<1>3. CASE NextBlock
  <2>1. block \in Nat /\ index_block \in Nat
    BY DEF TypeOK
  <2> QED
    BY <1>3, <2>1 DEF NextBlock, contractVars, LastVoteAhead, WindowClosed, block_interval
<1>4. CASE WorkflowCall
  BY <1>4 DEF WorkflowCall, contractVars, LastVoteAhead, WindowClosed
<1>5. CASE UNCHANGED vars
  BY <1>5 DEF vars, contractVars, LastVoteAhead, WindowClosed
<1> QED
  BY <1>1, VoteAhead, <1>2, <1>3, <1>4, <1>5 DEF Next

\* And they hold when the contracts are deployed.
LEMMA RoundInvInit == Init => RoundInv
BY TypeInit DEF Init, RoundInv, LastVoteAhead

\* In every round, of any number of orderers, the last vote is still ahead
\* while the round is open, so vote_count never steps over orderers_count and
\* the equality that executes the list (ConsensusContract.sol:159) is not missed.
THEOREM LastVoteNeverMissed == Spec => []LastVoteAhead
<1>1. RoundInv => LastVoteAhead
  BY DEF RoundInv
<1> QED
  BY <1>1, RoundInvInit, RoundInvNext, PTL DEF Spec

\* From the first vote to the close of the round nothing is submitted and the
\* orderers do not change (ConsensusContract.sol:48, 122).
THEOREM VoteOnAClosedSet == Spec => VotesOnAClosedSet
<1> DEFINE Fixed ==
      vote_count > 0 => /\ pending_interactions_count' = pending_interactions_count
                        /\ \/ orderers' = orderers
                           \/ vote_count' = 0 /\ orderers' = {}
<1>1. RoundInv /\ [Next]_vars => [Fixed]_vars
  <2> SUFFICES ASSUME TypeOK, LastVoteAhead, Next PROVE Fixed
    BY DEF RoundInv
  <2>1. ASSUME NEW sender \in Addresses, NEW inst \in InstanceIds, NEW task \in Tasks,
               submit_interaction(sender, inst, task)
        PROVE  Fixed
    <3>1. vote_count = 0
      BY <2>1, NoVoteInTheWindow
    <3> QED
      BY <3>1
  <2>2. ASSUME NEW orderer \in Addresses, NEW vote \in Votes,
               order_interactions(orderer, vote)
        PROVE  Fixed
    BY <2>2 DEF order_interactions, CloseRound, KeepRound
  <2>3. ASSUME release PROVE Fixed
    BY <2>3 DEF release, CloseRound
  <2>4. CASE NextBlock
    BY <2>4 DEF NextBlock, contractVars
  <2>5. CASE WorkflowCall
    BY <2>5 DEF WorkflowCall, contractVars
  <2> QED
    BY <2>1, <2>2, <2>3, <2>4, <2>5 DEF Next
<1> QED
  BY <1>1, RoundInvInit, RoundInvNext, PTL DEF Spec, VotesOnAClosedSet
-----------------------------------------------------------------------------
(* The stages of the instances.  Of all that a transaction does, only the   *)
(* execution of the list calls the workflow.                                *)

\* Storage in which every instance is in one stage of the choreography.
Staged == {s \in Storages : s.tasks_state \in [InstanceIds -> Stages]}

\* Labelling calls no task (ConsensusContract.sol:60-95).
LEMMA GenerateDomainsStaged ==
  ASSUME NEW s \in Staged
  PROVE  GenerateDomains(s) \in Staged
<1> DEFINE n == Len(s.pending)
           Same == {t \in Staged : Len(t.pending) = n}
           S == [i \in 0..n |-> Same]
<1>1. n \in Nat
  BY DEF Staged, Storages
<1>2. s \in S[0]
  BY <1>1
<1>3. ASSUME NEW i \in 1..n, NEW x \in S[i-1]
      PROVE  LabelStep(x, i) \in S[i]
  <2>1. i \in 0..n /\ i - 1 \in 0..n
    BY <1>1
  <2>2. x \in Staged /\ x \in Storages /\ Len(x.pending) = n
    BY <2>1 DEF Staged
  <2>3. LabelStep(x, i) \in Storages /\ Len(LabelStep(x, i).pending) = n
    BY <2>2, LabelStepType
  <2>4. LabelStep(x, i).tasks_state = x.tasks_state
    BY <2>2 DEF LabelStep, Storages
  <2> QED
    BY <2>1, <2>2, <2>3, <2>4 DEF Staged
<1> HIDE DEF S
<1>4. GenerateDomains(s) = s \/ GenerateDomains(s) \in S[n]
  BY <1>1, <1>2, <1>3, LabelLoop
<1> QED
  BY <1>1, <1>4 DEF S

\* Nor does a conflict (ConsensusContract.sol:136-151).
LEMMA ConflictStaged ==
  ASSUME NEW s \in Staged, NEW v \in Nat \ {0}, NEW domain \in Int
  PROVE  Conflict(s, v, domain) \in Staged
<1> DEFINE n == Len(s.pending)
           S == [i \in 0..n |-> Staged]
<1>1. n \in Nat /\ s \in Storages
  BY DEF Staged, Storages
<1>2. s \in S[0]
  BY <1>1
<1>3. ASSUME NEW i \in 1..n, NEW x \in S[i-1]
      PROVE  DropStep(x, v, domain, i) \in S[i]
  <2>1. i \in 0..n /\ i - 1 \in 0..n /\ i \in Nat \ {0}
    BY <1>1
  <2>2. x \in Staged /\ x \in Storages
    BY <2>1 DEF Staged
  <2>3. DropStep(x, v, domain, i) \in Storages
    BY <2>1, <2>2, DropStepType
  <2>4. DropStep(x, v, domain, i).tasks_state = x.tasks_state
    BY <2>2 DEF DropStep, Storages
  <2> QED
    BY <2>1, <2>2, <2>3, <2>4 DEF Staged
<1> HIDE DEF S
<1>4. PICK r \in S[n] : Conflict(s, v, domain) = [r EXCEPT !.flagged = @ \cup {domain}]
  BY <1>1, <1>2, <1>3, DropLoop
<1>5. r \in Staged /\ r \in Storages
  BY <1>1, <1>4 DEF S, Staged
<1>6. Conflict(s, v, domain) \in Storages
  BY <1>1, ConflictType
<1>7. Conflict(s, v, domain).tasks_state = r.tasks_state
  BY <1>4, <1>5 DEF Storages
<1> QED
  BY <1>5, <1>6, <1>7 DEF Staged

\* Nor does an entry of a vote (ConsensusContract.sol:128-158).
LEMMA VoteStepStaged ==
  ASSUME NEW b \in Merges, b.s \in Staged, NEW orderer, NEW vote \in Seq(ListIds),
         NEW v \in 1..Len(vote)
  PROVE  VoteStep(b, orderer, vote, v).s \in Staged
<1> DEFINE id == vote[v]
           p == b.s.pending[IndexOf(b.s.pending, id)]
<1>1. /\ b.s \in Storages /\ id \in ListIds /\ v \in Nat \ {0}
      /\ b.s.pending \in Seq(Interactions) /\ b.s.list \in Seq(ListIds)
      /\ VoteStep(b, orderer, vote, v) \in Merges
      /\ VoteStep(b, orderer, vote, v).s \in Storages
  <2>1. VoteStep(b, orderer, vote, v) \in Merges
    BY VoteStepType
  <2>2. VoteStep(b, orderer, vote, v).s \in Storages
    BY <2>1 DEF Merges
  <2>3. b.s \in Storages
    BY DEF Merges
  <2>4. b.s.pending \in Seq(Interactions) /\ b.s.list \in Seq(ListIds)
    BY <2>3 DEF Storages
  <2>5. id \in ListIds /\ v \in Nat \ {0}
    OBVIOUS
  <2> QED
    BY <2>1, <2>2, <2>3, <2>4, <2>5
<1> HIDE DEF id, p
<1>2. CASE b.broken \/ ~b.s.ok
  BY <1>2 DEF VoteStep
<1>3. CASE ~(b.broken \/ ~b.s.ok) /\ (id \notin Ids(b.s.pending) \/ orderer \notin Involved(p))
  <2>1. VoteStep(b, orderer, vote, v) = [b EXCEPT !.s.ok = FALSE]
    BY <1>3 DEF VoteStep, id, p
  <2>2. VoteStep(b, orderer, vote, v).s.tasks_state = b.s.tasks_state
    BY <1>1, <2>1 DEF Merges, Storages
  <2> QED
    BY <1>1, <2>2 DEF Staged
<1>4. CASE /\ ~(b.broken \/ ~b.s.ok)
           /\ ~(id \notin Ids(b.s.pending) \/ orderer \notin Involved(p))
           /\ Listed(b.s.list, id) /\ ~is_after(b.s.list, b.anchor, id)
  <2>1. VoteStep(b, orderer, vote, v) =
          [b EXCEPT !.s = Conflict(b.s, v, p.domain), !.broken = TRUE]
    BY <1>4 DEF VoteStep, id, p
  <2>2. p \in Interactions
    BY <1>1, <1>4, IndexOfPending DEF p
  <2>3. p.domain \in Int
    BY <2>2 DEF Interactions
  <2>4. Conflict(b.s, v, p.domain) \in Staged
    BY <1>1, <2>3, ConflictStaged
  <2> QED
    BY <2>1, <2>4 DEF Merges
<1>5. CASE /\ ~(b.broken \/ ~b.s.ok)
           /\ ~(id \notin Ids(b.s.pending) \/ orderer \notin Involved(p))
           /\ ~(Listed(b.s.list, id) /\ ~is_after(b.s.list, b.anchor, id))
  <2>1. VoteStep(b, orderer, vote, v) =
          [b EXCEPT !.s.list = InsertAfter(b.s.list, b.anchor, id), !.anchor = id, !.taken = v]
    BY <1>5 DEF VoteStep, id, p
  <2>2. VoteStep(b, orderer, vote, v).s.tasks_state = b.s.tasks_state
    BY <1>1, <2>1 DEF Merges, Storages
  <2> QED
    BY <1>1, <2>2 DEF Staged
<1> QED
  BY <1>2, <1>3, <1>4, <1>5

\* Nor a whole vote.
LEMMA VoteStaged ==
  ASSUME NEW s \in Staged, NEW orderer, NEW vote \in Seq(ListIds)
  PROVE  Vote(s, orderer, vote).s \in Staged
<1> DEFINE n == Len(vote)
           StagedMerges == {b \in Merges : b.s \in Staged}
           S == [i \in 0..n |-> StagedMerges]
<1>1. n \in Nat /\ s \in Storages
  BY DEF Staged
<1>2. [s |-> s, anchor |-> HEAD, taken |-> 0, broken |-> FALSE] \in S[0]
  BY <1>1 DEF Merges, HEAD
<1>3. ASSUME NEW i \in 1..n, NEW x \in S[i-1]
      PROVE  VoteStep(x, orderer, vote, i) \in S[i]
  <2>1. i \in 0..n /\ i - 1 \in 0..n
    BY <1>1
  <2>2. x \in Merges /\ x.s \in Staged
    BY <2>1
  <2>3. VoteStep(x, orderer, vote, i) \in Merges /\ VoteStep(x, orderer, vote, i).s \in Staged
    BY <2>2, VoteStepType, VoteStepStaged
  <2> QED
    BY <2>1, <2>3
<1> HIDE DEF S
<1>4. Vote(s, orderer, vote) \in S[n]
  BY <1>1, <1>2, <1>3, VoteLoop
<1> QED
  BY <1>1, <1>4 DEF S

\* Executing an interaction moves its instance from a stage to a stage, or
\* leaves it, the task being closed by then (ConsensusContract.sol:174-190).
LEMMA ExecuteStepStaged ==
  ASSUME NEW s \in Staged, NEW id \in Nat
  PROVE  ExecuteStep(s, id) \in Staged
<1> DEFINE i == IndexOf(s.pending, id)
           p == s.pending[i]
           w == CallTask([tasks_state |-> s.tasks_state, supplies |-> s.supplies],
                         p.task, p.instance)
<1>1. /\ s \in Storages /\ s.pending \in Seq(Interactions)
      /\ s.tasks_state \in [InstanceIds -> Stages] /\ s.supplies \in Nat
  BY DEF Staged, Storages
<1>2. ExecuteStep(s, id) \in Storages
  BY <1>1, ExecuteStepType
<1> HIDE DEF i, p, w
<1>3. CASE ~s.ok \/ id \notin Ids(s.pending)
  <2>1. ExecuteStep(s, id) = [s EXCEPT !.ok = FALSE]
    BY <1>3 DEF ExecuteStep
  <2> QED
    BY <1>1, <1>2, <2>1 DEF Staged, Storages
<1>4. CASE ~(~s.ok \/ id \notin Ids(s.pending)) /\ p.domain \in s.flagged
  BY <1>4 DEF ExecuteStep, i, p
<1>5. CASE ~(~s.ok \/ id \notin Ids(s.pending)) /\ p.domain \notin s.flagged
  <2>1. i \in 1..Len(s.pending) /\ p \in Interactions
    BY <1>1, <1>5, IndexOfPending DEF i, p
  <2>2. p.task \in Tasks /\ p.instance \in InstanceIds
    BY <2>1 DEF Interactions
  <2>3. w.tasks_state \in [InstanceIds -> Stages]
    BY <1>1, <2>2, CallTaskStage DEF w
  <2>4. ExecuteStep(s, id).tasks_state = w.tasks_state
    <3>1. ExecuteStep(s, id) =
            [s EXCEPT !.tasks_state = w.tasks_state, !.supplies = w.supplies,
                      !.list = RemoveNode(s.list, id),
                      !.pending = removeInteraction(s.pending, i),
                      !.executed = Append(s.executed, id)]
      BY <1>5 DEF ExecuteStep, i, p, w
    <3> QED
      BY <1>1, <3>1 DEF Storages
  <2> QED
    BY <1>2, <2>3, <2>4 DEF Staged
<1> QED
  BY <1>3, <1>4, <1>5

\* So does executing the whole list (ConsensusContract.sol:168-191).
LEMMA ExecuteStaged ==
  ASSUME NEW s \in Staged
  PROVE  Execute(s) \in Staged
<1>1. Staged \subseteq Storages
  BY DEF Staged
<1> QED
  BY <1>1, ExecuteStepStaged, ExecuteKeeps

\* OneStage is about functions from instances to stages.
LEMMA StagedTasks == TypeOK => (OneStage <=> tasks_state \in [InstanceIds -> Stages])
BY DEF TypeOK, WorkflowTypeOK, OneStage

\* A vote and a release leave every instance in a stage.
LEMMA RoundStaged ==
  ASSUME TypeOK, OneStage, NEW s \in Staged, CloseRound(s) \/ KeepRound(s)
  PROVE  OneStage'
<1>1. Execute(s) \in Staged
  BY ExecuteStaged
<1>2. CASE CloseRound(s)
  BY <1>1, <1>2 DEF CloseRound, Staged, OneStage
<1>3. CASE KeepRound(s)
  BY <1>3 DEF KeepRound, OneStage
<1> QED
  BY <1>2, <1>3

\* Whatever the rounds execute, stale or not, and whatever accounts call
\* directly in between, every instance is in one stage of the choreography
\* (ConsensusContract.sol:201-204, WorkflowNew.sol:39-110).
THEOREM OrderingOneStage == Spec => []OneStage
<1>1. Init => OneStage
  BY DEF Init, OneStage, Stages
<1>2. TypeOK /\ OneStage /\ [Next]_vars => OneStage'
  <2> SUFFICES ASSUME TypeOK, OneStage, [Next]_vars PROVE OneStage'
    OBVIOUS
  <2>1. Storage \in Staged
    BY StorageType, StagedTasks DEF Staged, Storage
  <2>2. GenerateDomains(Storage) \in Staged
    BY <2>1, GenerateDomainsStaged
  <2>3. ASSUME NEW orderer \in Addresses, NEW vote \in Votes,
               order_interactions(orderer, vote)
        PROVE  OneStage'
    <3> DEFINE b == Vote(GenerateDomains(Storage), orderer, vote)
    <3>1. b.s \in Staged
      BY <2>2, VotesType, VoteStaged
    <3>2. CloseRound(b.s) \/ KeepRound(b.s)
      BY <2>3 DEF order_interactions
    <3> HIDE DEF b
    <3> QED
      BY <3>1, <3>2, RoundStaged
  <2>4. ASSUME release PROVE OneStage'
    BY <2>2, <2>4, RoundStaged DEF release
  <2>5. ASSUME WorkflowCall PROVE OneStage'
    <3>1. /\ tasks_state \in [InstanceIds -> Stages] /\ supplies \in Nat
      BY StagedTasks DEF TypeOK, WorkflowTypeOK
    <3>2. ASSUME NEW task \in DirectTasks, NEW inst \in InstanceIds, performTask(task, inst)
          PROVE  OneStage'
      <4>1. tasks_state' \in [InstanceIds -> Stages]
        BY <3>1, <3>2, CallTaskStage, OrderingAssumption DEF performTask
      <4> QED
        BY <4>1 DEF OneStage
    <3>3. ASSUME NEW n \in SupplyValues, resetSupplies(n)
          PROVE  OneStage'
      BY <3>3 DEF resetSupplies, OneStage
    <3> QED
      BY <2>5, <3>2, <3>3 DEF WorkflowCall
  <2>6. ASSUME NEW sender \in Addresses, NEW inst \in InstanceIds, NEW task \in Tasks,
               submit_interaction(sender, inst, task)
        PROVE  OneStage'
    BY <2>6 DEF submit_interaction, workflowVars, OneStage
  <2>7. CASE NextBlock \/ UNCHANGED vars
    BY <2>7 DEF NextBlock, vars, workflowVars, OneStage
  <2> QED
    BY <2>3, <2>4, <2>5, <2>6, <2>7 DEF Next
<1> QED
  BY <1>1, <1>2, OrderingTypeCorrect, PTL DEF Spec


-----------------------------------------------------------------------------
(* What the loops do with the interactions: some go on waiting, some are    *)
(* executed, each once, and none does both.  The iterations so far have led *)
(* from storage o to storage s.                                             *)

\* What waits was waiting before, submitted in the same block.
StillWaits(o, s) ==
  \A i \in 1..Len(s.pending) : \E j \in 1..Len(o.pending) :
    /\ s.pending[i].id = o.pending[j].id
    /\ s.pending[i].block_number = o.pending[j].block_number

\* It has a number of its own.
Numbered(pending) ==
  \A i, j \in 1..Len(pending) : pending[i].id = pending[j].id => i = j

\* The ledger has only been appended to.
Extends(o, s) ==
  /\ Len(o.executed) <= Len(s.executed)
  /\ \A k \in 1..Len(o.executed) : s.executed[k] = o.executed[k]

\* The positions of the ledger that were filled since.
New(o, s) == (Len(o.executed) + 1)..Len(s.executed)

\* What was executed had been waiting.
HadWaited(o, s) ==
  \A k \in New(o, s) : \E j \in 1..Len(o.pending) : s.executed[k] = o.pending[j].id

\* It waits no more.
WaitsNoMore(o, s) ==
  \A k \in New(o, s) : \A i \in 1..Len(s.pending) : s.executed[k] # s.pending[i].id

\* It was executed once.
Once(o, s) == \A k, l \in New(o, s) : s.executed[k] = s.executed[l] => k = l

\* All of this: every interaction of o is accounted for in s.
Accounted(o, s) ==
  /\ StillWaits(o, s) /\ Numbered(s.pending) /\ Extends(o, s)
  /\ HadWaited(o, s) /\ WaitsNoMore(o, s) /\ Once(o, s)

\* Before the first iteration nothing has moved.
LEMMA AccountedStart ==
  ASSUME NEW s \in Storages, Numbered(s.pending)
  PROVE  Accounted(s, s)
<1>1. Len(s.executed) \in Nat
  BY DEF Storages
<1>2. New(s, s) = {}
  BY <1>1 DEF New
<1> QED
  BY <1>1, <1>2 DEF Accounted, StillWaits, Extends, HadWaited, WaitsNoMore, Once

\* Interactions change in other fields than their number and block.
SamePending(p, q) ==
  /\ Len(q) = Len(p)
  /\ \A i \in 1..Len(p) : q[i].id = p[i].id /\ q[i].block_number = p[i].block_number

\* Rewriting other fields moves nothing.
LEMMA SameIsAccounted ==
  ASSUME NEW o, NEW s, NEW t, Accounted(o, s),
         SamePending(s.pending, t.pending), t.executed = s.executed
  PROVE  Accounted(o, t)
<1>1. StillWaits(o, t)
  BY DEF Accounted, StillWaits, SamePending
<1>2. Numbered(t.pending)
  BY DEF Accounted, Numbered, SamePending
<1>3. New(o, t) = New(o, s)
  BY DEF New
<1>4. WaitsNoMore(o, t)
  BY <1>3 DEF Accounted, WaitsNoMore, SamePending
<1>5. Extends(o, t) /\ HadWaited(o, t) /\ Once(o, t)
  BY <1>3 DEF Accounted, Extends, HadWaited, Once
<1> QED
  BY <1>1, <1>2, <1>4, <1>5 DEF Accounted

\* q holds the interactions of p other than p[i], each once.
Others(p, i, q) ==
  /\ Numbered(q)
  /\ \A k \in 1..Len(q) : /\ \E j \in 1..Len(p) : q[k] = p[j]
                          /\ q[k].id # p[i].id

\* That is what removeInteraction leaves (ConsensusContract.sol:329-336).
LEMMA Removed ==
  ASSUME NEW p \in Seq(Interactions), NEW i \in 1..Len(p), Numbered(p)
  PROVE  Others(p, i, removeInteraction(p, i))
<1> DEFINE q == removeInteraction(p, i)
           from == [k \in 1..(Len(p) - 1) |-> IF k < i THEN k ELSE k + 1]
<1>1. Len(q) = Len(p) - 1 /\ \A k \in 1..(Len(p)-1) : q[k] = p[from[k]]
  <2>1. /\ Len(q) = Len(p) - 1
        /\ \A k \in 1..(Len(p)-1) : q[k] = IF k < i THEN p[k] ELSE p[k+1]
    BY RemoveAtShape DEF removeInteraction
  <2> QED
    BY <2>1
<1>2. \A k \in 1..(Len(p)-1) : from[k] \in 1..Len(p) /\ from[k] # i
  OBVIOUS
<1>3. \A k, l \in 1..(Len(p)-1) : from[k] = from[l] => k = l
  OBVIOUS
<1> HIDE DEF from, q
<1>4. Numbered(q)
  <2> SUFFICES ASSUME NEW k \in 1..Len(q), NEW l \in 1..Len(q), q[k].id = q[l].id
               PROVE  k = l
    BY DEF Numbered
  <2>1. p[from[k]].id = p[from[l]].id
    BY <1>1
  <2>2. from[k] = from[l]
    BY <1>1, <1>2, <2>1 DEF Numbered
  <2> QED
    BY <1>1, <1>3, <2>2
<1>5. ASSUME NEW k \in 1..Len(q)
      PROVE  /\ \E j \in 1..Len(p) : q[k] = p[j]
             /\ q[k].id # p[i].id
  BY <1>1, <1>2 DEF Numbered
<1> QED
  BY <1>4, <1>5 DEF Others, q

\* A conflict withdraws an interaction.
LEMMA WithdrawnIsAccounted ==
  ASSUME NEW o, NEW s, NEW t, Accounted(o, s), s.pending \in Seq(Interactions),
         NEW i \in 1..Len(s.pending), t.pending = removeInteraction(s.pending, i),
         t.executed = s.executed
  PROVE  Accounted(o, t)
<1>0. Numbered(s.pending)
  BY DEF Accounted
<1>1. /\ Numbered(t.pending)
      /\ \A k \in 1..Len(t.pending) : \E j \in 1..Len(s.pending) : t.pending[k] = s.pending[j]
  <2>1. Others(s.pending, i, t.pending)
    BY <1>0, Removed
  <2> QED
    BY <2>1 DEF Others
<1>2. New(o, t) = New(o, s)
  BY DEF New
<1>3. StillWaits(o, t)
  <2> SUFFICES ASSUME NEW k \in 1..Len(t.pending)
               PROVE  \E j \in 1..Len(o.pending) :
                        /\ t.pending[k].id = o.pending[j].id
                        /\ t.pending[k].block_number = o.pending[j].block_number
    BY DEF StillWaits
  <2>1. PICK j \in 1..Len(s.pending) : t.pending[k] = s.pending[j]
    BY <1>1
  <2> QED
    BY <2>1 DEF Accounted, StillWaits
<1>4. WaitsNoMore(o, t)
  BY <1>1, <1>2 DEF Accounted, WaitsNoMore
<1>5. Extends(o, t) /\ HadWaited(o, t) /\ Once(o, t)
  BY <1>2 DEF Accounted, Extends, HadWaited, Once
<1> QED
  BY <1>1, <1>3, <1>4, <1>5 DEF Accounted

\* The execution of one moves it from the array to the ledger.
LEMMA ExecutedIsAccounted ==
  ASSUME NEW o \in Storages, NEW s \in Storages, NEW t, Accounted(o, s),
         NEW i \in 1..Len(s.pending), t.pending = removeInteraction(s.pending, i),
         t.executed = Append(s.executed, s.pending[i].id)
  PROVE  Accounted(o, t)
<1> DEFINE m == Len(s.executed)
           id == s.pending[i].id
<1>0. s.pending \in Seq(Interactions) /\ Numbered(s.pending)
  BY DEF Storages, Accounted
<1>1. /\ Numbered(t.pending)
      /\ \A k \in 1..Len(t.pending) : /\ \E j \in 1..Len(s.pending) : t.pending[k] = s.pending[j]
                                      /\ t.pending[k].id # id
  <2>1. Others(s.pending, i, t.pending)
    BY <1>0, Removed
  <2> QED
    BY <2>1 DEF Others, id
<1>2. /\ m \in Nat /\ Len(t.executed) = m + 1 /\ t.executed[m+1] = id
      /\ \A k \in 1..m : t.executed[k] = s.executed[k]
  BY DEF Storages
<1>3. Len(o.executed) \in Nat /\ Len(o.executed) <= m
  BY DEF Accounted, Extends, Storages
<1> HIDE DEF m, id
<1>4. \A k \in New(o, t) : (k \in New(o, s) /\ t.executed[k] = s.executed[k]) \/ k = m + 1
  <2>1. New(o, s) = (Len(o.executed) + 1)..m
    BY DEF New, m
  <2> QED
    BY <1>2, <1>3, <2>1 DEF New
<1>5. StillWaits(o, t)
  <2> SUFFICES ASSUME NEW k \in 1..Len(t.pending)
               PROVE  \E j \in 1..Len(o.pending) :
                        /\ t.pending[k].id = o.pending[j].id
                        /\ t.pending[k].block_number = o.pending[j].block_number
    BY DEF StillWaits
  <2>1. PICK j \in 1..Len(s.pending) : t.pending[k] = s.pending[j]
    BY <1>1
  <2> QED
    BY <2>1 DEF Accounted, StillWaits
<1>6. Extends(o, t)
  <2>1. \A k \in 1..Len(o.executed) : t.executed[k] = s.executed[k]
    BY <1>2, <1>3
  <2>2. Len(o.executed) <= Len(t.executed)
    BY <1>2, <1>3
  <2> QED
    BY <2>1, <2>2 DEF Accounted, Extends
<1>7. HadWaited(o, t)
  <2> SUFFICES ASSUME NEW k \in New(o, t)
               PROVE  \E j \in 1..Len(o.pending) : t.executed[k] = o.pending[j].id
    BY DEF HadWaited
  <2>1. CASE k = m + 1
    BY <1>2, <2>1 DEF Accounted, StillWaits, id
  <2>2. CASE k \in New(o, s) /\ t.executed[k] = s.executed[k]
    BY <2>2 DEF Accounted, HadWaited
  <2> QED
    BY <1>4, <2>1, <2>2
<1>8. WaitsNoMore(o, t)
  <2> SUFFICES ASSUME NEW k \in New(o, t), NEW n \in 1..Len(t.pending)
               PROVE  t.executed[k] # t.pending[n].id
    BY DEF WaitsNoMore
  <2>1. CASE k = m + 1
    BY <1>1, <1>2, <2>1
  <2>2. CASE k \in New(o, s) /\ t.executed[k] = s.executed[k]
    BY <1>1, <2>2 DEF Accounted, WaitsNoMore
  <2> QED
    BY <1>4, <2>1, <2>2
<1>9. Once(o, t)
  <2>1. \A k \in New(o, s) : s.executed[k] # id
    BY DEF Accounted, WaitsNoMore, id
  <2>2. \A k, l \in New(o, s) : s.executed[k] = s.executed[l] => k = l
    BY DEF Accounted, Once
  <2> QED
    BY <1>2, <1>4, <2>1, <2>2 DEF Once
<1> QED
  BY <1>1, <1>5, <1>6, <1>7, <1>8, <1>9 DEF Accounted

\* The storage that the iterations of a transaction may reach from storage o.
Reached(o) == {s \in Storages : Accounted(o, s)}

\* Labelling an interaction and its neighbours leaves numbers and blocks alone.
LEMMA LabelStepSame ==
  ASSUME NEW s \in Storages, NEW i \in 1..Len(s.pending)
  PROVE  /\ SamePending(s.pending, LabelStep(s, i).pending)
         /\ LabelStep(s, i).executed = s.executed
<1> DEFINE t == LabelStep(s, i)
           near == Neighbours(s.pending, i)
<1>1. /\ DOMAIN s.pending = 1..Len(s.pending)
      /\ \A j \in 1..Len(s.pending) : s.pending[j] \in Interactions
  BY DEF Storages
<1>2. PICK label : t.pending = [j \in DOMAIN s.pending |->
                                  IF j = i \/ j \in near
                                  THEN [s.pending[j] EXCEPT !.domain = label]
                                  ELSE s.pending[j]]
  <2> HIDE DEF near
  <2> QED
    BY DEF LabelStep, Storages, near
<1>3. t.executed = s.executed
  BY DEF LabelStep, Storages
<1>4. Len(t.pending) = Len(s.pending)
  BY LabelStepType
<1> HIDE DEF t, near
<1>5. ASSUME NEW j \in 1..Len(s.pending)
      PROVE  /\ t.pending[j].id = s.pending[j].id
             /\ t.pending[j].block_number = s.pending[j].block_number
  BY <1>1, <1>2 DEF Interactions
<1> QED
  BY <1>3, <1>4, <1>5 DEF SamePending, t

\* generate_domains writes labels only (ConsensusContract.sol:60-95).
LEMMA GenerateDomainsAccounted ==
  ASSUME NEW o, NEW s \in Reached(o)
  PROVE  GenerateDomains(s) \in Reached(o)
<1> DEFINE n == Len(s.pending)
           Same == {t \in Reached(o) : Len(t.pending) = n}
           S == [i \in 0..n |-> Same]
<1>1. s \in Storages /\ n \in Nat
  BY DEF Reached, Storages
<1>2. s \in S[0]
  BY <1>1
<1>3. ASSUME NEW i \in 1..n, NEW x \in S[i-1]
      PROVE  LabelStep(x, i) \in S[i]
  <2>1. i \in 0..n /\ i - 1 \in 0..n
    BY <1>1
  <2>2. x \in Storages /\ Accounted(o, x) /\ Len(x.pending) = n
    BY <2>1 DEF Reached
  <2>3. LabelStep(x, i) \in Storages /\ Len(LabelStep(x, i).pending) = n
    BY <2>2, LabelStepType
  <2>4. /\ SamePending(x.pending, LabelStep(x, i).pending)
        /\ LabelStep(x, i).executed = x.executed
    BY <2>2, LabelStepSame
  <2>5. Accounted(o, LabelStep(x, i))
    BY <2>2, <2>4, SameIsAccounted
  <2> QED
    BY <2>1, <2>3, <2>5 DEF Reached
<1> HIDE DEF S
<1>4. GenerateDomains(s) = s \/ GenerateDomains(s) \in S[n]
  BY <1>1, <1>2, <1>3, LabelLoop
<1> QED
  BY <1>1, <1>4 DEF S

\* The conflict branch withdraws interactions (ConsensusContract.sol:139-145).
LEMMA DropStepAccounted ==
  ASSUME NEW o, NEW s \in Reached(o), NEW v \in Nat \ {0}, NEW domain, NEW j \in Nat \ {0}
  PROVE  DropStep(s, v, domain, j) \in Reached(o)
<1> DEFINE t == DropStep(s, v, domain, j)
<1>1. s \in Storages /\ Accounted(o, s) /\ s.pending \in Seq(Interactions)
  BY DEF Reached, Storages
<1>2. t \in Storages
  BY <1>1, DropStepType
<1>3. \/ t.pending = s.pending /\ t.executed = s.executed
      \/ /\ j \in 1..Len(s.pending)
         /\ t.pending = removeInteraction(s.pending, j) /\ t.executed = s.executed
  BY <1>1 DEF DropStep, Storages
<1> HIDE DEF t
<1>4. ASSUME t.pending = s.pending, t.executed = s.executed
      PROVE  Accounted(o, t)
  BY <1>1, <1>4, SameIsAccounted DEF SamePending
<1>5. ASSUME j \in 1..Len(s.pending),
             t.pending = removeInteraction(s.pending, j), t.executed = s.executed
      PROVE  Accounted(o, t)
  BY <1>1, <1>5, WithdrawnIsAccounted
<1> QED
  BY <1>2, <1>3, <1>4, <1>5 DEF Reached, t

\* So does the whole loop of the conflict branch.
LEMMA ConflictAccounted ==
  ASSUME NEW o, NEW s \in Reached(o), NEW v \in Nat \ {0}, NEW domain \in Int
  PROVE  Conflict(s, v, domain) \in Reached(o)
<1> DEFINE n == Len(s.pending)
           S == [i \in 0..n |-> Reached(o)]
<1>1. s \in Storages /\ n \in Nat
  BY DEF Reached, Storages
<1>2. s \in S[0]
  BY <1>1
<1>3. ASSUME NEW i \in 1..n, NEW x \in S[i-1]
      PROVE  DropStep(x, v, domain, i) \in S[i]
  <2>1. i \in 0..n /\ i - 1 \in 0..n /\ i \in Nat \ {0}
    BY <1>1
  <2>2. x \in Reached(o)
    BY <2>1
  <2>3. DropStep(x, v, domain, i) \in Reached(o)
    BY <2>1, <2>2, DropStepAccounted
  <2> QED
    BY <2>1, <2>3
<1> HIDE DEF S
<1>4. PICK r \in S[n] : Conflict(s, v, domain) = [r EXCEPT !.flagged = @ \cup {domain}]
  BY <1>1, <1>2, <1>3, DropLoop
<1>5. r \in Storages /\ Accounted(o, r)
  BY <1>1, <1>4 DEF S, Reached
<1>6. /\ SamePending(r.pending, Conflict(s, v, domain).pending)
      /\ Conflict(s, v, domain).executed = r.executed
  BY <1>4, <1>5 DEF Storages, SamePending
<1>7. Accounted(o, Conflict(s, v, domain))
  BY <1>5, <1>6, SameIsAccounted
<1>8. Conflict(s, v, domain) \in Storages
  BY <1>1, ConflictType
<1> QED
  BY <1>7, <1>8 DEF Reached

\* A vote executes nothing, and withdraws only by a conflict
\* (ConsensusContract.sol:128-158).
LEMMA VoteStepAccounted ==
  ASSUME NEW o, NEW b \in Merges, b.s \in Reached(o), NEW orderer,
         NEW vote \in Seq(ListIds), NEW v \in 1..Len(vote)
  PROVE  VoteStep(b, orderer, vote, v).s \in Reached(o)
<1> DEFINE id == vote[v]
           p == b.s.pending[IndexOf(b.s.pending, id)]
           t == VoteStep(b, orderer, vote, v).s
<1>1. b.s \in Storages /\ Accounted(o, b.s) /\ v \in Nat \ {0}
      /\ b.s.pending \in Seq(Interactions)
  BY DEF Merges, Storages, Reached
<1>2. VoteStep(b, orderer, vote, v) \in Merges
  BY VoteStepType
<1>3. t \in Storages
  BY <1>2 DEF Merges
<1>4. \/ t.pending = b.s.pending /\ t.executed = b.s.executed
      \/ id \in Ids(b.s.pending) /\ t = Conflict(b.s, v, p.domain)
  <2> HIDE DEF id, p
  <2> QED
    BY <1>1 DEF VoteStep, Merges, Storages, id, p
<1> HIDE DEF id, p, t
<1>5. CASE t.pending = b.s.pending /\ t.executed = b.s.executed
  <2>1. Accounted(o, t)
    BY <1>1, <1>5, SameIsAccounted DEF SamePending
  <2> QED
    BY <1>3, <2>1 DEF Reached, t
<1>6. CASE id \in Ids(b.s.pending) /\ t = Conflict(b.s, v, p.domain)
  <2>1. p \in Interactions
    BY <1>1, <1>6, IndexOfPending DEF p
  <2>2. p.domain \in Int
    BY <2>1 DEF Interactions
  <2>3. t \in Reached(o)
    BY <1>1, <1>6, <2>2, ConflictAccounted
  <2> QED
    BY <2>3 DEF t
<1> QED
  BY <1>4, <1>5, <1>6

\* The whole loop over a vote executes nothing and loses nothing
\* (ConsensusContract.sol:128-158).
LEMMA VoteAccounted ==
  ASSUME NEW o, NEW s \in Reached(o), NEW orderer, NEW vote \in Seq(ListIds)
  PROVE  Vote(s, orderer, vote).s \in Reached(o)
<1> DEFINE n == Len(vote)
           M == {b \in Merges : b.s \in Reached(o)}
           S == [i \in 0..n |-> M]
<1>1. n \in Nat
  OBVIOUS
<1>2. [s |-> s, anchor |-> HEAD, taken |-> 0, broken |-> FALSE] \in S[0]
  BY <1>1 DEF Merges, HEAD, Reached
<1>3. ASSUME NEW i \in 1..n, NEW x \in S[i-1]
      PROVE  VoteStep(x, orderer, vote, i) \in S[i]
  <2>1. i \in 0..n /\ i - 1 \in 0..n
    BY <1>1
  <2>2. x \in Merges /\ x.s \in Reached(o)
    BY <2>1
  <2>3. VoteStep(x, orderer, vote, i) \in Merges
    BY <2>2, VoteStepType
  <2>4. VoteStep(x, orderer, vote, i).s \in Reached(o)
    BY <2>2, VoteStepAccounted
  <2> QED
    BY <2>1, <2>3, <2>4
<1> HIDE DEF S
<1>4. Vote(s, orderer, vote) \in S[n]
  BY <1>1, <1>2, <1>3, VoteLoop
<1> QED
  BY <1>1, <1>4 DEF S

\* Executing an entry of the list moves an interaction to the ledger, or does
\* nothing to it (ConsensusContract.sol:174-190).
LEMMA ExecuteStepAccounted ==
  ASSUME NEW o \in Storages, NEW s \in Reached(o), NEW id \in Nat
  PROVE  ExecuteStep(s, id) \in Reached(o)
<1> DEFINE t == ExecuteStep(s, id)
           i == IndexOf(s.pending, id)
<1>1. s \in Storages /\ Accounted(o, s) /\ s.pending \in Seq(Interactions)
  BY DEF Reached, Storages
<1>2. t \in Storages
  BY <1>1, ExecuteStepType
<1>3. \/ t.pending = s.pending /\ t.executed = s.executed
      \/ /\ id \in Ids(s.pending)
         /\ t.pending = removeInteraction(s.pending, i)
         /\ t.executed = Append(s.executed, id)
  <2> HIDE DEF i
  <2> QED
    BY <1>1 DEF ExecuteStep, Storages, i
<1> HIDE DEF t, i
<1>4. ASSUME t.pending = s.pending, t.executed = s.executed
      PROVE  Accounted(o, t)
  BY <1>1, <1>4, SameIsAccounted DEF SamePending
<1>5. ASSUME id \in Ids(s.pending), t.pending = removeInteraction(s.pending, i),
             t.executed = Append(s.executed, id)
      PROVE  Accounted(o, t)
  <2>1. i \in 1..Len(s.pending) /\ s.pending[i].id = id
    BY <1>1, <1>5, IndexOfPending DEF i
  <2> QED
    BY <1>1, <1>5, <2>1, ExecutedIsAccounted
<1> QED
  BY <1>2, <1>3, <1>4, <1>5 DEF Reached, t

\* The whole execution of the list (ConsensusContract.sol:168-199).
LEMMA ExecuteAccounted ==
  ASSUME NEW o \in Storages, NEW s \in Reached(o)
  PROVE  Execute(s) \in Reached(o)
<1>1. Reached(o) \subseteq Storages
  BY DEF Reached
<1> QED
  BY <1>1, ExecuteStepAccounted, ExecuteKeeps

-----------------------------------------------------------------------------
(* The contract.                                                            *)

\* Numbers are given out once, and in a round only by its window.
WaitInv ==
  /\ TypeOK
  /\ Numbered(pending_interactions)
  /\ \A i \in 1..Len(pending_interactions) :
       /\ pending_interactions[i].id < pending_interactions_count
       /\ pending_interactions[i].block_number <= block
       /\ index_block # 0 =>
            pending_interactions[i].block_number < index_block + block_interval
  /\ \A k \in 1..Len(executed) : executed[k] < pending_interactions_count

\* A vote or a release moves interactions and leaves the numbers alone.
Moves ==
  /\ \E t \in Reached(Storage) : pending_interactions' = t.pending /\ executed' = t.executed
  /\ UNCHANGED <<block, pending_interactions_count>>
  /\ index_block' \in {index_block, 0}
  /\ WindowClosed

\* What waits has numbers and blocks that can be compared.
LEMMA WaitingTypes ==
  ASSUME TypeOK
  PROVE  /\ DOMAIN pending_interactions = 1..Len(pending_interactions)
         /\ Len(pending_interactions) \in Nat
         /\ \A i \in 1..Len(pending_interactions) :
              /\ pending_interactions[i].id \in Nat \ {0}
              /\ pending_interactions[i].block_number \in Nat
<1>1. pending_interactions \in Seq(Interactions)
  BY DEF TypeOK
<1>2. \A p \in Interactions : p.id \in Nat \ {0} /\ p.block_number \in Nat
  BY DEF Interactions
<1>3. \A i \in 1..Len(pending_interactions) : pending_interactions[i] \in Interactions
  BY <1>1
<1> QED
  BY <1>1, <1>2, <1>3

\* Storage as it is before the first iteration.
LEMMA StorageReached == WaitInv => Storage \in Reached(Storage)
<1> SUFFICES ASSUME WaitInv PROVE Storage \in Reached(Storage)
  OBVIOUS
<1>1. Storage \in Storages
  BY StorageType DEF WaitInv
<1>2. Numbered(Storage.pending)
  BY DEF WaitInv, Storage
<1> QED
  BY <1>1, <1>2, AccountedStart DEF Reached

\* Closing a round executes what the list says (ConsensusContract.sol:168-199).
LEMMA CloseMoves ==
  ASSUME WaitInv, NEW s \in Reached(Storage), CloseRound(s)
  PROVE  /\ \E t \in Reached(Storage) :
              pending_interactions' = t.pending /\ executed' = t.executed
         /\ index_block' = 0
<1>1. Storage \in Storages
  BY StorageType DEF WaitInv
<1>2. Execute(s) \in Reached(Storage)
  BY <1>1, ExecuteAccounted
<1> QED
  BY <1>2 DEF CloseRound

\* A vote moves interactions and nothing else (ConsensusContract.sol:120-166).
LEMMA OrderMoves ==
  ASSUME WaitInv, NEW orderer \in Addresses, NEW vote \in Votes,
         order_interactions(orderer, vote)
  PROVE  Moves
<1> DEFINE b == Vote(GenerateDomains(Storage), orderer, vote)
<1>1. vote \in Seq(ListIds)
  BY VotesType DEF WaitInv
<1>2. b.s \in Reached(Storage)
  BY <1>1, StorageReached, GenerateDomainsAccounted, VoteAccounted
<1>3. /\ canVote(orderer)
      /\ IF vote_count + 1 = orderers_count THEN CloseRound(b.s) ELSE KeepRound(b.s)
      /\ UNCHANGED <<block, pending_interactions_count>>
  BY DEF order_interactions
<1> HIDE DEF b
<1>4. CASE CloseRound(b.s)
  BY <1>2, <1>3, <1>4, CloseMoves DEF Moves, canVote
<1>5. CASE KeepRound(b.s)
  <2> DEFINE t == [b.s EXCEPT !.executed = executed]
  <2>1. b.s \in Storages /\ Storage \in Storages /\ Accounted(Storage, b.s)
    BY <1>2, StorageType DEF Reached, WaitInv
  <2>2. /\ t \in Storages /\ t.pending = b.s.pending
        /\ t.executed = executed /\ Storage.executed = executed
    BY <2>1 DEF Storages, Storage
  <2> HIDE DEF t
  <2>3. Len(executed) \in Nat
    BY DEF WaitInv, TypeOK
  <2>4. New(Storage, t) = {}
    BY <2>2, <2>3 DEF New
  <2>5. Extends(Storage, t) /\ HadWaited(Storage, t) /\ WaitsNoMore(Storage, t) /\ Once(Storage, t)
    BY <2>2, <2>3, <2>4 DEF Extends, HadWaited, WaitsNoMore, Once
  <2>6. StillWaits(Storage, t) /\ Numbered(t.pending)
    BY <2>1, <2>2 DEF Accounted, StillWaits
  <2>7. t \in Reached(Storage)
    BY <2>2, <2>5, <2>6 DEF Reached, Accounted
  <2>8. pending_interactions' = t.pending /\ executed' = t.executed /\ index_block' = index_block
    BY <1>5, <2>2 DEF KeepRound
  <2> QED
    BY <1>3, <2>7, <2>8 DEF Moves, canVote
<1> QED
  BY <1>3, <1>4, <1>5

\* So does a release (ConsensusContract.sol:213-223).
LEMMA ReleaseMoves ==
  ASSUME WaitInv, release
  PROVE  Moves
<1>1. GenerateDomains(Storage) \in Reached(Storage)
  BY StorageReached, GenerateDomainsAccounted
<1>2. /\ isIsolate /\ CloseRound(GenerateDomains(Storage))
      /\ UNCHANGED <<block, pending_interactions_count>>
  BY DEF release
<1> QED
  BY <1>1, <1>2, CloseMoves DEF Moves, isIsolate

\* What is waiting after such a step was waiting before it.
LEMMA MovesWaiting ==
  ASSUME Moves
  PROVE  /\ \A i \in 1..Len(pending_interactions') : \E j \in 1..Len(pending_interactions) :
              /\ pending_interactions'[i].id = pending_interactions[j].id
              /\ pending_interactions'[i].block_number = pending_interactions[j].block_number
         /\ Numbered(pending_interactions')
<1>1. PICK t \in Reached(Storage) : pending_interactions' = t.pending
  BY DEF Moves
<1>2. Storage.pending = pending_interactions
  BY DEF Storage
<1> QED
  BY <1>1, <1>2 DEF Reached, Accounted, StillWaits

\* And what it appends to the ledger was waiting before, and waits no more.
LEMMA MovesLedger ==
  ASSUME Moves
  PROVE  /\ Len(executed) <= Len(executed')
         /\ \A k \in 1..Len(executed) : executed'[k] = executed[k]
         /\ \A k \in (Len(executed) + 1)..Len(executed') :
              /\ \E j \in 1..Len(pending_interactions) :
                   executed'[k] = pending_interactions[j].id
              /\ \A i \in 1..Len(pending_interactions') :
                   executed'[k] # pending_interactions'[i].id
         /\ \A k, l \in (Len(executed) + 1)..Len(executed') :
              executed'[k] = executed'[l] => k = l
<1>1. PICK t \in Reached(Storage) : pending_interactions' = t.pending /\ executed' = t.executed
  BY DEF Moves
<1>2. Storage.pending = pending_interactions /\ Storage.executed = executed
  BY DEF Storage
<1>3. Accounted(Storage, t)
  BY DEF Reached
<1>4. New(Storage, t) = (Len(executed) + 1)..Len(executed')
  BY <1>1, <1>2 DEF New
<1>5. Extends(Storage, t)
  BY <1>3 DEF Accounted
<1>6. \A k \in New(Storage, t) : \E j \in 1..Len(Storage.pending) :
        t.executed[k] = Storage.pending[j].id
  BY <1>3 DEF Accounted, HadWaited
<1>7. \A k \in New(Storage, t) : \A i \in 1..Len(t.pending) : t.executed[k] # t.pending[i].id
  BY <1>3 DEF Accounted, WaitsNoMore
<1>8. \A k, l \in New(Storage, t) : t.executed[k] = t.executed[l] => k = l
  BY <1>3 DEF Accounted, Once
<1>9. /\ Len(executed) <= Len(executed')
      /\ \A k \in 1..Len(executed) : executed'[k] = executed[k]
  BY <1>1, <1>2, <1>5 DEF Extends
<1>10. ASSUME NEW k \in (Len(executed) + 1)..Len(executed')
       PROVE  /\ \E j \in 1..Len(pending_interactions) :
                   executed'[k] = pending_interactions[j].id
              /\ \A i \in 1..Len(pending_interactions') :
                   executed'[k] # pending_interactions'[i].id
  <2>1. k \in New(Storage, t)
    BY <1>4
  <2>2. \E j \in 1..Len(Storage.pending) : t.executed[k] = Storage.pending[j].id
    BY <1>6, <2>1
  <2>3. \A i \in 1..Len(t.pending) : t.executed[k] # t.pending[i].id
    BY <1>7, <2>1
  <2> QED
    BY <1>1, <1>2, <2>2, <2>3
<1>11. \A k, l \in (Len(executed) + 1)..Len(executed') :
          executed'[k] = executed'[l] => k = l
  BY <1>1, <1>4, <1>8
<1> QED
  BY <1>9, <1>10, <1>11

\* A vote or a release leaves the invariant.
LEMMA MovesKeeps ==
  ASSUME WaitInv, TypeOK', Moves
  PROVE  WaitInv'
<1>1. /\ block \in Nat /\ pending_interactions_count \in Nat /\ index_block \in Nat
      /\ Len(executed) \in Nat /\ Len(executed') \in Nat
  BY DEF WaitInv, TypeOK
<1>2. /\ block' = block /\ pending_interactions_count' = pending_interactions_count
      /\ index_block' \in {index_block, 0}
  BY DEF Moves
<1>3. \A i \in 1..Len(pending_interactions') :
         /\ pending_interactions'[i].id < pending_interactions_count
         /\ pending_interactions'[i].block_number <= block
         /\ index_block # 0 =>
              pending_interactions'[i].block_number < index_block + block_interval
  <2> SUFFICES ASSUME NEW i \in 1..Len(pending_interactions')
               PROVE  /\ pending_interactions'[i].id < pending_interactions_count
                      /\ pending_interactions'[i].block_number <= block
                      /\ index_block # 0 =>
                           pending_interactions'[i].block_number < index_block + block_interval
    OBVIOUS
  <2>1. PICK j \in 1..Len(pending_interactions) :
          /\ pending_interactions'[i].id = pending_interactions[j].id
          /\ pending_interactions'[i].block_number = pending_interactions[j].block_number
    BY MovesWaiting
  <2> QED
    BY <2>1 DEF WaitInv
<1>4. \A k \in 1..Len(executed') : executed'[k] < pending_interactions_count
  <2> SUFFICES ASSUME NEW k \in 1..Len(executed')
               PROVE  executed'[k] < pending_interactions_count
    OBVIOUS
  <2>1. CASE k \in 1..Len(executed)
    BY <2>1, MovesLedger DEF WaitInv
  <2>2. CASE k \notin 1..Len(executed)
    <3>1. k \in (Len(executed) + 1)..Len(executed')
      BY <1>1, <2>2
    <3>2. PICK j \in 1..Len(pending_interactions) : executed'[k] = pending_interactions[j].id
      BY <3>1, MovesLedger
    <3> QED
      BY <3>2 DEF WaitInv
  <2> QED
    BY <2>1, <2>2
<1>5. Numbered(pending_interactions')
  BY MovesWaiting
<1> QED
  BY <1>2, <1>3, <1>4, <1>5 DEF WaitInv

\* A submission takes the next number, in a block of the window
\* (ConsensusContract.sol:43-58).
LEMMA SubmitKeepsWaiting ==
  ASSUME WaitInv, TypeOK', NEW sender \in Addresses, NEW inst \in InstanceIds,
         NEW task \in Tasks, submit_interaction(sender, inst, task)
  PROVE  WaitInv'
<1> DEFINE n == Len(pending_interactions)
           opened == IF index_block = 0 THEN block ELSE index_block
           p == pending_interactions'[n+1]
<1>1. /\ block \in Nat \ {0} /\ pending_interactions_count \in Nat /\ index_block \in 0..block
      /\ n \in Nat /\ pending_interactions \in Seq(Interactions)
  BY DEF WaitInv, TypeOK
<1>2. /\ Len(pending_interactions') = n + 1
      /\ \A i \in 1..n : pending_interactions'[i] = pending_interactions[i]
      /\ p.id = pending_interactions_count /\ p.block_number = block
  BY <1>1 DEF submit_interaction
<1>3. /\ block' = block /\ index_block' = opened /\ executed' = executed
      /\ pending_interactions_count' = pending_interactions_count + 1
      /\ block < opened + block_interval
  BY DEF submit_interaction, WindowOpen
<1> HIDE DEF n, p
<1>4. \A i \in 1..(n+1) : i \in 1..n \/ i = n + 1
  BY <1>1
<1>5. ASSUME NEW i \in 1..n
      PROVE  /\ pending_interactions[i].id < pending_interactions_count
             /\ pending_interactions[i].block_number <= block
             /\ index_block # 0 =>
                  pending_interactions[i].block_number < index_block + block_interval
             /\ pending_interactions[i].id \in Nat /\ pending_interactions[i].block_number \in Nat
  BY WaitingTypes DEF WaitInv, n
<1>6. \A i \in 1..Len(pending_interactions') :
         /\ pending_interactions'[i].id < pending_interactions_count'
         /\ pending_interactions'[i].block_number <= block'
         /\ index_block' # 0 =>
              pending_interactions'[i].block_number < index_block' + block_interval
  <2> SUFFICES ASSUME NEW i \in 1..(n+1)
               PROVE  /\ pending_interactions'[i].id < pending_interactions_count + 1
                      /\ pending_interactions'[i].block_number <= block
                      /\ pending_interactions'[i].block_number < opened + block_interval
    BY <1>2, <1>3
  <2>1. CASE i = n + 1
    BY <1>1, <1>2, <1>3, <2>1 DEF p
  <2>2. CASE i \in 1..n
    BY <1>1, <1>2, <1>5, <2>2 DEF block_interval
  <2> QED
    BY <1>4, <2>1, <2>2
<1>7. Numbered(pending_interactions')
  <2> SUFFICES ASSUME NEW i \in 1..(n+1), NEW j \in 1..(n+1),
                      pending_interactions'[i].id = pending_interactions'[j].id
               PROVE  i = j
    BY <1>2 DEF Numbered
  <2>1. \A k \in 1..n : pending_interactions'[k].id # pending_interactions'[n+1].id
    BY <1>1, <1>2, <1>5 DEF p
  <2>2. Numbered(pending_interactions)
    BY DEF WaitInv
  <2>3. CASE i \in 1..n /\ j \in 1..n
    BY <1>2, <2>2, <2>3 DEF Numbered, n
  <2> QED
    BY <1>4, <2>1, <2>3
<1>8. \A k \in 1..Len(executed) : executed[k] < pending_interactions_count + 1
  <2>1. executed \in Seq(Nat \ {0})
    BY DEF WaitInv, TypeOK
  <2> SUFFICES ASSUME NEW k \in 1..Len(executed)
               PROVE  executed[k] < pending_interactions_count + 1
    OBVIOUS
  <2>2. executed[k] < pending_interactions_count
    BY DEF WaitInv
  <2>3. executed[k] \in Nat
    BY <2>1
  <2> QED
    BY <1>1, <2>2, <2>3
<1> QED
  BY <1>3, <1>6, <1>7, <1>8 DEF WaitInv

\* The invariant holds of the deployed contract.
LEMMA WaitInvInit == Init => WaitInv
<1> SUFFICES ASSUME Init PROVE WaitInv
  OBVIOUS
<1>1. Len(pending_interactions) = 0 /\ Len(executed) = 0
  BY DEF Init
<1> QED
  BY <1>1, TypeInit DEF WaitInv, Numbered

\* Every step of the contract keeps it.
LEMMA WaitInvNext == WaitInv /\ [Next]_vars => WaitInv'
<1> SUFFICES ASSUME WaitInv, [Next]_vars PROVE WaitInv'
  OBVIOUS
<1>1. TypeOK'
  BY TypeNext DEF WaitInv
<1>2. ASSUME NEW sender \in Addresses, NEW inst \in InstanceIds, NEW task \in Tasks,
             submit_interaction(sender, inst, task)
      PROVE  WaitInv'
  BY <1>1, <1>2, SubmitKeepsWaiting
<1>3. ASSUME NEW orderer \in Addresses, NEW vote \in Votes, order_interactions(orderer, vote)
      PROVE  WaitInv'
  BY <1>1, <1>3, OrderMoves, MovesKeeps
<1>4. ASSUME release PROVE WaitInv'
  BY <1>1, <1>4, ReleaseMoves, MovesKeeps
<1>5. CASE NextBlock
  <2>1. /\ block' = block + 1 /\ block \in Nat
        /\ UNCHANGED <<pending_interactions, pending_interactions_count, index_block, executed>>
    BY <1>5 DEF NextBlock, contractVars, WaitInv, TypeOK
  <2>2. \A i \in 1..Len(pending_interactions) : pending_interactions[i].block_number \in Nat
    BY WaitingTypes DEF WaitInv
  <2>3. \A i \in 1..Len(pending_interactions) : pending_interactions[i].block_number <= block + 1
    BY <2>1, <2>2 DEF WaitInv
  <2> QED
    BY <1>1, <2>1, <2>3 DEF WaitInv
<1>6. CASE WorkflowCall \/ UNCHANGED vars
  <2>1. UNCHANGED <<block, contractVars>>
    BY <1>6 DEF WorkflowCall, vars
  <2> QED
    BY <1>1, <2>1 DEF WaitInv, contractVars
<1> QED
  BY <1>2, <1>3, <1>4, <1>5, <1>6 DEF Next

-----------------------------------------------------------------------------
\* What is executed was submitted in an earlier block: the window was closed,
\* and nothing that waits is younger than it (ConsensusContract.sol:48, 122, 214).
THEOREM OrderingExecutesLater == Spec => ExecutedInALaterBlock
<1> DEFINE Later ==
      \A i \in DOMAIN pending_interactions :
        pending_interactions[i].id \in ToSet(Batch) => block > pending_interactions[i].block_number
<1>1. ASSUME WaitInv, Next PROVE Later
  <2>1. Len(executed) \in Nat /\ executed \in Seq(ListIds)
    BY <1>1 DEF WaitInv, TypeOK, ListIds
  <2>2. ASSUME executed' = executed PROVE Later
    <3>1. Batch = <<>>
      BY <2>1, <2>2 DEF Batch
    <3>2. ToSet(Batch) = {}
      BY <3>1 DEF ToSet
    <3> QED
      BY <3>2
  <2>3. ASSUME Moves PROVE Later
    <3>1. /\ index_block # 0 /\ block >= index_block + block_interval
      BY <2>3 DEF Moves, WindowClosed
    <3>2. DOMAIN pending_interactions = 1..Len(pending_interactions)
          /\ block \in Nat /\ index_block \in Nat
          /\ \A i \in 1..Len(pending_interactions) : pending_interactions[i].block_number \in Nat
      BY <1>1, WaitingTypes DEF WaitInv, TypeOK
    <3> QED
      BY <1>1, <3>1, <3>2 DEF WaitInv, block_interval
  <2>4. CASE \E sender \in Addresses, inst \in InstanceIds, task \in Tasks :
               submit_interaction(sender, inst, task)
    BY <2>2, <2>4 DEF submit_interaction
  <2>5. CASE \E orderer \in Addresses, vote \in Votes : order_interactions(orderer, vote)
    BY <1>1, <2>3, <2>5, OrderMoves
  <2>6. CASE release
    BY <1>1, <2>3, <2>6, ReleaseMoves
  <2>7. CASE NextBlock \/ WorkflowCall
    BY <2>2, <2>7 DEF NextBlock, WorkflowCall, contractVars
  <2> HIDE DEF Later
  <2> QED
    BY <1>1, <2>4, <2>5, <2>6, <2>7 DEF Next
<1>2. WaitInv /\ [Next]_vars => [Later]_vars
  BY <1>1
<1> QED
  BY <1>2, WaitInvInit, WaitInvNext, PTL DEF Spec, ExecutedInALaterBlock

\* The ordering contract implements the ledger (ConsensusContract.sol:43-58, 120-199):
\* a submission is numbered and waits, whatever is voted each is executed at most
\* once, and one that was withdrawn by a conflict never.
THEOREM OrderingImplementsLedger == Spec => ImplementsLedger
<1> DEFINE issued == pending_interactions_count - 1
           waiting == Ids(pending_interactions)
<1>1. Init => Ledger!Init
  <2> SUFFICES ASSUME Init PROVE Ledger!Init
    OBVIOUS
  <2>1. pending_interactions = <<>> /\ pending_interactions_count = 1 /\ executed = <<>>
    BY DEF Init
  <2> QED
    BY <2>1 DEF Ledger!Init, Ids
<1>2. ASSUME WaitInv, TypeOK', NEW sender \in Addresses, NEW inst \in InstanceIds,
             NEW task \in Tasks, submit_interaction(sender, inst, task)
      PROVE  Ledger!Submit
  <2> DEFINE n == Len(pending_interactions)
  <2>1. /\ pending_interactions_count \in Nat /\ n \in Nat
        /\ pending_interactions \in Seq(Interactions)
    BY <1>2 DEF WaitInv, TypeOK
  <2>2. /\ Len(pending_interactions') = n + 1
        /\ \A i \in 1..n : pending_interactions'[i] = pending_interactions[i]
        /\ pending_interactions'[n+1].id = pending_interactions_count
        /\ DOMAIN pending_interactions = 1..n
        /\ DOMAIN pending_interactions' = 1..(n+1)
    BY <1>2, <2>1 DEF submit_interaction
  <2>3. /\ pending_interactions_count' = pending_interactions_count + 1
        /\ executed' = executed
    BY <1>2 DEF submit_interaction
  <2> HIDE DEF n
  <2>4. \A i \in 1..(n+1) : i \in 1..n \/ i = n + 1
    BY <2>1
  <2>5. 1..n \subseteq 1..(n+1) /\ n + 1 \in 1..(n+1)
    BY <2>1
  <2>6. Ids(pending_interactions)' = Ids(pending_interactions) \cup {pending_interactions_count}
    BY <2>2, <2>4, <2>5 DEF Ids
  <2>7. (pending_interactions_count - 1)' = (pending_interactions_count - 1) + 1
        /\ (pending_interactions_count - 1)' = pending_interactions_count
    BY <2>1, <2>3
  <2> QED
    BY <2>3, <2>6, <2>7 DEF Ledger!Submit
<1>3. ASSUME WaitInv, TypeOK', Moves
      PROVE  Ledger!Decide
  <2>1. WaitInv'
    BY <1>3, MovesKeeps
  <2> DEFINE n == Len(executed)
             m == Len(executed')
             ids == 1..(pending_interactions_count - 1)
             batch == SubSeq(executed', n + 1, m)
  <2>2. /\ executed \in Seq(Nat \ {0}) /\ executed' \in Seq(Nat \ {0})
        /\ n \in Nat /\ m \in Nat /\ n <= m
        /\ pending_interactions_count \in Nat
        /\ pending_interactions_count' = pending_interactions_count
    BY <1>3, MovesLedger DEF WaitInv, TypeOK, Moves
  <2>3. Ids(pending_interactions') \subseteq Ids(pending_interactions)
    <3>1. DOMAIN pending_interactions = 1..Len(pending_interactions)
          /\ DOMAIN pending_interactions' = 1..Len(pending_interactions')
      BY <1>3 DEF WaitInv, TypeOK
    <3> QED
      BY <1>3, <3>1, MovesWaiting DEF Ids
  <2>4. executed' \in Seq(ids)
    <3>1. \A k \in 1..m : executed'[k] \in ids
      BY <2>1, <2>2 DEF WaitInv
    <3>2. executed' = [k \in 1..m |-> executed'[k]]
      BY <2>2
    <3>3. executed' \in [1..m -> ids]
      BY <3>1, <3>2
    <3> QED
      BY <2>2, <3>3, FunctionIsSeq
  <2>5. IsPrefix(executed, executed')
    <3>1. \A k \in 1..n : executed'[k] = executed[k]
      BY <1>3, MovesLedger
    <3>2. SubSeq(executed, 1, n) = [k \in 1..n |-> executed[k]]
          /\ SubSeq(executed', 1, n) = [k \in 1..n |-> executed'[k]]
      BY <2>2
    <3> QED
      BY <2>2, <3>1, <3>2 DEF IsPrefix
  <2>6. /\ DOMAIN batch = 1..(m - n)
        /\ \A k \in 1..(m - n) : batch[k] = executed'[n + k] /\ n + k \in (n+1)..m
    BY <2>2
  <2>7. /\ \A k \in (n + 1)..m :
             /\ \E j \in 1..Len(pending_interactions) :
                   executed'[k] = pending_interactions[j].id
             /\ \A i \in 1..Len(pending_interactions') :
                   executed'[k] # pending_interactions'[i].id
        /\ \A k, l \in (n + 1)..m : executed'[k] = executed'[l] => k = l
    BY <1>3, MovesLedger
  <2> HIDE DEF n, m, batch
  <2>8. IsInjective(batch)
    <3> SUFFICES ASSUME NEW k \in 1..(m - n), NEW l \in 1..(m - n), batch[k] = batch[l]
                 PROVE  k = l
      BY <2>6 DEF IsInjective
    <3>1. n + k = n + l
      BY <2>6, <2>7
    <3> QED
      BY <2>2, <3>1
  <2>9. ToSet(batch) \subseteq Ids(pending_interactions) \ Ids(pending_interactions')
    <3> SUFFICES ASSUME NEW k \in (n + 1)..m
                 PROVE  executed'[k] \in Ids(pending_interactions) \ Ids(pending_interactions')
      BY <2>6 DEF ToSet
    <3>1. DOMAIN pending_interactions = 1..Len(pending_interactions)
          /\ DOMAIN pending_interactions' = 1..Len(pending_interactions')
      BY <1>3 DEF WaitInv, TypeOK
    <3> QED
      BY <2>7, <3>1 DEF Ids
  <2>10. batch = Ledger!Batch
    BY DEF Ledger!Batch, batch, n, m
  <2> QED
    <3>1. Ids(pending_interactions)' = Ids(pending_interactions')
      BY DEF Ids
    <3>2. ids = 1..(pending_interactions_count - 1)
      BY DEF ids
    <3> HIDE DEF ids
    <3>3. waiting' \subseteq waiting
      BY <2>3, <3>1
    <3>4. executed' \in Seq(1..issued)
      BY <2>4, <3>2
    <3>5. issued' = issued
      BY <2>2
    <3>6. Ledger!IsPrefix(executed, executed')
      BY <2>5 DEF IsPrefix, Ledger!IsPrefix
    <3>7. Ledger!IsInjective(Ledger!Batch)
      BY <2>8, <2>10 DEF IsInjective, Ledger!IsInjective
    <3>8. Ledger!ToSet(Ledger!Batch) \subseteq waiting \ waiting'
      BY <2>9, <2>10, <3>1 DEF ToSet, Ledger!ToSet
    <3> QED
      BY <3>3, <3>4, <3>5, <3>6, <3>7, <3>8 DEF Ledger!Decide
<1>4. WaitInv /\ WaitInv' /\ [Next]_vars => [Ledger!Next]_<<issued, waiting, executed>>
  <2> SUFFICES ASSUME WaitInv, WaitInv', [Next]_vars
               PROVE  Ledger!Next \/ UNCHANGED <<issued, waiting, executed>>
    OBVIOUS
  <2>0. TypeOK'
    BY DEF WaitInv
  <2>1. CASE \E sender \in Addresses, inst \in InstanceIds, task \in Tasks :
               submit_interaction(sender, inst, task)
    BY <1>2, <2>0, <2>1 DEF Ledger!Next
  <2>2. CASE \E orderer \in Addresses, vote \in Votes : order_interactions(orderer, vote)
    BY <1>3, <2>0, <2>2, OrderMoves DEF Ledger!Next
  <2>3. CASE release
    BY <1>3, <2>0, <2>3, ReleaseMoves DEF Ledger!Next
  <2>4. CASE NextBlock \/ WorkflowCall \/ UNCHANGED vars
    BY <2>4 DEF NextBlock, WorkflowCall, contractVars, vars, Ids
  <2> QED
    BY <2>1, <2>2, <2>3, <2>4 DEF Next
<1> QED
  BY <1>1, <1>4, WaitInvInit, WaitInvNext, PTL DEF Spec, ImplementsLedger, Ledger!Spec

\* What is proved of the abstract ledger holds of the contract's.
Promise == INSTANCE InteractionLedgerProofs
             WITH issued  <- pending_interactions_count - 1,
                  waiting <- Ids(pending_interactions),
                  ledger  <- executed

\* Whatever the orderers vote, an interaction is executed at most once, and none
\* that was executed is still waiting to be (ConsensusContract.sol:136-151, 168-190).
THEOREM OrderingAtMostOnce == Spec => []Ledger!AtMostOnce
<1>1. Ledger!Init <=> Promise!Init
  BY DEF Ledger!Init, Promise!Init
<1>2. Ledger!Submit <=> Promise!Submit
  BY DEF Ledger!Submit, Promise!Submit
<1>3. Ledger!Batch = Promise!Batch
  BY DEF Ledger!Batch, Promise!Batch
<1>4. Ledger!Decide <=> Promise!Decide
  BY <1>3 DEF Ledger!Decide, Promise!Decide, Ledger!IsPrefix, Promise!IsPrefix,
              Ledger!IsInjective, Promise!IsInjective, Ledger!ToSet, Promise!ToSet
<1>5. Ledger!Next <=> Promise!Next
  BY <1>2, <1>4 DEF Ledger!Next, Promise!Next
<1>6. Promise!AtMostOnce <=> Ledger!AtMostOnce
  BY DEF Ledger!AtMostOnce, Promise!AtMostOnce, Ledger!IsInjective,
         Promise!IsInjective, Ledger!ToSet, Promise!ToSet
<1>7. Promise!Spec => []Promise!AtMostOnce
  BY Promise!LedgerAtMostOnce
<1> QED
  BY <1>1, <1>5, <1>6, <1>7, OrderingImplementsLedger, PTL
     DEF ImplementsLedger, Ledger!Spec, Promise!Spec
=============================================================================
