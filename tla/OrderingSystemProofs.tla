------------------------ MODULE OrderingSystemProofs ------------------------
(***************************************************************************)
(* Theorems about OrderingSystem, for any accounts, instances and parties, *)
(* any event log and any lateness: its types, and that the script together *)
(* with the blocks does to the contract nothing but what OrderingContract  *)
(* allows, so that what is proved of the contract holds under the script.  *)
(***************************************************************************)
EXTENDS OrderingSystem, OrderingMergeProofs

\* The calls of the process.
Calls == [task : Tasks, instance : InstanceIds]

-----------------------------------------------------------------------------
(* Sending and executing: the two loops of ProcessClient.                   *)

\* Sending one call.
SendStep(box, calls, k) ==
  [box EXCEPT ![Sender[calls[k].instance][calls[k].task]] = Append(@, TaskTx(calls[k]))]

\* Sending a number of calls leads from S[0] to S[n] when each leads on.
LEMMA SentLoop ==
  ASSUME NEW box, NEW calls, Len(calls) \in Nat, NEW S, box \in S[0],
         \A i \in 1..Len(calls) : \A x \in S[i-1] : SendStep(x, calls, i) \in S[i]
  PROVE  Sent(box, calls) \in S[Len(calls)]
<1> DEFINE n == Len(calls)
           init == box
           T == UNION {S[i] : i \in 0..n}
           step == [x \in T \X (1..n) |-> SendStep(x[1], calls, x[2])]
           Is(f) == f = [i \in 0..n |-> IF i = 0 THEN init ELSE SendStep(f[i-1], calls, i)]
           run == CHOOSE f : Is(f)
<1> HIDE DEF n, init, T, step, Is, run
<1>0. n \in Nat /\ n \in 0..n /\ init \in S[0]
  BY DEF n, init
<1>1. ASSUME NEW i \in 1..n, NEW x \in S[i-1]
      PROVE  step[<<x, i>>] = SendStep(x, calls, i)
  <2>1. i - 1 \in 0..n
    BY <1>0
  <2>2. x \in T
    BY <2>1 DEF T
  <2> QED
    BY <2>2 DEF step
<1>2. PICK f : IsRun(f, init, step, n) /\ \A i \in 0..n : f[i] \in S[i]
  <2>1. LeadsThrough(step, S, n)
    BY <1>1 DEF LeadsThrough, n
  <2> QED
    BY <1>0, <2>1, LoopExists
<1>3. Is(f)
  <2>1. ASSUME NEW i \in 0..n
        PROVE  f[i] = IF i = 0 THEN init ELSE SendStep(f[i-1], calls, i)
    <3>1. CASE i = 0
      BY <1>2, <3>1 DEF IsRun
    <3>2. CASE i # 0
      <4>1. i \in 1..n /\ i - 1 \in 0..n
        BY <1>0, <3>2
      <4> QED
        BY <1>1, <1>2, <3>2, <4>1 DEF IsRun
    <3> QED
      BY <3>1, <3>2
  <2>2. [i \in 0..n |-> f[i]] = [i \in 0..n |-> IF i = 0 THEN init ELSE SendStep(f[i-1], calls, i)]
    BY <2>1, Zenon
  <2> QED
    BY <1>2, <2>2 DEF IsRun, Is
<1>4. Is(run)
  BY <1>3 DEF run
<1>5. run[0] = init /\ \A i \in 1..n : run[i] = SendStep(run[i-1], calls, i)
  BY <1>0, <1>4 DEF Is
<1>6. \A i \in 0..n : run[i] \in S[i]
  BY <1>0, <1>5, LoopInvariant DEF n
<1>7. Sent(box, calls) = run[n]
  BY DEF Sent, SendStep, run, Is, n, init
<1> QED
  BY <1>0, <1>6, <1>7 DEF n

\* Sending calls puts transactions into outboxes, and nothing else.
LEMMA SentType ==
  ASSUME NEW T, NEW box \in [Addresses -> Seq(T)], NEW calls \in Seq(Calls),
         \A c \in Calls : TaskTx(c) \in T
  PROVE  Sent(box, calls) \in [Addresses -> Seq(T)]
<1> DEFINE n == Len(calls)
           Boxes == [Addresses -> Seq(T)]
           S == [i \in 0..n |-> Boxes]
<1>1. n \in Nat /\ \A i \in 1..n : calls[i] \in Calls
  OBVIOUS
<1>2. box \in S[0]
  BY <1>1
<1>3. ASSUME NEW i \in 1..n, NEW x \in S[i-1]
      PROVE  SendStep(x, calls, i) \in S[i]
  <2>1. i \in 0..n /\ i - 1 \in 0..n
    BY <1>1
  <2>2. x \in Boxes
    BY <2>1
  <2>3. calls[i].instance \in InstanceIds /\ calls[i].task \in Tasks
    BY <1>1 DEF Calls
  <2>4. Sender[calls[i].instance][calls[i].task] \in Addresses
    BY <2>3, ClientAssumption
  <2>5. TaskTx(calls[i]) \in T
    BY <1>1
  <2> DEFINE a == Sender[calls[i].instance][calls[i].task]
             tx == TaskTx(calls[i])
  <2>6. SendStep(x, calls, i) = [x EXCEPT ![a] = Append(x[a], tx)]
    BY DEF SendStep
  <2> HIDE DEF a, tx, S
  <2>7. a \in Addresses /\ tx \in T
    BY <2>4, <2>5 DEF a, tx
  <2>8. Append(x[a], tx) \in Seq(T)
    BY <2>2, <2>7
  <2>9. SendStep(x, calls, i) \in Boxes
    BY <2>2, <2>6, <2>7, <2>8
  <2> QED
    BY <2>1, <2>9 DEF S
<1> HIDE DEF S
<1>4. Sent(box, calls) \in S[n]
  BY <1>1, <1>2, <1>3, SentLoop
<1> QED
  BY <1>1, <1>4 DEF S

\* Executing one transaction.
RunStep(r, txs, k) ==
  LET c == txs[k].call
      opened == Opens(c.task, r.w.supplies)
                  \cap {"deliveryDetails", "insufficientSupplies", "itemDelivered"}
  IN  IF txs[k] = SuppliesTx THEN [r EXCEPT !.w.supplies = 1]
      ELSE IF c.task \notin r.w.tasks_state[c.instance]
           THEN [r EXCEPT !.failed = @ \cup {k}]
      ELSE [r EXCEPT
              !.w        = CallTask(@, c.task, c.instance),
              !.enabled  = @ \o SetToSeq({Call(t, c.instance) : t \in opened}),
              !.executed = IF c.task = "purchaseOrder" THEN @ ELSE Append(@, c)]

\* What the execution of a number of transactions starts from.
RunStart(w) == [w |-> w, enabled |-> <<>>, executed |-> <<>>, failed |-> {}]

\* Executing a number of transactions leads from S[0] to S[n] when each leads on.
LEMMA RunLoop ==
  ASSUME NEW w, NEW txs, Len(txs) \in Nat, NEW S, RunStart(w) \in S[0],
         \A i \in 1..Len(txs) : \A x \in S[i-1] : RunStep(x, txs, i) \in S[i]
  PROVE  Run(w, txs) \in S[Len(txs)]
<1> DEFINE n == Len(txs)
           init == RunStart(w)
           T == UNION {S[i] : i \in 0..n}
           step == [x \in T \X (1..n) |-> RunStep(x[1], txs, x[2])]
           Is(f) == f = [i \in 0..n |-> IF i = 0 THEN init ELSE RunStep(f[i-1], txs, i)]
           run == CHOOSE f : Is(f)
<1> HIDE DEF n, init, T, step, Is, run
<1>0. n \in Nat /\ n \in 0..n /\ init \in S[0]
  BY DEF n, init
<1>1. ASSUME NEW i \in 1..n, NEW x \in S[i-1]
      PROVE  step[<<x, i>>] = RunStep(x, txs, i)
  <2>1. i - 1 \in 0..n
    BY <1>0
  <2>2. x \in T
    BY <2>1 DEF T
  <2> QED
    BY <2>2 DEF step
<1>2. PICK f : IsRun(f, init, step, n) /\ \A i \in 0..n : f[i] \in S[i]
  <2>1. LeadsThrough(step, S, n)
    BY <1>1 DEF LeadsThrough, n
  <2> QED
    BY <1>0, <2>1, LoopExists
<1>3. Is(f)
  <2>1. ASSUME NEW i \in 0..n
        PROVE  f[i] = IF i = 0 THEN init ELSE RunStep(f[i-1], txs, i)
    <3>1. CASE i = 0
      BY <1>2, <3>1 DEF IsRun
    <3>2. CASE i # 0
      <4>1. i \in 1..n /\ i - 1 \in 0..n
        BY <1>0, <3>2
      <4> QED
        BY <1>1, <1>2, <3>2, <4>1 DEF IsRun
    <3> QED
      BY <3>1, <3>2
  <2>2. [i \in 0..n |-> f[i]] = [i \in 0..n |-> IF i = 0 THEN init ELSE RunStep(f[i-1], txs, i)]
    BY <2>1, Zenon
  <2> QED
    BY <1>2, <2>2 DEF IsRun, Is
<1>4. Is(run)
  BY <1>3 DEF run
<1>5. run[0] = init /\ \A i \in 1..n : run[i] = RunStep(run[i-1], txs, i)
  BY <1>0, <1>4 DEF Is
<1>6. \A i \in 0..n : run[i] \in S[i]
  BY <1>0, <1>5, LoopInvariant DEF n
<1>7. Run(w, txs) = run[n]
  BY DEF Run, RunStep, RunStart, run, Is, n, init
<1> QED
  BY <1>0, <1>6, <1>7 DEF n

\* The state of the workflow, and what executing transactions on it returns.
Works == [tasks_state : [InstanceIds -> SUBSET Tasks], supplies : Nat]

\* What Run returns.
Runs == [w : Works, enabled : Seq(Calls), executed : Seq(Calls), failed : SUBSET Nat]

\* The transactions that ProcessClient executes.
Executable == {TaskTx(c) : c \in Calls} \cup {SuppliesTx}

\* An array of at most one call.
LEMMA AtMostOneCall ==
  ASSUME NEW A, A = {} \/ \E e \in Calls : A = {e}
  PROVE  SetToSeq(A) \in Seq(Calls)
<1>1. CASE A = {}
  <2>1. Cardinality(A) = 0
    BY <1>1, FS_EmptySet
  <2> DEFINE f == [i \in 1..0 |-> 0]
  <2>2. f \in [1..0 -> A] /\ IsInjective(f)
    BY DEF IsInjective
  <2>3. SetToSeq(A) \in [1..0 -> A]
    <3> HIDE DEF f
    <3> QED
      BY <2>1, <2>2 DEF SetToSeq
  <2>4. SetToSeq(A) \in [1..0 -> Calls]
    BY <1>1, <2>3
  <2> QED
    BY <2>4, FunctionIsSeq
<1>2. ASSUME NEW e \in Calls, A = {e}
      PROVE  SetToSeq(A) \in Seq(Calls)
  <2>1. Cardinality(A) = 1
    BY <1>2, FS_Singleton
  <2> DEFINE f == [i \in 1..1 |-> e]
  <2>2. f \in [1..1 -> A] /\ IsInjective(f)
    BY <1>2 DEF IsInjective
  <2>3. SetToSeq(A) \in [1..1 -> A]
    <3> HIDE DEF f
    <3> QED
      BY <2>1, <2>2 DEF SetToSeq
  <2>4. SetToSeq(A) \in [1..1 -> Calls]
    BY <1>2, <2>3
  <2> QED
    BY <2>4, FunctionIsSeq
<1> QED
  BY <1>1, <1>2

\* A task opens at most one of the tasks that somebody waits for.
LEMMA OpenedCalls ==
  ASSUME NEW task, NEW stock, NEW inst \in InstanceIds
  PROVE  LET opened == Opens(task, stock)
                         \cap {"deliveryDetails", "insufficientSupplies", "itemDelivered"}
         IN  SetToSeq({Call(t, inst) : t \in opened}) \in Seq(Calls)
<1> DEFINE opened == Opens(task, stock)
                       \cap {"deliveryDetails", "insufficientSupplies", "itemDelivered"}
           A == {Call(t, inst) : t \in opened}
<1>1. opened = {} \/ \E t \in Tasks : opened = {t}
  <2>1. CASE task = "purchaseOrder"
    <3>1. opened = IF stock > 0 THEN {"deliveryDetails"} ELSE {"insufficientSupplies"}
      BY <2>1 DEF Opens
    <3> QED
      BY <3>1 DEF Tasks
  <2>2. CASE task = "deliveryDetails"
    BY <2>2 DEF Opens
  <2>3. CASE task = "confirmShipping"
    <3>1. opened = {"itemDelivered"}
      BY <2>3 DEF Opens
    <3> QED
      BY <3>1 DEF Tasks
  <2>4. CASE task \notin {"purchaseOrder", "deliveryDetails", "confirmShipping"}
    <3>1. Opens(task, stock) = {"purchaseOrder"}
      BY <2>4 DEF Opens
    <3> QED
      BY <3>1
  <2> QED
    BY <2>1, <2>2, <2>3, <2>4
<1> HIDE DEF opened
<1>2. ASSUME opened = {}
      PROVE  SetToSeq(A) \in Seq(Calls)
  <2>1. A = {}
    BY <1>2
  <2> HIDE DEF A
  <2> QED
    BY <2>1, AtMostOneCall
<1>3. ASSUME NEW t \in Tasks, opened = {t}
      PROVE  SetToSeq(A) \in Seq(Calls)
  <2>1. Call(t, inst) \in Calls
    BY DEF Call, Calls
  <2>2. A = {Call(t, inst)}
    BY <1>3
  <2> HIDE DEF A
  <2> QED
    BY <2>1, <2>2, AtMostOneCall
<1> QED
  BY <1>1, <1>2, <1>3 DEF opened

\* Executing a transaction.
LEMMA RunStepType ==
  ASSUME NEW r \in Runs, NEW txs \in Seq(Executable), NEW k \in 1..Len(txs)
  PROVE  RunStep(r, txs, k) \in Runs
<1> DEFINE c == txs[k].call
           opened == Opens(c.task, r.w.supplies)
                       \cap {"deliveryDetails", "insufficientSupplies", "itemDelivered"}
           w == CallTask(r.w, c.task, c.instance)
           more == r.enabled \o SetToSeq({Call(t, c.instance) : t \in opened})
           done == IF c.task = "purchaseOrder" THEN r.executed ELSE Append(r.executed, c)
<1>1. /\ r.w \in Works /\ r.enabled \in Seq(Calls) /\ r.executed \in Seq(Calls)
      /\ r.failed \in SUBSET Nat
  BY DEF Runs
<1>2. txs[k] \in Executable /\ k \in Nat
  OBVIOUS
<1>3. CASE txs[k] = SuppliesTx
  <2>1. RunStep(r, txs, k) = [r EXCEPT !.w.supplies = 1]
    BY <1>3 DEF RunStep
  <2>2. [r.w EXCEPT !.supplies = 1] \in Works
    BY <1>1 DEF Works
  <2> QED
    BY <1>1, <2>1, <2>2 DEF Runs
<1>4. CASE txs[k] # SuppliesTx
  <2>1. c \in Calls
    BY <1>2, <1>4 DEF Executable, TaskTx
  <2>2. c.task \in Tasks /\ c.instance \in InstanceIds
    BY <2>1 DEF Calls
  <2>3. w \in Works
    <3> DEFINE ts == r.w.tasks_state
               stock == r.w.supplies
    <3>1. /\ ts \in [InstanceIds -> SUBSET Tasks] /\ stock \in Nat
          /\ r.w = [tasks_state |-> ts, supplies |-> stock]
      BY <1>1 DEF Works
    <3> HIDE DEF ts, stock, c
    <3> DEFINE v == CallTask([tasks_state |-> ts, supplies |-> stock], c.task, c.instance)
    <3>3. v.tasks_state \in [InstanceIds -> SUBSET Tasks] /\ v.supplies \in Nat
      BY <2>2, <3>1, CallTaskType
    <3>4. v = [tasks_state |-> v.tasks_state, supplies |-> v.supplies]
      BY <3>1 DEF CallTask
    <3> QED
      BY <3>1, <3>3, <3>4 DEF Works
  <2>4. more \in Seq(Calls)
    <3>1. SetToSeq({Call(t, c.instance) : t \in opened}) \in Seq(Calls)
      BY <2>2, OpenedCalls
    <3> QED
      BY <1>1, <3>1
  <2>5. done \in Seq(Calls)
    BY <1>1, <2>1
  <2>6. r.failed \cup {k} \in SUBSET Nat
    BY <1>1, <1>2
  <2>7. RunStep(r, txs, k) = IF c.task \notin r.w.tasks_state[c.instance]
                             THEN [r EXCEPT !.failed = r.failed \cup {k}]
                             ELSE [r EXCEPT !.w = w, !.enabled = more, !.executed = done]
    BY <1>4 DEF RunStep
  <2> HIDE DEF w, more, done
  <2>8. [r EXCEPT !.w = w, !.enabled = more, !.executed = done] \in Runs
    BY <1>1, <2>3, <2>4, <2>5 DEF Runs
  <2>9. [r EXCEPT !.failed = r.failed \cup {k}] \in Runs
    BY <1>1, <2>6 DEF Runs
  <2> QED
    BY <2>7, <2>8, <2>9
<1> QED
  BY <1>3, <1>4

\* What executing transactions returns.
LEMMA RunType ==
  ASSUME NEW w \in Works, NEW txs \in Seq(Executable)
  PROVE  Run(w, txs) \in Runs
<1> DEFINE n == Len(txs)
           S == [i \in 0..n |-> Runs]
<1>1. n \in Nat
  OBVIOUS
<1>2. RunStart(w) \in S[0]
  <2>1. RunStart(w) \in Runs
    BY DEF RunStart, Runs
  <2> QED
    BY <1>1, <2>1
<1>3. ASSUME NEW i \in 1..n, NEW x \in S[i-1]
      PROVE  RunStep(x, txs, i) \in S[i]
  <2>1. i \in 0..n /\ i - 1 \in 0..n
    BY <1>1
  <2>2. x \in Runs
    BY <2>1
  <2>3. RunStep(x, txs, i) \in Runs
    BY <2>2, RunStepType
  <2> QED
    BY <2>1, <2>3
<1> HIDE DEF S
<1>4. Run(w, txs) \in S[n]
  BY <1>1, <1>2, <1>3, RunLoop
<1> QED
  BY <1>1, <1>4 DEF S

-----------------------------------------------------------------------------
(* The invariant of the system.                                             *)

\* The transactions that the script sends: a vote is on ids that were given out,
\* and on no more of them than there are.
Fitting ==
  {TaskTx(c) : c \in Calls} \cup {VoteTx(v) : v \in Votes} \cup {ReleaseTx, SuppliesTx}

\* The script itself, its events and its transactions.
ScriptInv ==
  /\ round \in 0..MaxRounds
  /\ phase \in {"start", "running", "resetting"}
  /\ phase # "start" => round < MaxRounds
  /\ complete \in [InstanceIds -> BOOLEAN]
  /\ counts \in [InstanceIds -> [Counted -> Nat]]
  /\ enabledEvents \in Seq(Calls)
  /\ executedEvents \in Seq(Calls)
  /\ outbox \in [Addresses -> Seq(Fitting)]
  /\ late \in 0..MaxLate
  /\ check \in {"armed", "mayVote", "mayNotVote", "ordering", "sent"}
  /\ permitted \subseteq 1..(pending_interactions_count - 1)
  /\ failed \in [InstanceIds -> Nat]

\* What the types rest on: the contract takes a vote only of ids that it gave out,
\* and it gave out no more than MaxSubmissions.
SystemInv ==
  /\ WaitInv
  /\ pending_interactions_count <= MaxSubmissions + 1
  /\ ScriptInv

\* The invariant types the system.
LEMMA SystemInvTypes == SystemInv => SystemTypeOK
<1> SUFFICES ASSUME SystemInv PROVE SystemTypeOK
  OBVIOUS
<1>1. TypeOK /\ ScriptInv /\ pending_interactions_count \in Nat \ {0}
  BY DEF SystemInv, WaitInv, TypeOK
<1>2. Fitting \subseteq Transactions
  <2>1. ASSUME NEW c \in Calls PROVE TaskTx(c) \in Transactions
    <3>1. PICK t \in Tasks, i \in InstanceIds : c = [task |-> t, instance |-> i]
      BY DEF Calls
    <3>2. TaskTx(c) = TaskTx(Call(t, i))
      BY <3>1 DEF Call
    <3> QED
      BY <3>2 DEF Transactions
  <2>2. ASSUME NEW v \in Votes PROVE VoteTx(v) \in Transactions
    <3>1. v \in Seq(Nat \ {0})
      BY <1>1, VotesType DEF ListIds
    <3>2. VoteTx(v) \in [kind : {"vote"}, vote : Seq(Nat \ {0})]
      BY <3>1 DEF VoteTx
    <3> QED
      BY <3>2 DEF Transactions
  <2>3. ReleaseTx \in Transactions /\ SuppliesTx \in Transactions
    BY DEF Transactions
  <2> QED
    BY <2>1, <2>2, <2>3 DEF Fitting
<1>3. outbox \in [Addresses -> Seq(Transactions)]
  <2>1. \A s \in Seq(Fitting) : s \in Seq(Transactions)
    BY <1>2
  <2> QED
    BY <1>1, <2>1 DEF ScriptInv
<1>4. permitted \subseteq Nat \ {0}
  BY <1>1 DEF ScriptInv
<1> QED
  BY <1>1, <1>3, <1>4 DEF ScriptInv, SystemTypeOK, Calls

\* It holds when the script is started.
LEMMA SystemInvInit == SystemInit => SystemInv
<1> SUFFICES ASSUME SystemInit PROVE SystemInv
  OBVIOUS
<1>1. WaitInv
  BY WaitInvInit DEF SystemInit
<1>2. pending_interactions_count = 1
  BY DEF SystemInit, Init
<1>3. ScriptInv
  BY ClientAssumption, SystemAssumption DEF SystemInit, ClientInit, ScriptInv, Counted
<1> QED
  BY <1>1, <1>2, <1>3, OrderingAssumption DEF SystemInv

\* More numbers.
LEMMA RangeGrows ==
  ASSUME NEW c \in Nat, NEW d \in Nat, c <= d
  PROVE  1..(c-1) \subseteq 1..(d-1)
OBVIOUS

\* What fits goes on fitting when more ids are given out.
LEMMA FittingGrows ==
  ASSUME pending_interactions_count \in Nat, pending_interactions_count' \in Nat,
         pending_interactions_count <= pending_interactions_count'
  PROVE  \A s \in Seq(Fitting) : s \in Seq(Fitting')
<1>1. 1..(pending_interactions_count - 1) \subseteq 1..(pending_interactions_count' - 1)
  BY RangeGrows
<1>2. \A v \in Votes : v \in Votes'
  <2> SUFFICES ASSUME NEW v \in Votes PROVE v \in Votes'
    OBVIOUS
  <2>1. PICK n \in 0..MaxVoteLength : v \in [1..n -> 1..(pending_interactions_count - 1)]
    BY DEF Votes
  <2>2. v \in [1..n -> 1..(pending_interactions_count' - 1)]
    BY <1>1, <2>1
  <2> QED
    BY <2>2 DEF Votes
<1>3. Fitting \subseteq Fitting'
  BY <1>2 DEF Fitting
<1> QED
  BY <1>3

\* A step that leaves the numbers alone and changes nothing of the script.
LEMMA ScriptStays ==
  ASSUME SystemInv, pending_interactions_count' = pending_interactions_count,
         UNCHANGED <<clientVars, late, counts, check, permitted, failed>>
  PROVE  ScriptInv'
<1>1. Fitting' = Fitting
  BY DEF Fitting, Votes
<1> QED
  BY <1>1 DEF SystemInv, ScriptInv, clientVars

-----------------------------------------------------------------------------
(* Each step of the system is a step of the contract, or none.              *)

\* What the head of an outbox may be.
LEMMA HeadFits ==
  ASSUME SystemInv, NEW a \in Addresses, outbox[a] # <<>>
  PROVE  /\ Head(outbox[a]) \in Fitting
         /\ Tail(outbox[a]) \in Seq(Fitting)
         /\ outbox \in [Addresses -> Seq(Fitting)]
<1>1. outbox \in [Addresses -> Seq(Fitting)]
  BY DEF SystemInv, ScriptInv
<1>2. outbox[a] \in Seq(Fitting)
  BY <1>1
<1> QED
  BY <1>1, <1>2

\* A transaction that is mined and takes effect is a step of the contract.
LEMMA EffectIsStep ==
  ASSUME NEW a \in Addresses, NEW tx \in Fitting, Effect(a, tx)
  PROVE  Next
<1>1. ASSUME NEW c \in Calls, tx = TaskTx(c)
      PROVE  Next
  <2>1. tx.kind = "task" /\ tx.call = c
    BY <1>1 DEF TaskTx
  <2>2. submit_interaction(a, c.instance, c.task)
    BY <2>1 DEF Effect
  <2>3. c.instance \in InstanceIds /\ c.task \in Tasks
    BY DEF Calls
  <2> QED
    BY <2>2, <2>3 DEF Next
<1>2. ASSUME NEW v \in Votes, tx = VoteTx(v)
      PROVE  Next
  <2>1. tx.kind = "vote" /\ tx.vote = v
    BY <1>2 DEF VoteTx
  <2>2. order_interactions(a, v)
    BY <2>1 DEF Effect
  <2> QED
    BY <2>2 DEF Next
<1>3. CASE tx = ReleaseTx
  <2>1. tx.kind = "release"
    BY <1>3 DEF ReleaseTx
  <2>2. release
    BY <2>1 DEF Effect
  <2> QED
    BY <2>2 DEF Next
<1>4. CASE tx = SuppliesTx
  <2>1. tx.kind = "supplies"
    BY <1>4 DEF SuppliesTx
  <2>2. resetSupplies(1) /\ UNCHANGED <<block, contractVars>>
    BY <2>1 DEF Effect
  <2>3. WorkflowCall
    BY <2>2, SystemAssumption DEF WorkflowCall
  <2> QED
    BY <2>3 DEF Next
<1> QED
  BY <1>1, <1>2, <1>3, <1>4 DEF Fitting

\* Whatever the script and the blocks do, the contract sees a step of its own.
LEMMA SystemStep ==
  ASSUME SystemInv, [SystemNext]_systemVars
  PROVE  [Next]_vars
<1>1. ASSUME NEW a \in Addresses, Mine(a)
      PROVE  [Next]_vars
  <2>1. Head(outbox[a]) \in Fitting
    BY <1>1, HeadFits DEF Mine
  <2>2. Effect(a, Head(outbox[a])) \/ UNCHANGED vars
    BY <1>1 DEF Mine
  <2> QED
    BY <2>1, <2>2, EffectIsStep
<1>2. CASE Tick
  BY <1>2 DEF Tick, Next
<1>3. ASSUME NEW i \in InstanceIds, HandleFailure(i)
      PROVE  UNCHANGED vars
  BY <1>3 DEF HandleFailure
<1>4. CASE CheckVote
  BY <1>4 DEF CheckVote, AskCanVote, AskPermitted, SendVote, AskIsolate, Rearm
<1>5. CASE Listen
  BY <1>5 DEF Listen
<1>6. CASE UNCHANGED systemVars
  BY <1>6 DEF systemVars
<1> QED
  BY <1>1, <1>2, <1>3, <1>4, <1>5, <1>6 DEF SystemNext

-----------------------------------------------------------------------------
(* The invariant is kept, action by action.                                 *)

\* What a step of the contract does to the numbers, and what it executes.
LEMMA StepExecutes ==
  ASSUME SystemInv, Next
  PROVE  /\ pending_interactions_count' \in Nat
         /\ pending_interactions_count <= pending_interactions_count'
         /\ pending_interactions_count' <= MaxSubmissions + 1
         /\ Executing \in Seq(Executable)
<1> DEFINE n == Len(executed)
           m == Len(executed')
<1>1. /\ WaitInv /\ TypeOK /\ pending_interactions_count \in Nat
      /\ executed \in Seq(ListIds) /\ n \in Nat
  BY DEF SystemInv, WaitInv, TypeOK, ListIds
<1>2. executed' = executed \/ Moves
  <2>1. CASE \E sender \in Addresses, inst \in InstanceIds, task \in Tasks :
               submit_interaction(sender, inst, task)
    BY <2>1 DEF submit_interaction
  <2>2. CASE \E orderer \in Addresses, vote \in Votes : order_interactions(orderer, vote)
    BY <1>1, <2>2, OrderMoves
  <2>3. CASE release
    BY <1>1, <2>3, ReleaseMoves
  <2>4. CASE NextBlock \/ WorkflowCall
    BY <2>4 DEF NextBlock, WorkflowCall, contractVars
  <2> QED
    BY <2>1, <2>2, <2>3, <2>4 DEF Next
<1>3. /\ pending_interactions_count' \in {pending_interactions_count,
                                          pending_interactions_count + 1}
      /\ pending_interactions_count' = pending_interactions_count
           \/ pending_interactions_count <= MaxSubmissions
  <2>1. CASE \E sender \in Addresses, inst \in InstanceIds, task \in Tasks :
               submit_interaction(sender, inst, task)
    BY <2>1 DEF submit_interaction
  <2>2. CASE \E orderer \in Addresses, vote \in Votes : order_interactions(orderer, vote)
    BY <2>2 DEF order_interactions
  <2>3. CASE release
    BY <2>3 DEF release
  <2>4. CASE NextBlock \/ WorkflowCall
    BY <2>4 DEF NextBlock, WorkflowCall, contractVars
  <2> QED
    BY <2>1, <2>2, <2>3, <2>4 DEF Next
<1>4. /\ pending_interactions_count' \in Nat
      /\ pending_interactions_count <= pending_interactions_count'
      /\ pending_interactions_count' <= MaxSubmissions + 1
  BY <1>1, <1>3, OrderingAssumption DEF SystemInv
<1>5. executed' \in Seq(ListIds) /\ m \in Nat
  <2>1. TypeOK'
    BY <1>1, TypeNext
  <2>2. executed' \in Seq(ListIds)
    BY <2>1 DEF TypeOK, ListIds
  <2> QED
    BY <2>2
<1>6. /\ DOMAIN Batch = 1..Len(Batch) /\ Len(Batch) \in Nat
      /\ \A k \in 1..Len(Batch) : Batch[k] = executed'[n + k] /\ n + k \in (n + 1)..m
  <2> HIDE DEF n, m
  <2>1. CASE n <= m
    <3>1. /\ DOMAIN Batch = 1..(m - n) /\ Len(Batch) = m - n
          /\ \A k \in 1..(m - n) : Batch[k] = executed'[n + k]
      BY <1>1, <1>5, <2>1 DEF Batch, n, m
    <3>2. \A k \in 1..(m - n) : n + k \in (n + 1)..m
      BY <1>1, <1>5, <2>1
    <3> QED
      BY <1>1, <1>5, <2>1, <3>1, <3>2
  <2>2. CASE n > m
    <3>1. Batch = <<>>
      BY <1>1, <1>5, <2>2 DEF Batch, n, m
    <3> QED
      BY <3>1
  <2> QED
    BY <1>1, <1>5, <2>1, <2>2
<1>7. ASSUME NEW k \in 1..Len(Batch)
      PROVE  Batch[k] \in Ids(pending_interactions)
  <2>1. executed' # executed
    BY <1>1, <1>6, <1>7
  <2>2. \E j \in 1..Len(pending_interactions) : executed'[n + k] = pending_interactions[j].id
    BY <1>2, <1>6, <1>7, <2>1, MovesLedger
  <2>3. DOMAIN pending_interactions = 1..Len(pending_interactions)
    BY <1>1, WaitingTypes
  <2> QED
    BY <1>6, <1>7, <2>2, <2>3 DEF Ids
<1>8. ASSUME NEW k \in 1..Len(Batch)
      PROVE  LET p == pending_interactions[IndexOf(pending_interactions, Batch[k])]
             IN  TaskTx(Call(p.task, p.instance)) \in Executable
  <2> DEFINE p == pending_interactions[IndexOf(pending_interactions, Batch[k])]
  <2>1. pending_interactions \in Seq(Interactions)
    BY <1>1 DEF TypeOK
  <2>2. p \in Interactions
    BY <1>7, <1>8, <2>1, IndexOfPending
  <2> HIDE DEF p
  <2>3. p.task \in Tasks /\ p.instance \in InstanceIds
    BY <2>2 DEF Interactions
  <2>4. Call(p.task, p.instance) \in Calls
    BY <2>3 DEF Call, Calls
  <2>5. TaskTx(Call(p.task, p.instance)) \in Executable
    BY <2>4 DEF Executable
  <2> QED
    BY <2>5 DEF p
<1>9. Executing \in [1..Len(Batch) -> Executable]
  BY <1>6, <1>8 DEF Executing
<1>10. Executing \in Seq(Executable)
  BY <1>6, <1>9, FunctionIsSeq
<1> QED
  BY <1>4, <1>10

\* A sequence of numbers to vote on is a vote that the contract can be sent.
LEMMA VoteFits ==
  ASSUME SystemInv, NEW vote \in SetToSeqs(permitted)
  PROVE  VoteTx(vote) \in Fitting
<1> DEFINE given == 1..(pending_interactions_count - 1)
           n == Cardinality(permitted)
<1>1. pending_interactions_count \in Nat \ {0} /\ permitted \subseteq given
  BY DEF SystemInv, ScriptInv, WaitInv, TypeOK
<1>2. IsFiniteSet(given) /\ Cardinality(given) = pending_interactions_count - 1
  <2>1. 1 \in Int /\ pending_interactions_count - 1 \in Int
    BY <1>1
  <2>2. /\ IsFiniteSet(given)
        /\ Cardinality(given) = IF 1 > pending_interactions_count - 1 THEN 0
                                ELSE (pending_interactions_count - 1) - 1 + 1
    BY <2>1, FS_Interval
  <2> QED
    BY <1>1, <2>2
<1> HIDE DEF given
<1>3. n \in Nat /\ n <= pending_interactions_count - 1
  <2>1. IsFiniteSet(permitted) /\ n <= Cardinality(given)
    BY <1>1, <1>2, FS_Subset
  <2>2. n \in Nat
    BY <2>1, FS_CardinalityType
  <2> QED
    BY <1>2, <2>1, <2>2
<1>4. n \in 0..MaxVoteLength
  <2>1. /\ pending_interactions_count <= MaxSubmissions + 1 /\ MaxSubmissions \in Nat
        /\ MaxVoteLength \in Nat /\ MaxSubmissions <= MaxVoteLength
    BY OrderingAssumption, SystemAssumption DEF SystemInv
  <2> HIDE DEF n
  <2> QED
    BY <1>1, <1>3, <2>1
<1>5. vote \in [1..n -> permitted]
  BY DEF SetToSeqs
<1> HIDE DEF n
<1>6. vote \in [1..n -> given]
  BY <1>1, <1>5
<1>7. vote \in Votes
  BY <1>4, <1>6 DEF Votes, given
<1> QED
  BY <1>7 DEF Fitting

\* A block takes a transaction: what is executed is announced, and a failure is
\* on its way to the script.
LEMMA MineKeeps ==
  ASSUME SystemInv, NEW a \in Addresses, Mine(a)
  PROVE  SystemInv'
<1>1. /\ Head(outbox[a]) \in Fitting /\ Tail(outbox[a]) \in Seq(Fitting)
      /\ outbox \in [Addresses -> Seq(Fitting)]
  BY HeadFits DEF Mine
<1>2. outbox' = [outbox EXCEPT ![a] = Tail(outbox[a])]
      /\ UNCHANGED <<round, phase, complete, counts, late, check, permitted>>
  BY DEF Mine
<1>3. outbox' \in [Addresses -> Seq(Fitting)]
  BY <1>1, <1>2
<1>4. /\ pending_interactions_count \in Nat \ {0}
      /\ enabledEvents \in Seq(Calls) /\ executedEvents \in Seq(Calls)
      /\ failed \in [InstanceIds -> Nat]
  BY DEF SystemInv, ScriptInv, WaitInv, TypeOK
<1>5. CASE Effect(a, Head(outbox[a])) /\ Announce(Run(Workflow, Executing)) /\ UNCHANGED failed
  <2>1. Next
    BY <1>1, <1>5, EffectIsStep
  <2>2. /\ pending_interactions_count' \in Nat
        /\ pending_interactions_count <= pending_interactions_count'
        /\ pending_interactions_count' <= MaxSubmissions + 1
        /\ Executing \in Seq(Executable)
    BY <2>1, StepExecutes
  <2>3. WaitInv'
    BY <2>1, WaitInvNext DEF SystemInv
  <2>4. Workflow \in Works
    BY DEF Workflow, Works, SystemInv, WaitInv, TypeOK, WorkflowTypeOK
  <2>5. Run(Workflow, Executing) \in Runs
    BY <2>2, <2>4, RunType
  <2>6. enabledEvents' \in Seq(Calls) /\ executedEvents' \in Seq(Calls)
    <3> DEFINE r == Run(Workflow, Executing)
    <3>1. r.enabled \in Seq(Calls) /\ r.executed \in Seq(Calls)
      BY <2>5 DEF Runs
    <3>2. enabledEvents' = enabledEvents \o r.enabled /\ executedEvents' = executedEvents \o r.executed
      BY <1>5 DEF Announce
    <3> HIDE DEF r
    <3> QED
      BY <1>4, <3>1, <3>2
  <2>7. outbox' \in [Addresses -> Seq(Fitting')]
    <3>1. \A s \in Seq(Fitting) : s \in Seq(Fitting')
      BY <1>4, <2>2, FittingGrows
    <3> QED
      BY <1>3, <3>1
  <2>8. permitted' \subseteq 1..(pending_interactions_count' - 1)
    <3>1. 1..(pending_interactions_count - 1) \subseteq 1..(pending_interactions_count' - 1)
      BY <1>4, <2>2, RangeGrows
    <3> QED
      BY <1>2, <3>1 DEF SystemInv, ScriptInv
  <2>9. ScriptInv'
    BY <1>2, <1>5, <2>6, <2>7, <2>8 DEF SystemInv, ScriptInv
  <2> QED
    BY <2>2, <2>3, <2>9 DEF SystemInv
<1>6. CASE /\ failed' = IF Head(outbox[a]).kind = "task"
                        THEN [failed EXCEPT ![Head(outbox[a]).call.instance] = @ + 1] ELSE failed
           /\ UNCHANGED <<vars, enabledEvents, executedEvents>>
  <2>1. WaitInv'
    BY <1>6, WaitInvNext DEF SystemInv
  <2>2. pending_interactions_count' = pending_interactions_count
    BY <1>6 DEF vars, contractVars
  <2>3. Fitting' = Fitting
    BY <2>2 DEF Fitting, Votes
  <2>4. failed' \in [InstanceIds -> Nat]
    <3> DEFINE i == Head(outbox[a]).call.instance
    <3>1. CASE i \in InstanceIds
      <4>1. failed[i] + 1 \in Nat
        BY <1>4, <3>1
      <4> QED
        BY <1>4, <1>6, <4>1
    <3>2. CASE i \notin InstanceIds
      <4>1. [failed EXCEPT ![i] = @ + 1] = failed
        BY <1>4, <3>2
      <4> QED
        BY <1>4, <1>6, <4>1
    <3> QED
      BY <3>1, <3>2
  <2>5. ScriptInv'
    BY <1>2, <1>3, <1>6, <2>2, <2>3, <2>4 DEF SystemInv, ScriptInv
  <2> QED
    BY <2>1, <2>2, <2>5 DEF SystemInv
<1> QED
  BY <1>5, <1>6 DEF Mine

\* checkVote reads what it may vote on, and sends a vote or a release.
LEMMA CheckVoteKeeps ==
  ASSUME SystemInv, CheckVote
  PROVE  ScriptInv'
<1>1. UNCHANGED <<vars, round, phase, complete, counts, enabledEvents, executedEvents,
                  late, failed>>
  BY DEF CheckVote, AskCanVote, AskPermitted, SendVote, AskIsolate, Rearm, clientVars
<1>2. pending_interactions_count' = pending_interactions_count
  BY <1>1 DEF vars, contractVars
<1>3. Fitting' = Fitting
  BY <1>2 DEF Fitting, Votes
<1>4. /\ outbox \in [Addresses -> Seq(Fitting)] /\ Store \in Addresses
      /\ permitted \subseteq 1..(pending_interactions_count - 1)
  BY ClientAssumption DEF SystemInv, ScriptInv
<1>5. ASSUME NEW tx \in Fitting, outbox' = [outbox EXCEPT ![Store] = Append(@, tx)]
      PROVE  outbox' \in [Addresses -> Seq(Fitting)]
  <2>1. Append(outbox[Store], tx) \in Seq(Fitting)
    BY <1>4
  <2> QED
    BY <1>4, <1>5, <2>1
<1>6. ASSUME check' \in {"armed", "mayVote", "mayNotVote", "ordering", "sent"},
             permitted' \subseteq 1..(pending_interactions_count - 1),
             outbox' \in [Addresses -> Seq(Fitting)]
      PROVE  ScriptInv'
  BY <1>1, <1>2, <1>3, <1>6 DEF SystemInv, ScriptInv
<1>7. CASE AskCanVote \/ Rearm
  BY <1>4, <1>6, <1>7 DEF AskCanVote, Rearm, clientVars
<1>8. CASE AskPermitted
  <2>1. permitted_interactions(Store) \subseteq 1..(pending_interactions_count - 1)
    <3> SUFFICES ASSUME NEW x \in permitted_interactions(Store)
                 PROVE  x \in 1..(pending_interactions_count - 1)
      OBVIOUS
    <3>1. PICK p \in ToSet(pending_interactions) : x = p.id
      BY DEF permitted_interactions
    <3>2. /\ DOMAIN pending_interactions = 1..Len(pending_interactions)
          /\ \A i \in 1..Len(pending_interactions) : pending_interactions[i].id \in Nat \ {0}
          /\ pending_interactions_count \in Nat
      BY WaitingTypes DEF SystemInv, WaitInv, TypeOK
    <3>3. PICK i \in 1..Len(pending_interactions) : p = pending_interactions[i]
      BY <3>1, <3>2 DEF ToSet
    <3>4. x \in Nat \ {0} /\ x < pending_interactions_count
      BY <3>1, <3>2, <3>3 DEF SystemInv, WaitInv
    <3> QED
      BY <3>2, <3>4
  <2>2. check' = "ordering" /\ permitted' = permitted_interactions(Store) /\ outbox' = outbox
    BY <1>8 DEF AskPermitted, clientVars
  <2> QED
    BY <1>4, <1>6, <2>1, <2>2
<1>9. CASE SendVote
  <2>1. PICK vote \in SetToSeqs(permitted) :
          outbox' = [outbox EXCEPT ![Store] = Append(@, VoteTx(vote))]
    BY <1>9 DEF SendVote
  <2>2. outbox' \in [Addresses -> Seq(Fitting)]
    BY <1>5, <2>1, VoteFits
  <2>3. check' = "sent" /\ permitted' = {}
    BY <1>9 DEF SendVote
  <2> QED
    BY <1>6, <2>2, <2>3
<1>10. CASE AskIsolate
  <2>1. ReleaseTx \in Fitting
    BY DEF Fitting
  <2>2. outbox' \in [Addresses -> Seq(Fitting)]
    BY <1>4, <1>5, <1>10, <2>1 DEF AskIsolate
  <2>3. check' \in {"armed", "sent"} /\ permitted' = permitted
    BY <1>10 DEF AskIsolate
  <2> QED
    BY <1>4, <1>6, <2>2, <2>3
<1> QED
  BY <1>7, <1>8, <1>9, <1>10 DEF CheckVote

\* A purchase for every instance.
LEMMA StartRoundKeeps ==
  ASSUME SystemInv, StartRound, UNCHANGED <<vars, late, counts, check, permitted, failed>>
  PROVE  ScriptInv'
<1> DEFINE calls == [i \in InstanceIds |-> Call("purchaseOrder", i)]
<1>1. /\ phase = "start" /\ round < MaxRounds /\ phase' = "running"
      /\ outbox' = Sent(outbox, calls)
      /\ UNCHANGED <<round, complete, enabledEvents, executedEvents>>
  BY DEF StartRound
<1>2. pending_interactions_count' = pending_interactions_count /\ Fitting' = Fitting
  BY DEF vars, contractVars, Fitting, Votes
<1>3. calls \in Seq(Calls)
  <2>1. \A i \in InstanceIds : Call("purchaseOrder", i) \in Calls
    BY DEF Call, Calls, Tasks
  <2>2. calls \in [1..MaxInstances -> Calls]
    BY <2>1 DEF InstanceIds
  <2> HIDE DEF calls
  <2> QED
    BY <2>2, WorkflowAssumption, FunctionIsSeq
<1> HIDE DEF calls
<1>4. outbox' \in [Addresses -> Seq(Fitting)]
  <2>1. outbox \in [Addresses -> Seq(Fitting)]
    BY DEF SystemInv, ScriptInv
  <2>2. \A c \in Calls : TaskTx(c) \in Fitting
    BY DEF Fitting
  <2> QED
    BY <1>1, <1>3, <2>1, <2>2, SentType
<1> QED
  BY <1>1, <1>2, <1>4 DEF SystemInv, ScriptInv

\* An event that a task is enabled makes the script send it.
LEMMA HandleEnabledKeeps ==
  ASSUME SystemInv, HandleEnabled, UNCHANGED <<vars, late, counts, check, permitted, failed>>
  PROVE  ScriptInv'
<1>1. /\ enabledEvents # <<>> /\ enabledEvents' = Tail(enabledEvents)
      /\ outbox' = Sent(outbox, <<Head(enabledEvents)>>)
      /\ UNCHANGED <<round, phase, complete, executedEvents>>
  BY DEF HandleEnabled
<1>2. pending_interactions_count' = pending_interactions_count /\ Fitting' = Fitting
  BY DEF vars, contractVars, Fitting, Votes
<1>3. enabledEvents \in Seq(Calls) /\ outbox \in [Addresses -> Seq(Fitting)]
  BY DEF SystemInv, ScriptInv
<1>4. enabledEvents' \in Seq(Calls) /\ <<Head(enabledEvents)>> \in Seq(Calls)
  BY <1>1, <1>3
<1>5. outbox' \in [Addresses -> Seq(Fitting)]
  <2>1. \A c \in Calls : TaskTx(c) \in Fitting
    BY DEF Fitting
  <2> QED
    BY <1>1, <1>3, <1>4, <2>1, SentType
<1> QED
  BY <1>1, <1>2, <1>4, <1>5 DEF SystemInv, ScriptInv

\* An event that a task was executed may complete the instance, is counted, and
\* after the delivery details makes the script send both sides of the choice.
LEMMA HandleExecutedKeeps ==
  ASSUME SystemInv, HandleExecuted, UNCHANGED <<vars, late, check, permitted, failed>>,
         LET e == Head(executedEvents)
             counted == IF e.task = "deliveryDetails" THEN "purchaseOrder" ELSE e.task
         IN  counts' = IF counted \in Counted
                       THEN [counts EXCEPT ![e.instance][counted] = @ + 1]
                       ELSE counts
  PROVE  ScriptInv'
<1> DEFINE e == Head(executedEvents)
           counted == IF e.task = "deliveryDetails" THEN "purchaseOrder" ELSE e.task
           choice == <<Call("confirmShipping", e.instance), Call("cancelOrder", e.instance)>>
<1>1. /\ executedEvents # <<>> /\ executedEvents' = Tail(executedEvents)
      /\ outbox' = IF e.task = "deliveryDetails" THEN Sent(outbox, choice) ELSE outbox
      /\ complete' = [complete EXCEPT ![e.instance] = @ \/ e.task \in Ends]
      /\ UNCHANGED <<round, phase, enabledEvents>>
  BY DEF HandleExecuted
<1>2. pending_interactions_count' = pending_interactions_count /\ Fitting' = Fitting
  BY DEF vars, contractVars, Fitting, Votes
<1>3. /\ executedEvents \in Seq(Calls) /\ outbox \in [Addresses -> Seq(Fitting)]
      /\ complete \in [InstanceIds -> BOOLEAN] /\ counts \in [InstanceIds -> [Counted -> Nat]]
  BY DEF SystemInv, ScriptInv
<1>4. executedEvents' \in Seq(Calls) /\ e \in Calls
  BY <1>1, <1>3
<1>5. e.instance \in InstanceIds
  BY <1>4 DEF Calls
<1> HIDE DEF e
<1>6. choice \in Seq(Calls)
  <2>1. Call("confirmShipping", e.instance) \in Calls /\ Call("cancelOrder", e.instance) \in Calls
    BY <1>5 DEF Call, Calls, Tasks
  <2> QED
    BY <2>1
<1> HIDE DEF choice
<1>7. outbox' \in [Addresses -> Seq(Fitting)]
  <2>1. \A c \in Calls : TaskTx(c) \in Fitting
    BY DEF Fitting
  <2>2. Sent(outbox, choice) \in [Addresses -> Seq(Fitting)]
    BY <1>3, <1>6, <2>1, SentType
  <2> QED
    BY <1>1, <1>3, <2>2
<1>8. complete' \in [InstanceIds -> BOOLEAN]
  BY <1>1, <1>3, <1>5
<1>9. counts' \in [InstanceIds -> [Counted -> Nat]]
  <2>1. counts' = IF counted \in Counted
                  THEN [counts EXCEPT ![e.instance][counted] = @ + 1] ELSE counts
    BY DEF e
  <2> HIDE DEF counted
  <2>2. CASE counted \in Counted
    <3>1. counts[e.instance] \in [Counted -> Nat]
      BY <1>3, <1>5
    <3>2. [counts[e.instance] EXCEPT ![counted] = @ + 1] \in [Counted -> Nat]
      BY <2>2, <3>1
    <3> QED
      BY <1>3, <1>5, <2>1, <2>2, <3>2
  <2> QED
    BY <1>3, <2>1, <2>2
<1> QED
  BY <1>1, <1>2, <1>4, <1>7, <1>8, <1>9 DEF SystemInv, ScriptInv

\* The script resets the supplies, and goes on with the next round.
LEMMA RoundEndKeeps ==
  ASSUME SystemInv, FinishRound \/ NextRound,
         UNCHANGED <<vars, late, counts, check, permitted, failed>>
  PROVE  ScriptInv'
<1>1. pending_interactions_count' = pending_interactions_count /\ Fitting' = Fitting
  BY DEF vars, contractVars, Fitting, Votes
<1>2. CASE FinishRound
  <2>1. /\ phase = "running" /\ phase' = "resetting"
        /\ complete' = [i \in InstanceIds |-> FALSE]
        /\ outbox' = [outbox EXCEPT ![Store] = Append(@, SuppliesTx)]
        /\ UNCHANGED <<round, enabledEvents, executedEvents>>
    BY <1>2 DEF FinishRound
  <2>2. outbox \in [Addresses -> Seq(Fitting)] /\ SuppliesTx \in Fitting
    BY DEF SystemInv, ScriptInv, Fitting
  <2>3. Append(outbox[Store], SuppliesTx) \in Seq(Fitting)
    BY <2>2, ClientAssumption
  <2>4. outbox' \in [Addresses -> Seq(Fitting)]
    BY <2>1, <2>2, <2>3
  <2>5. complete' \in [InstanceIds -> BOOLEAN]
    BY <2>1
  <2> QED
    BY <1>1, <2>1, <2>4, <2>5 DEF SystemInv, ScriptInv
<1>3. CASE NextRound
  <2>1. /\ phase = "resetting" /\ phase' = "start" /\ round' = round + 1
        /\ UNCHANGED <<complete, enabledEvents, executedEvents, outbox>>
    BY <1>3 DEF NextRound
  <2>2. round \in 0..MaxRounds /\ round < MaxRounds /\ MaxRounds \in Nat
    BY <2>1, ClientAssumption DEF SystemInv, ScriptInv
  <2>3. round' \in 0..MaxRounds
    BY <2>1, <2>2
  <2> QED
    BY <1>1, <2>1, <2>3 DEF SystemInv, ScriptInv
<1> QED
  BY <1>2, <1>3

\* A new block, and a failure that reaches the script.
LEMMA TickOrFailureKeeps ==
  ASSUME SystemInv, Tick \/ \E i \in InstanceIds : HandleFailure(i)
  PROVE  ScriptInv'
<1>1. CASE Tick
  <2>1. /\ UNCHANGED <<clientVars, counts, check, permitted, failed>>
        /\ pending_interactions_count' = pending_interactions_count
        /\ late' = late \/ (late < MaxLate /\ late' = late + 1)
    BY <1>1 DEF Tick, NextBlock, contractVars
  <2>2. Fitting' = Fitting
    BY <2>1 DEF Fitting, Votes
  <2>3. late' \in 0..MaxLate
    BY <2>1, SystemAssumption DEF SystemInv, ScriptInv
  <2> QED
    BY <2>1, <2>2, <2>3 DEF SystemInv, ScriptInv, clientVars
<1>2. ASSUME NEW i \in InstanceIds, HandleFailure(i)
      PROVE  ScriptInv'
  <2>1. /\ failed[i] > 0 /\ failed' = [failed EXCEPT ![i] = failed[i] - 1]
        /\ complete' = [complete EXCEPT ![i] = TRUE]
        /\ UNCHANGED <<vars, round, phase, counts, enabledEvents, executedEvents, outbox,
                       late, check, permitted>>
    BY <1>2 DEF HandleFailure
  <2>2. pending_interactions_count' = pending_interactions_count /\ Fitting' = Fitting
    BY <2>1 DEF vars, contractVars, Fitting, Votes
  <2>3. failed \in [InstanceIds -> Nat] /\ complete \in [InstanceIds -> BOOLEAN]
    BY DEF SystemInv, ScriptInv
  <2>4. failed[i] - 1 \in Nat
    BY <2>1, <2>3
  <2>5. failed' \in [InstanceIds -> Nat] /\ complete' \in [InstanceIds -> BOOLEAN]
    BY <2>1, <2>3, <2>4
  <2> QED
    BY <2>1, <2>2, <2>5 DEF SystemInv, ScriptInv
<1> QED
  BY <1>1, <1>2

\* Every step of the system keeps the invariant.
LEMMA SystemInvNext == SystemInv /\ [SystemNext]_systemVars => SystemInv'
<1> SUFFICES ASSUME SystemInv, [SystemNext]_systemVars PROVE SystemInv'
  OBVIOUS
<1>1. WaitInv'
  BY SystemStep, WaitInvNext DEF SystemInv
<1>2. ASSUME ScriptInv', pending_interactions_count' = pending_interactions_count
      PROVE  SystemInv'
  BY <1>1, <1>2 DEF SystemInv
<1>3. ASSUME NEW a \in Addresses, Mine(a)
      PROVE  SystemInv'
  BY <1>3, MineKeeps
<1>4. CASE Tick \/ \E i \in InstanceIds : HandleFailure(i)
  <2>1. pending_interactions_count' = pending_interactions_count
    BY <1>4 DEF Tick, NextBlock, HandleFailure, vars, contractVars
  <2> QED
    BY <1>2, <1>4, <2>1, TickOrFailureKeeps
<1>5. CASE CheckVote
  <2>1. pending_interactions_count' = pending_interactions_count
    BY <1>5 DEF CheckVote, AskCanVote, AskPermitted, SendVote, AskIsolate, Rearm,
                vars, contractVars
  <2> QED
    BY <1>2, <1>5, <2>1, CheckVoteKeeps
<1>6. CASE Listen
  <2>1. UNCHANGED <<vars, late, check, permitted, failed>>
    BY <1>6 DEF Listen
  <2>2. pending_interactions_count' = pending_interactions_count
    BY <2>1 DEF vars, contractVars
  <2>3. CASE ClientStep /\ UNCHANGED counts
    BY <1>2, <2>1, <2>2, <2>3, StartRoundKeeps, HandleEnabledKeeps, RoundEndKeeps DEF ClientStep
  <2>4. CASE NextRound /\ UNCHANGED counts
    BY <1>2, <2>1, <2>2, <2>4, RoundEndKeeps
  <2>5. CASE /\ HandleExecuted
             /\ LET e == Head(executedEvents)
                    counted == IF e.task = "deliveryDetails" THEN "purchaseOrder" ELSE e.task
                IN  counts' = IF counted \in Counted
                              THEN [counts EXCEPT ![e.instance][counted] = @ + 1]
                              ELSE counts
    BY <1>2, <2>1, <2>2, <2>5, HandleExecutedKeeps
  <2> QED
    BY <1>6, <2>3, <2>4, <2>5 DEF Listen
<1>7. CASE UNCHANGED systemVars
  <2>1. /\ UNCHANGED <<clientVars, late, counts, check, permitted, failed>>
        /\ pending_interactions_count' = pending_interactions_count
    BY <1>7 DEF systemVars, vars, contractVars
  <2> QED
    BY <1>2, <2>1, ScriptStays
<1> QED
  BY <1>3, <1>4, <1>5, <1>6, <1>7 DEF SystemNext

-----------------------------------------------------------------------------
(* Votes and releases under way.                                            *)

\* The transactions that checkVote sends.
Request(tx) == tx.kind \in {"vote", "release"}

\* None of them is on its way.
NoRequests ==
  \A a \in Addresses : \A k \in 1..Len(outbox[a]) : ~Request(outbox[a][k])

\* Only checkVote asks the contract for something, one thing at a time, and what
\* it has read or sent is still so.
FlightInv ==
  /\ \A a \in Addresses : \A k \in 1..Len(outbox[a]) :
       Request(outbox[a][k]) => a = Store /\ check = "sent"
  /\ \A j, k \in 1..Len(outbox[Store]) :
       Request(outbox[Store][j]) /\ Request(outbox[Store][k]) => j = k
  /\ check \in {"mayVote", "ordering"} => canVote(Store)
  /\ check = "ordering" => permitted = permitted_interactions(Store)
  /\ RequestsAreCurrent

\* What outboxes hold.
LEMMA Outboxes ==
  ASSUME SystemInv
  PROVE  \A a \in Addresses : /\ outbox[a] \in Seq(Fitting) /\ Len(outbox[a]) \in Nat
                              /\ DOMAIN outbox[a] = 1..Len(outbox[a])
<1> SUFFICES ASSUME NEW a \in Addresses
             PROVE  /\ outbox[a] \in Seq(Fitting) /\ Len(outbox[a]) \in Nat
                    /\ DOMAIN outbox[a] = 1..Len(outbox[a])
  OBVIOUS
<1>1. outbox[a] \in Seq(Fitting)
  BY DEF SystemInv, ScriptInv
<1> QED
  BY <1>1

\* While the window is open nothing has been asked.
LEMMA NothingAsked ==
  ASSUME SystemInv, FlightInv, ~WindowClosed
  PROVE  NoRequests /\ check \notin {"mayVote", "ordering"}
<1>1. ~canVote(Store) /\ ~isIsolate
  BY DEF canVote, isIsolate
<1>2. check \notin {"mayVote", "ordering"}
  BY <1>1 DEF FlightInv
<1>3. ASSUME NEW a \in Addresses, NEW k \in 1..Len(outbox[a]), Request(outbox[a][k])
      PROVE  FALSE
  <2>1. a = Store
    BY <1>3 DEF FlightInv
  <2>2. k \in DOMAIN outbox[Store]
    BY <2>1, ClientAssumption, Outboxes
  <2> QED
    BY <1>1, <1>3, <2>1, <2>2 DEF FlightInv, RequestsAreCurrent, Request
<1> QED
  BY <1>2, <1>3 DEF NoRequests

\* When nothing is asked nothing is out of date.
LEMMA QuietIsCurrent ==
  ASSUME SystemInv', NoRequests', check' \notin {"mayVote", "ordering"}
  PROVE  FlightInv'
<1>1. outbox' \in [Addresses -> Seq(Fitting')] /\ Store \in Addresses
  BY ClientAssumption DEF SystemInv, ScriptInv
<1>2. DOMAIN outbox'[Store] = 1..Len(outbox'[Store])
  BY <1>1
<1>3. RequestsAreCurrent'
  BY <1>1, <1>2 DEF RequestsAreCurrent, NoRequests, Request
<1> QED
  BY <1>1, <1>3 DEF FlightInv, NoRequests

\* The requests of the outboxes more are those of box, d[a] places further back.
Shifted(box, more, d) ==
  \A a \in Addresses : \A k \in 1..Len(more[a]) :
    Request(more[a][k]) => k + d[a] \in 1..Len(box[a]) /\ more[a][k] = box[a][k + d[a]]

\* A step that asks nothing and leaves the contract alone.
LEMMA StaysCurrent ==
  ASSUME SystemInv, SystemInv', FlightInv, NEW d \in [Addresses -> Nat],
         Shifted(outbox, outbox', d), UNCHANGED <<block, contractVars, check, permitted>>
  PROVE  FlightInv'
<1>1. /\ canVote(Store)' <=> canVote(Store)
      /\ permitted_interactions(Store)' = permitted_interactions(Store)
      /\ isIsolate' <=> isIsolate
  BY DEF contractVars, canVote, WindowClosed, permitted_interactions, isIsolate
<1>2. ASSUME NEW a \in Addresses, NEW k \in 1..Len(outbox'[a]), Request(outbox'[a][k])
      PROVE  k + d[a] \in 1..Len(outbox[a]) /\ outbox'[a][k] = outbox[a][k + d[a]]
  BY <1>2 DEF Shifted
<1>3. Store \in Addresses /\ d[Store] \in Nat
  BY ClientAssumption
<1>4. ASSUME NEW a \in Addresses, NEW k \in 1..Len(outbox'[a]), Request(outbox'[a][k])
      PROVE  a = Store /\ check' = "sent"
  <2>1. k + d[a] \in 1..Len(outbox[a]) /\ Request(outbox[a][k + d[a]])
    BY <1>2, <1>4
  <2> QED
    BY <2>1 DEF FlightInv
<1>5. ASSUME NEW j \in 1..Len(outbox'[Store]), NEW k \in 1..Len(outbox'[Store]),
             Request(outbox'[Store][j]), Request(outbox'[Store][k])
      PROVE  j = k
  <2>1. /\ j + d[Store] \in 1..Len(outbox[Store]) /\ Request(outbox[Store][j + d[Store]])
        /\ k + d[Store] \in 1..Len(outbox[Store]) /\ Request(outbox[Store][k + d[Store]])
    BY <1>2, <1>3, <1>5
  <2>2. j + d[Store] = k + d[Store]
    BY <2>1 DEF FlightInv
  <2> QED
    BY <1>3, <2>2
<1>6. ASSUME NEW k \in 1..Len(outbox'[Store]), Request(outbox'[Store][k])
      PROVE  LET tx == outbox'[Store][k]
             IN  /\ tx.kind = "vote" => /\ canVote(Store)
                                        /\ ToSet(tx.vote) = permitted_interactions(Store)
                 /\ tx.kind = "release" => isIsolate
  <2>1. k + d[Store] \in DOMAIN outbox[Store] /\ outbox'[Store][k] = outbox[Store][k + d[Store]]
    BY <1>2, <1>3, <1>6, Outboxes
  <2> QED
    BY <2>1 DEF FlightInv, RequestsAreCurrent
<1>7. RequestsAreCurrent'
  <2>1. SUFFICES ASSUME NEW k \in DOMAIN outbox'[Store], Request(outbox'[Store][k])
                 PROVE  LET tx == outbox'[Store][k]
                        IN  /\ tx.kind = "vote" =>
                                 /\ canVote(Store)
                                 /\ ToSet(tx.vote) = permitted_interactions(Store)
                            /\ tx.kind = "release" => isIsolate
    BY <1>1 DEF RequestsAreCurrent, Request
  <2>2. k \in 1..Len(outbox'[Store])
    <3>1. outbox' \in [Addresses -> Seq(Fitting')]
      BY DEF SystemInv, ScriptInv
    <3> QED
      BY <1>3, <3>1
  <2> QED
    BY <1>6, <2>1, <2>2
<1>8. check' = check /\ permitted' = permitted
  OBVIOUS
<1> QED
  BY <1>1, <1>4, <1>5, <1>7, <1>8 DEF FlightInv


\* Outboxes to which only tasks were added.
Added(box) ==
  {x \in [Addresses -> Seq(Fitting)] :
     \A a \in Addresses : \A k \in 1..Len(x[a]) :
       Request(x[a][k]) => k \in 1..Len(box[a]) /\ x[a][k] = box[a][k]}

\* A transaction that asks nothing is sent.
LEMMA AppendAdds ==
  ASSUME NEW box, NEW x \in Added(box), NEW a \in Addresses, NEW tx \in Fitting, ~Request(tx)
  PROVE  [x EXCEPT ![a] = Append(x[a], tx)] \in Added(box)
<1> DEFINE y == [x EXCEPT ![a] = Append(x[a], tx)]
<1>1. x \in [Addresses -> Seq(Fitting)]
  BY DEF Added
<1>2. x[a] \in Seq(Fitting) /\ Append(x[a], tx) \in Seq(Fitting)
  BY <1>1
<1>3. y \in [Addresses -> Seq(Fitting)]
  BY <1>1, <1>2
<1>4. ASSUME NEW b \in Addresses, NEW k \in 1..Len(y[b]), Request(y[b][k])
      PROVE  k \in 1..Len(box[b]) /\ y[b][k] = box[b][k]
  <2>1. CASE b # a
    <3>1. y[b] = x[b]
      BY <1>1, <2>1
    <3> QED
      BY <1>4, <3>1 DEF Added
  <2>2. CASE b = a
    <3>1. y[b] = Append(x[a], tx)
      BY <1>1, <2>2
    <3>2. k \in 1..(Len(x[a]) + 1) /\ (k = Len(x[a]) + 1 => y[b][k] = tx)
          /\ (k \in 1..Len(x[a]) => y[b][k] = x[a][k]) /\ Len(x[a]) \in Nat
      <4> HIDE DEF y
      <4> QED
        BY <1>2, <3>1
    <3>3. k \in 1..Len(x[a])
      BY <1>4, <3>2
    <3> QED
      BY <1>4, <2>2, <3>2, <3>3 DEF Added
  <2> QED
    BY <2>1, <2>2
<1> QED
  BY <1>3, <1>4 DEF Added

\* Nothing was added yet.
LEMMA NothingAdded ==
  ASSUME NEW box \in [Addresses -> Seq(Fitting)]
  PROVE  box \in Added(box)
BY DEF Added

\* Calls are sent.
LEMMA SentAdds ==
  ASSUME NEW box \in [Addresses -> Seq(Fitting)], NEW calls \in Seq(Calls)
  PROVE  Sent(box, calls) \in Added(box)
<1> DEFINE n == Len(calls)
           S == [i \in 0..n |-> Added(box)]
<1>1. n \in Nat /\ \A i \in 1..n : calls[i] \in Calls
  OBVIOUS
<1>2. box \in S[0]
  BY <1>1, NothingAdded
<1>3. ASSUME NEW i \in 1..n, NEW x \in S[i-1]
      PROVE  SendStep(x, calls, i) \in S[i]
  <2>1. i \in 0..n /\ i - 1 \in 0..n
    BY <1>1
  <2>2. x \in Added(box)
    BY <2>1
  <2> HIDE DEF S
  <2>3. calls[i].instance \in InstanceIds /\ calls[i].task \in Tasks
    BY <1>1 DEF Calls
  <2>4. Sender[calls[i].instance][calls[i].task] \in Addresses
    BY <2>3, ClientAssumption
  <2>5. TaskTx(calls[i]) \in Fitting /\ ~Request(TaskTx(calls[i]))
    BY <1>1 DEF Fitting, TaskTx, Request
  <2> DEFINE a == Sender[calls[i].instance][calls[i].task]
             tx == TaskTx(calls[i])
  <2>6. SendStep(x, calls, i) = [x EXCEPT ![a] = Append(x[a], tx)]
    BY DEF SendStep
  <2>7. a \in Addresses /\ tx \in Fitting /\ ~Request(tx)
    BY <2>4, <2>5
  <2> HIDE DEF a, tx
  <2>8. [x EXCEPT ![a] = Append(x[a], tx)] \in Added(box)
    BY <2>2, <2>7, AppendAdds
  <2>9. SendStep(x, calls, i) \in Added(box)
    BY <2>6, <2>8
  <2> QED
    BY <2>1, <2>9 DEF S
<1> HIDE DEF S
<1>4. Sent(box, calls) \in S[n]
  BY <1>1, <1>2, <1>3, SentLoop
<1> QED
  BY <1>1, <1>4 DEF S

\* Sending tasks, with the contract left alone, keeps requests current.
LEMMA AddingIsCurrent ==
  ASSUME SystemInv, SystemInv', FlightInv, outbox' \in Added(outbox),
         UNCHANGED <<block, contractVars, check, permitted>>
  PROVE  FlightInv'
<1> DEFINE d == [a \in Addresses |-> 0]
<1>1. Shifted(outbox, outbox', d)
  <2> SUFFICES ASSUME NEW a \in Addresses, NEW k \in 1..Len(outbox'[a]), Request(outbox'[a][k])
               PROVE  k + 0 \in 1..Len(outbox[a]) /\ outbox'[a][k] = outbox[a][k + 0]
    BY DEF Shifted
  <2>1. k \in 1..Len(outbox[a]) /\ outbox'[a][k] = outbox[a][k]
    BY DEF Added
  <2>2. k + 0 = k
    BY <2>1, Outboxes
  <2> QED
    BY <2>1, <2>2
<1>2. d \in [Addresses -> Nat]
  OBVIOUS
<1> HIDE DEF d
<1> QED
  BY <1>1, <1>2, StaysCurrent

\* What the listeners send is added to the outboxes.
LEMMA ListenAdds ==
  ASSUME SystemInv, Listen
  PROVE  outbox' \in Added(outbox)
<1>1. /\ outbox \in [Addresses -> Seq(Fitting)] /\ outbox \in Added(outbox)
      /\ enabledEvents \in Seq(Calls) /\ executedEvents \in Seq(Calls)
  BY NothingAdded DEF SystemInv, ScriptInv
<1>2. CASE StartRound
  <2> DEFINE calls == [i \in InstanceIds |-> Call("purchaseOrder", i)]
  <2>1. \A i \in InstanceIds : Call("purchaseOrder", i) \in Calls
    BY DEF Call, Calls, Tasks
  <2>2. calls \in [1..MaxInstances -> Calls]
    BY <2>1 DEF InstanceIds
  <2>3. outbox' = Sent(outbox, calls)
    BY <1>2 DEF StartRound
  <2> HIDE DEF calls
  <2>4. calls \in Seq(Calls)
    BY <2>2, WorkflowAssumption, FunctionIsSeq
  <2> QED
    BY <1>1, <2>3, <2>4, SentAdds
<1>3. CASE HandleEnabled
  <2>1. enabledEvents # <<>> /\ outbox' = Sent(outbox, <<Head(enabledEvents)>>)
    BY <1>3 DEF HandleEnabled
  <2>2. <<Head(enabledEvents)>> \in Seq(Calls)
    BY <1>1, <2>1
  <2> QED
    BY <1>1, <2>1, <2>2, SentAdds
<1>4. CASE FinishRound
  <2>1. outbox' = [outbox EXCEPT ![Store] = Append(outbox[Store], SuppliesTx)]
    BY <1>4 DEF FinishRound
  <2>2. SuppliesTx \in Fitting /\ ~Request(SuppliesTx) /\ Store \in Addresses
    BY ClientAssumption DEF Fitting, SuppliesTx, Request
  <2> QED
    BY <1>1, <2>1, <2>2, AppendAdds
<1>5. CASE NextRound
  BY <1>1, <1>5 DEF NextRound
<1>6. CASE HandleExecuted
  <2> DEFINE e == Head(executedEvents)
             choice == <<Call("confirmShipping", e.instance), Call("cancelOrder", e.instance)>>
  <2>1. /\ executedEvents # <<>>
        /\ outbox' = IF e.task = "deliveryDetails" THEN Sent(outbox, choice) ELSE outbox
    BY <1>6 DEF HandleExecuted
  <2>2. e \in Calls
    BY <1>1, <2>1
  <2>3. e.instance \in InstanceIds
    BY <2>2 DEF Calls
  <2> HIDE DEF e
  <2>4. Call("confirmShipping", e.instance) \in Calls /\ Call("cancelOrder", e.instance) \in Calls
    BY <2>3 DEF Call, Calls, Tasks
  <2>5. choice \in Seq(Calls)
    BY <2>4
  <2> HIDE DEF choice
  <2> QED
    BY <1>1, <2>1, <2>5, SentAdds
<1> QED
  BY <1>2, <1>3, <1>4, <1>5, <1>6 DEF Listen, ClientStep

\* They are tasks and the reset of the supplies.
LEMMA ListenIsCurrent ==
  ASSUME SystemInv, SystemInv', FlightInv, Listen
  PROVE  FlightInv'
<1>1. UNCHANGED <<block, contractVars, check, permitted>>
  BY DEF Listen, vars
<1> QED
  BY <1>1, ListenAdds, AddingIsCurrent

\* A block takes a transaction of one account: its other ones move up.
LEMMA MinedShifts ==
  ASSUME SystemInv, NEW a \in Addresses, outbox[a] # <<>>,
         outbox' = [outbox EXCEPT ![a] = Tail(outbox[a])]
  PROVE  \E d \in [Addresses -> Nat] :
           /\ d[a] = 1
           /\ \A b \in Addresses : \A k \in 1..Len(outbox'[b]) :
                k + d[b] \in 1..Len(outbox[b]) /\ outbox'[b][k] = outbox[b][k + d[b]]
<1> DEFINE d == [b \in Addresses |-> IF b = a THEN 1 ELSE 0]
<1>1. outbox \in [Addresses -> Seq(Fitting)] /\ d \in [Addresses -> Nat] /\ d[a] = 1
  BY DEF SystemInv, ScriptInv
<1>2. ASSUME NEW b \in Addresses, NEW k \in 1..Len(outbox'[b])
      PROVE  k + d[b] \in 1..Len(outbox[b]) /\ outbox'[b][k] = outbox[b][k + d[b]]
  <2>1. CASE b = a
    <3>1. outbox[a] \in Seq(Fitting) /\ outbox'[a] = Tail(outbox[a])
      BY <1>1
    <3>2. \A q \in Seq(Fitting) : q # <<>> =>
            \A i \in 1..Len(Tail(q)) : i + 1 \in 1..Len(q) /\ Tail(q)[i] = q[i + 1]
      OBVIOUS
    <3> QED
      BY <1>1, <2>1, <3>1, <3>2
  <2>2. CASE b # a
    <3>1. outbox'[b] = outbox[b] /\ d[b] = 0
      BY <1>1, <2>2
    <3>2. k + 0 = k
      OBVIOUS
    <3> QED
      BY <3>1, <3>2
  <2> QED
    BY <2>1, <2>2
<1> HIDE DEF d
<1> QED
  BY <1>1, <1>2

\* Transactions that are mined, accepted or not, keep requests current.
LEMMA MineIsCurrent ==
  ASSUME SystemInv, SystemInv', FlightInv, NEW a \in Addresses, Mine(a)
  PROVE  FlightInv'
<1> DEFINE tx == Head(outbox[a])
<1>1. /\ outbox[a] # <<>> /\ outbox' = [outbox EXCEPT ![a] = Tail(outbox[a])]
      /\ UNCHANGED <<check, permitted>>
      /\ Effect(a, tx) \/ UNCHANGED vars
  BY DEF Mine
<1>2. PICK d \in [Addresses -> Nat] :
        /\ d[a] = 1
        /\ \A b \in Addresses : \A k \in 1..Len(outbox'[b]) :
             k + d[b] \in 1..Len(outbox[b]) /\ outbox'[b][k] = outbox[b][k + d[b]]
  BY <1>1, MinedShifts
<1>3. Shifted(outbox, outbox', d)
  BY <1>2 DEF Shifted
<1>4. tx \in Fitting /\ 1 \in 1..Len(outbox[a]) /\ tx = outbox[a][1]
  <2>1. outbox[a] \in Seq(Fitting)
    BY Outboxes
  <2> QED
    BY <1>1, <2>1
<1> HIDE DEF tx
<1>5. CASE UNCHANGED <<block, contractVars>>
  BY <1>1, <1>3, <1>5, StaysCurrent
<1>6. CASE Effect(a, tx) /\ tx.kind = "task"
  <2>1. submit_interaction(a, tx.call.instance, tx.call.task)
    BY <1>6 DEF Effect
  <2>2. ~WindowClosed
    <3>1. index_block = 0 \/ block < index_block + block_interval
      BY <2>1 DEF submit_interaction, WindowOpen
    <3>2. block \in Nat /\ index_block \in Nat
      BY DEF SystemInv, WaitInv, TypeOK
    <3> QED
      BY <3>1, <3>2 DEF WindowClosed, block_interval
  <2>3. NoRequests /\ check \notin {"mayVote", "ordering"}
    BY <2>2, NothingAsked
  <2>4. NoRequests'
    BY <1>2, <2>3 DEF NoRequests
  <2> QED
    BY <1>1, <2>3, <2>4, QuietIsCurrent
<1>7. CASE Request(tx)
  <2>1. a = Store /\ check = "sent"
    BY <1>4, <1>7 DEF FlightInv
  <2>2. ASSUME NEW b \in Addresses, NEW k \in 1..Len(outbox'[b]), Request(outbox'[b][k])
        PROVE  FALSE
    <3>1. k + d[b] \in 1..Len(outbox[b]) /\ Request(outbox[b][k + d[b]])
      BY <1>2, <2>2
    <3>2. b = Store
      BY <3>1 DEF FlightInv
    <3>3. k + 1 = 1
      BY <1>2, <1>4, <1>7, <2>1, <3>1, <3>2 DEF FlightInv
    <3> QED
      BY <3>3
  <2>3. NoRequests'
    BY <2>2 DEF NoRequests
  <2> QED
    BY <1>1, <2>1, <2>3, QuietIsCurrent
<1>8. CASE Effect(a, tx) /\ tx.kind = "supplies"
  <2>1. UNCHANGED <<block, contractVars>>
    BY <1>8 DEF Effect
  <2> QED
    BY <1>5, <2>1
<1>9. tx.kind = "task" \/ Request(tx) \/ tx.kind = "supplies"
  BY <1>4 DEF Fitting, TaskTx, VoteTx, ReleaseTx, SuppliesTx, Request
<1>10. CASE UNCHANGED vars
  BY <1>5, <1>10 DEF vars
<1> QED
  BY <1>1, <1>6, <1>7, <1>8, <1>9, <1>10

\* A vote is on all that was permitted.
LEMMA VoteOnAll ==
  ASSUME SystemInv, NEW vote \in SetToSeqs(permitted)
  PROVE  ToSet(vote) = permitted
<1> DEFINE n == Cardinality(permitted)
<1>1. IsFiniteSet(permitted)
  <2>1. permitted \subseteq 1..(pending_interactions_count - 1)
        /\ pending_interactions_count \in Nat
    BY DEF SystemInv, ScriptInv, WaitInv, TypeOK
  <2>2. IsFiniteSet(1..(pending_interactions_count - 1))
    BY <2>1, FS_Interval
  <2> QED
    BY <2>1, <2>2, FS_Subset
<1>2. n \in Nat
  BY <1>1, FS_CardinalityType
<1>3. /\ vote \in [1..n -> permitted]
      /\ \A i, j \in 1..n : i # j => vote[i] # vote[j]
  BY DEF SetToSeqs
<1>4. IsFiniteSet(1..n) /\ Cardinality(1..n) = n
  <2> HIDE DEF n
  <2>1. IsFiniteSet(1..n) /\ Cardinality(1..n) = IF 1 > n THEN 0 ELSE n - 1 + 1
    BY <1>2, FS_Interval
  <2> QED
    BY <1>2, <2>1
<1>5. ASSUME NEW x \in permitted, x \notin ToSet(vote)
      PROVE  FALSE
  <2>1. IsFiniteSet(permitted \ {x}) /\ Cardinality(permitted \ {x}) = n - 1
    BY <1>1, <1>5, FS_RemoveElement
  <2>2. vote \in [1..n -> permitted \ {x}]
    BY <1>3, <1>5 DEF ToSet
  <2> HIDE DEF n
  <2>3. Cardinality(permitted \ {x}) < Cardinality(1..n)
    BY <1>2, <1>4, <2>1
  <2>4. \E i, j \in 1..n : i # j /\ vote[i] = vote[j]
    BY <1>4, <2>1, <2>2, <2>3, FS_PigeonHole
  <2> QED
    BY <1>3, <2>4
<1>6. ToSet(vote) \subseteq permitted
  <2> HIDE DEF n
  <2> QED
    BY <1>3 DEF ToSet
<1> QED
  BY <1>5, <1>6

\* Something is asked when nothing was, and is current.
LEMMA OneRequest ==
  ASSUME SystemInv, SystemInv', NoRequests, UNCHANGED vars, check' = "sent",
         NEW tx \in Fitting, outbox' = [outbox EXCEPT ![Store] = Append(outbox[Store], tx)],
         tx.kind = "vote" => /\ canVote(Store)
                             /\ ToSet(tx.vote) = permitted_interactions(Store),
         tx.kind = "release" => isIsolate
  PROVE  FlightInv'
<1> DEFINE n == Len(outbox[Store]) + 1
<1>1. /\ Store \in Addresses /\ outbox \in [Addresses -> Seq(Fitting)]
      /\ outbox[Store] \in Seq(Fitting)
  BY ClientAssumption DEF SystemInv, ScriptInv
<1>2. \A b \in Addresses : b # Store => outbox'[b] = outbox[b]
  BY <1>1
<1>3. outbox'[Store] = Append(outbox[Store], tx)
  BY <1>1
<1>4. /\ Len(outbox'[Store]) = n /\ DOMAIN outbox'[Store] = 1..n /\ outbox'[Store][n] = tx
      /\ \A k \in 1..n : k # n => k \in 1..Len(outbox[Store]) /\ outbox'[Store][k] = outbox[Store][k]
  BY <1>1, <1>3
<1> HIDE DEF n
<1>5. ASSUME NEW b \in Addresses, NEW k \in 1..Len(outbox'[b]), Request(outbox'[b][k])
      PROVE  b = Store /\ k = n
  <2>1. b = Store
    BY <1>2, <1>5 DEF NoRequests
  <2> QED
    BY <1>1, <1>4, <1>5, <2>1 DEF NoRequests
<1>6. /\ canVote(Store)' <=> canVote(Store)
      /\ permitted_interactions(Store)' = permitted_interactions(Store)
      /\ isIsolate' <=> isIsolate
  BY DEF vars, contractVars, canVote, WindowClosed, permitted_interactions, isIsolate
<1>7. RequestsAreCurrent'
  <2>1. SUFFICES ASSUME NEW k \in DOMAIN outbox'[Store], Request(outbox'[Store][k])
                 PROVE  LET x == outbox'[Store][k]
                        IN  /\ x.kind = "vote" =>
                                 /\ canVote(Store)
                                 /\ ToSet(x.vote) = permitted_interactions(Store)
                            /\ x.kind = "release" => isIsolate
    BY <1>6 DEF RequestsAreCurrent, Request
  <2>2. k = n
    BY <1>1, <1>4, <1>5, <2>1
  <2>3. outbox'[Store][k] = tx
    BY <1>4, <2>2
  <2> QED
    BY <2>3
<1> QED
  BY <1>1, <1>5, <1>7 DEF FlightInv

\* The steps of checkVote.
LEMMA CheckVoteIsCurrent ==
  ASSUME SystemInv, SystemInv', FlightInv, CheckVote
  PROVE  FlightInv'
<1>1. UNCHANGED vars
  BY DEF CheckVote, AskCanVote, AskPermitted, SendVote, AskIsolate, Rearm
<1>2. /\ canVote(Store)' <=> canVote(Store)
      /\ permitted_interactions(Store)' = permitted_interactions(Store)
      /\ isIsolate' <=> isIsolate
  BY <1>1 DEF vars, contractVars, canVote, WindowClosed, permitted_interactions, isIsolate
<1>3. check # "sent" => NoRequests
  BY DEF FlightInv, NoRequests
<1>4. ASSUME NoRequests, outbox' = outbox
      PROVE  NoRequests' /\ RequestsAreCurrent'
  <2>1. NoRequests'
    BY <1>4 DEF NoRequests
  <2>2. DOMAIN outbox[Store] = 1..Len(outbox[Store]) /\ Store \in Addresses
    BY ClientAssumption, Outboxes
  <2> QED
    BY <1>4, <2>1, <2>2 DEF NoRequests, RequestsAreCurrent, Request
<1>5. CASE AskCanVote
  <2>1. /\ check = "armed" /\ outbox' = outbox
        /\ check' = IF canVote(Store) THEN "mayVote" ELSE "mayNotVote"
    BY <1>5 DEF AskCanVote, clientVars
  <2> QED
    BY <1>2, <1>3, <1>4, <2>1, ClientAssumption DEF FlightInv, NoRequests
<1>6. CASE AskPermitted
  <2>1. /\ check = "mayVote" /\ outbox' = outbox /\ check' = "ordering"
        /\ permitted' = permitted_interactions(Store)
    BY <1>6 DEF AskPermitted, clientVars
  <2>2. canVote(Store)
    BY <2>1 DEF FlightInv
  <2> QED
    BY <1>2, <1>3, <1>4, <2>1, <2>2, ClientAssumption DEF FlightInv, NoRequests
<1>7. CASE SendVote
  <2>1. PICK vote \in SetToSeqs(permitted) :
          outbox' = [outbox EXCEPT ![Store] = Append(outbox[Store], VoteTx(vote))]
    BY <1>7 DEF SendVote
  <2>2. check = "ordering" /\ check' = "sent"
    BY <1>7 DEF SendVote
  <2>3. VoteTx(vote) \in Fitting /\ ToSet(vote) = permitted
    BY VoteFits, VoteOnAll
  <2>4. canVote(Store) /\ permitted = permitted_interactions(Store)
    BY <2>2 DEF FlightInv
  <2>5. VoteTx(vote).kind = "vote" /\ VoteTx(vote).vote = vote
    BY DEF VoteTx
  <2> QED
    BY <1>1, <1>3, <2>1, <2>2, <2>3, <2>4, <2>5, OneRequest
<1>8. CASE AskIsolate
  <2>1. check = "mayNotVote"
    BY <1>8 DEF AskIsolate
  <2>2. CASE isIsolate
    <3>1. check' = "sent" /\ outbox' = [outbox EXCEPT ![Store] = Append(outbox[Store], ReleaseTx)]
      BY <1>8, <2>2 DEF AskIsolate
    <3>2. ReleaseTx \in Fitting /\ ReleaseTx.kind = "release"
      BY DEF Fitting, ReleaseTx
    <3> QED
      BY <1>1, <1>3, <2>1, <2>2, <3>1, <3>2, OneRequest
  <2>3. CASE ~isIsolate
    <3>1. check' = "armed" /\ outbox' = outbox
      BY <1>8, <2>3 DEF AskIsolate
    <3> QED
      BY <1>3, <1>4, <2>1, <3>1, QuietIsCurrent
  <2> QED
    BY <2>2, <2>3
<1>9. CASE Rearm
  <2>1. /\ check' = "armed" /\ outbox' = outbox
        /\ \A k \in DOMAIN outbox[Store] : outbox[Store][k].kind \notin {"vote", "release"}
    BY <1>9 DEF Rearm, clientVars
  <2>2. NoRequests
    <3>1. DOMAIN outbox[Store] = 1..Len(outbox[Store])
      BY ClientAssumption, Outboxes
    <3> QED
      BY <2>1, <3>1 DEF NoRequests, FlightInv, Request
  <2> QED
    BY <1>4, <2>1, <2>2, QuietIsCurrent
<1> QED
  BY <1>5, <1>6, <1>7, <1>8, <1>9 DEF CheckVote

\* What is asked stays current.
LEMMA FlightInvNext ==
  SystemInv /\ SystemInv' /\ FlightInv /\ [SystemNext]_systemVars => FlightInv'
<1> SUFFICES ASSUME SystemInv, SystemInv', FlightInv, [SystemNext]_systemVars PROVE FlightInv'
  OBVIOUS
<1>1. outbox \in Added(outbox)
  BY NothingAdded DEF SystemInv, ScriptInv
<1>2. ASSUME NEW a \in Addresses, Mine(a)
      PROVE  FlightInv'
  BY <1>2, MineIsCurrent
<1>3. CASE Tick
  <2>1. /\ WindowOpen(index_block) /\ outbox' = outbox /\ check' = check
    BY <1>3 DEF Tick, clientVars
  <2>2. ~WindowClosed
    <3>1. block \in Nat /\ index_block \in Nat
      BY DEF SystemInv, WaitInv, TypeOK
    <3> QED
      BY <2>1, <3>1 DEF WindowOpen, WindowClosed, block_interval
  <2>3. NoRequests /\ check \notin {"mayVote", "ordering"}
    BY <2>2, NothingAsked
  <2>4. NoRequests'
    BY <2>1, <2>3 DEF NoRequests
  <2> QED
    BY <2>1, <2>3, <2>4, QuietIsCurrent
<1>4. CASE \E i \in InstanceIds : HandleFailure(i)
  <2>1. outbox' = outbox /\ UNCHANGED <<block, contractVars, check, permitted>>
    BY <1>4 DEF HandleFailure, vars
  <2> QED
    BY <1>1, <2>1, AddingIsCurrent
<1>5. CASE CheckVote
  BY <1>5, CheckVoteIsCurrent
<1>6. CASE Listen
  BY <1>6, ListenIsCurrent
<1>7. CASE UNCHANGED systemVars
  <2>1. outbox' = outbox /\ UNCHANGED <<block, contractVars, check, permitted>>
    BY <1>7 DEF systemVars, vars, clientVars
  <2> QED
    BY <1>1, <2>1, AddingIsCurrent
<1> QED
  BY <1>2, <1>3, <1>4, <1>5, <1>6, <1>7 DEF SystemNext

\* Nothing is asked at the start.
LEMMA FlightInvInit == SystemInit => FlightInv
<1> SUFFICES ASSUME SystemInit PROVE FlightInv
  OBVIOUS
<1>1. \A a \in Addresses : outbox[a] = <<>>
  BY DEF SystemInit, ClientInit
<1>2. \A a \in Addresses : Len(outbox[a]) = 0 /\ DOMAIN outbox[a] = {}
  BY <1>1
<1> QED
  BY <1>2, ClientAssumption DEF SystemInit, FlightInv, RequestsAreCurrent

-----------------------------------------------------------------------------
(* The course of an instance when nothing is late.                          *)

\* The calls in the outboxes.
Outgoing(box) ==
  {c \in Calls : \E a \in Addresses : \E k \in 1..Len(box[a]) : box[a][k] = TaskTx(c)}

\* Each is there once, and with its sender.
SentOnce(box) ==
  \A a \in Addresses : \A k \in 1..Len(box[a]) : \A c \in Calls :
    box[a][k] = TaskTx(c) =>
      /\ a = Sender[c.instance][c.task]
      /\ \A l \in 1..Len(box[a]) : box[a][l] = TaskTx(c) => l = k

\* Outboxes that hold the calls of a set, and each of them once.
Holding(C) == {box \in [Addresses -> Seq(Fitting)] : SentOnce(box) /\ Outgoing(box) = C}

\* A call is the transaction's own, and no request.
LEMMA TaskTxOf ==
  /\ \A c, d : TaskTx(c) = TaskTx(d) => c = d
  /\ \A c : TaskTx(c).kind = "task" /\ TaskTx(c).call = c
  /\ \A c : ~Request(TaskTx(c)) /\ TaskTx(c) # SuppliesTx
<1>1. \A c : TaskTx(c).kind = "task" /\ TaskTx(c).call = c
  BY DEF TaskTx
<1>2. SuppliesTx.kind = "supplies"
  BY DEF SuppliesTx
<1>3. \A c : TaskTx(c) # SuppliesTx
  BY <1>1, <1>2
<1>4. \A c, d : TaskTx(c) = TaskTx(d) => c = d
  BY <1>1
<1>5. \A c : ~Request(TaskTx(c))
  BY <1>1 DEF Request
<1> QED
  BY <1>1, <1>3, <1>4, <1>5

\* What is added at the end of an outbox.
LEMMA AppendPlaces ==
  ASSUME NEW box \in [Addresses -> Seq(Fitting)], NEW a \in Addresses, NEW tx \in Fitting,
         NEW x, x = [box EXCEPT ![a] = Append(box[a], tx)]
  PROVE  /\ x \in [Addresses -> Seq(Fitting)]
         /\ \A b \in Addresses : b # a => x[b] = box[b]
         /\ Len(box[a]) \in Nat /\ Len(x[a]) = Len(box[a]) + 1
         /\ \A k \in 1..Len(x[a]) : x[a][k] = IF k = Len(box[a]) + 1 THEN tx ELSE box[a][k]
         /\ \A k \in 1..Len(x[a]) : k \in 1..Len(box[a]) \/ k = Len(box[a]) + 1
<1>1. box[a] \in Seq(Fitting) /\ Append(box[a], tx) \in Seq(Fitting)
  OBVIOUS
<1>2. x \in [Addresses -> Seq(Fitting)] /\ x[a] = Append(box[a], tx)
      /\ \A b \in Addresses : b # a => x[b] = box[b]
  BY <1>1
<1>3. /\ Len(box[a]) \in Nat /\ Len(x[a]) = Len(box[a]) + 1
      /\ \A k \in 1..Len(x[a]) : x[a][k] = IF k = Len(box[a]) + 1 THEN tx ELSE box[a][k]
  BY <1>1, <1>2
<1>4. \A k \in 1..Len(x[a]) : k \in 1..Len(box[a]) \/ k = Len(box[a]) + 1
  BY <1>3
<1> QED
  BY <1>2, <1>3, <1>4

\* A call is sent that was not in the outboxes.
LEMMA AppendCall ==
  ASSUME NEW C, NEW box \in Holding(C), NEW c \in Calls, c \notin C, TaskTx(c) \in Fitting,
         NEW a \in Addresses, a = Sender[c.instance][c.task],
         NEW x, x = [box EXCEPT ![a] = Append(box[a], TaskTx(c))]
  PROVE  x \in Holding(C \cup {c})
<1> DEFINE n == Len(box[a])
<1>1. box \in [Addresses -> Seq(Fitting)] /\ SentOnce(box) /\ Outgoing(box) = C
  BY DEF Holding
<1>2. /\ x \in [Addresses -> Seq(Fitting)]
      /\ \A b \in Addresses : b # a => x[b] = box[b]
      /\ n \in Nat /\ Len(x[a]) = n + 1
      /\ \A k \in 1..Len(x[a]) : x[a][k] = IF k = n + 1 THEN TaskTx(c) ELSE box[a][k]
      /\ \A k \in 1..Len(x[a]) : k \in 1..n \/ k = n + 1
  BY <1>1, AppendPlaces
<1> HIDE DEF n
<1>3. n + 1 \in 1..Len(x[a]) /\ \A k \in 1..n : k \in 1..Len(x[a]) /\ k # n + 1
  BY <1>2
<1>4. \A k \in 1..n : box[a][k] # TaskTx(c)
  BY <1>1 DEF Outgoing, n
<1>5. ASSUME NEW b \in Addresses, NEW k \in 1..Len(x[b]), NEW d \in Calls, x[b][k] = TaskTx(d)
      PROVE  \/ k \in 1..Len(box[b]) /\ box[b][k] = TaskTx(d)
             \/ b = a /\ k = n + 1 /\ d = c
  <2>1. CASE b # a
    BY <1>2, <1>5, <2>1
  <2>2. CASE b = a /\ k \in 1..n
    BY <1>2, <1>3, <1>5, <2>2 DEF n
  <2>3. CASE b = a /\ k = n + 1
    BY <1>2, <1>5, <2>3, TaskTxOf
  <2> QED
    BY <1>2, <2>1, <2>2, <2>3
<1>6. Outgoing(x) = C \cup {c}
  <2>1. ASSUME NEW d \in Outgoing(x) PROVE d \in C \cup {c}
    <3>1. PICK b \in Addresses : \E k \in 1..Len(x[b]) : x[b][k] = TaskTx(d)
      BY DEF Outgoing
    <3>2. PICK k \in 1..Len(x[b]) : x[b][k] = TaskTx(d)
      BY <3>1
    <3>3. d \in Calls
      BY DEF Outgoing
    <3>4. d # c => k \in 1..Len(box[b]) /\ box[b][k] = TaskTx(d)
      BY <1>5, <3>2, <3>3
    <3>5. d # c => d \in Outgoing(box)
      BY <3>3, <3>4 DEF Outgoing
    <3> QED
      BY <1>1, <3>5
  <2>2. ASSUME NEW d \in C PROVE d \in Outgoing(x)
    <3>1. d \in Calls /\ \E b \in Addresses : \E k \in 1..Len(box[b]) : box[b][k] = TaskTx(d)
      BY <1>1 DEF Outgoing
    <3>2. PICK b \in Addresses : \E k \in 1..Len(box[b]) : box[b][k] = TaskTx(d)
      BY <3>1
    <3>3. PICK k \in 1..Len(box[b]) : box[b][k] = TaskTx(d)
      BY <3>2
    <3>4. CASE b # a
      <4>1. k \in 1..Len(x[b]) /\ x[b][k] = TaskTx(d)
        BY <1>2, <3>3, <3>4
      <4> QED
        BY <3>1, <4>1 DEF Outgoing
    <3>5. CASE b = a
      <4>1. k \in 1..Len(x[b]) /\ x[b][k] = TaskTx(d)
        BY <1>2, <1>3, <3>3, <3>5 DEF n
      <4> QED
        BY <3>1, <4>1 DEF Outgoing
    <3> QED
      BY <3>4, <3>5
  <2>3. c \in Outgoing(x)
    BY <1>2, <1>3 DEF Outgoing
  <2> QED
    BY <2>1, <2>2, <2>3
<1>7. SentOnce(x)
  <2> SUFFICES ASSUME NEW b \in Addresses, NEW k \in 1..Len(x[b]), NEW d \in Calls,
                      x[b][k] = TaskTx(d)
               PROVE  /\ b = Sender[d.instance][d.task]
                      /\ \A l \in 1..Len(x[b]) : x[b][l] = TaskTx(d) => l = k
    BY DEF SentOnce
  <2>1. CASE b = a /\ k = n + 1 /\ d = c
    <3>1. ASSUME NEW l \in 1..Len(x[b]), x[b][l] = TaskTx(d) PROVE l = k
      <4>1. l \in 1..n => box[a][l] = TaskTx(c)
        BY <1>2, <1>3, <2>1, <3>1
      <4> QED
        BY <1>2, <1>4, <2>1, <4>1
    <3> QED
      BY <2>1, <3>1
  <2>2. CASE k \in 1..Len(box[b]) /\ box[b][k] = TaskTx(d)
    <3>1. b = Sender[d.instance][d.task]
          /\ \A l \in 1..Len(box[b]) : box[b][l] = TaskTx(d) => l = k
      BY <1>1, <2>2 DEF SentOnce
    <3>2. d # c
      <4>1. d \in Outgoing(box)
        BY <2>2 DEF Outgoing
      <4> QED
        BY <1>1, <4>1
    <3>3. ASSUME NEW l \in 1..Len(x[b]), x[b][l] = TaskTx(d) PROVE l = k
      BY <1>5, <3>1, <3>2, <3>3
    <3> QED
      BY <3>1, <3>3
  <2> QED
    BY <1>5, <2>1, <2>2
<1> QED
  BY <1>2, <1>6, <1>7 DEF Holding

\* Something is sent that is no call.
LEMMA AppendOther ==
  ASSUME NEW C, NEW box \in Holding(C), NEW tx \in Fitting, \A c \in Calls : tx # TaskTx(c),
         NEW a \in Addresses, NEW x, x = [box EXCEPT ![a] = Append(box[a], tx)]
  PROVE  x \in Holding(C)
<1> DEFINE n == Len(box[a])
<1>1. box \in [Addresses -> Seq(Fitting)] /\ SentOnce(box) /\ Outgoing(box) = C
  BY DEF Holding
<1>2. /\ x \in [Addresses -> Seq(Fitting)]
      /\ \A b \in Addresses : b # a => x[b] = box[b]
      /\ n \in Nat /\ Len(x[a]) = n + 1
      /\ \A k \in 1..Len(x[a]) : x[a][k] = IF k = n + 1 THEN tx ELSE box[a][k]
      /\ \A k \in 1..Len(x[a]) : k \in 1..n \/ k = n + 1
  BY <1>1, AppendPlaces
<1> HIDE DEF n
<1>3. \A k \in 1..n : k \in 1..Len(x[a]) /\ k # n + 1
  BY <1>2
<1>4. ASSUME NEW b \in Addresses, NEW k, NEW d \in Calls
      PROVE  k \in 1..Len(x[b]) /\ x[b][k] = TaskTx(d)
               <=> k \in 1..Len(box[b]) /\ box[b][k] = TaskTx(d)
  <2>1. CASE b # a
    BY <1>2, <2>1
  <2>2. CASE b = a
    <3>1. k \in 1..Len(x[a]) /\ x[a][k] = TaskTx(d) => k \in 1..n /\ box[a][k] = TaskTx(d)
      BY <1>2
    <3>2. k \in 1..n /\ box[a][k] = TaskTx(d) => k \in 1..Len(x[a]) /\ x[a][k] = TaskTx(d)
      BY <1>2, <1>3
    <3> QED
      BY <2>2, <3>1, <3>2 DEF n
  <2> QED
    BY <2>1, <2>2
<1>5. Outgoing(x) = Outgoing(box)
  BY <1>4 DEF Outgoing
<1>6. SentOnce(x)
  BY <1>1, <1>4 DEF SentOnce
<1> QED
  BY <1>1, <1>2, <1>5, <1>6 DEF Holding

\* What is taken from the front of an outbox.
LEMMA TailPlaces ==
  ASSUME NEW box \in [Addresses -> Seq(Fitting)], NEW a \in Addresses, box[a] # <<>>,
         NEW x, x = [box EXCEPT ![a] = Tail(box[a])]
  PROVE  /\ x \in [Addresses -> Seq(Fitting)]
         /\ \A b \in Addresses : b # a => x[b] = box[b]
         /\ Len(box[a]) \in Nat \ {0} /\ Len(x[a]) = Len(box[a]) - 1
         /\ \A k \in 1..Len(x[a]) : k + 1 \in 2..Len(box[a]) /\ x[a][k] = box[a][k+1]
         /\ \A k \in 1..Len(box[a]) : k = 1 \/ (k - 1 \in 1..Len(x[a]) /\ x[a][k-1] = box[a][k])
         /\ Head(box[a]) = box[a][1]
<1>1. box[a] \in Seq(Fitting) /\ Tail(box[a]) \in Seq(Fitting)
  OBVIOUS
<1>2. x \in [Addresses -> Seq(Fitting)] /\ x[a] = Tail(box[a])
      /\ \A b \in Addresses : b # a => x[b] = box[b]
  BY <1>1
<1>3. Len(box[a]) \in Nat \ {0}
  BY <1>1
<1>4. /\ Len(x[a]) = Len(box[a]) - 1
      /\ \A k \in 1..Len(x[a]) : x[a][k] = box[a][k+1]
      /\ Head(box[a]) = box[a][1]
  BY <1>1, <1>2, <1>3
<1>5. \A k \in 1..Len(x[a]) : k + 1 \in 2..Len(box[a])
  BY <1>3, <1>4
<1>6. ASSUME NEW k \in 1..Len(box[a]), k # 1
      PROVE  k - 1 \in 1..Len(x[a]) /\ x[a][k-1] = box[a][k]
  <2>1. k - 1 \in 1..Len(x[a]) /\ (k - 1) + 1 = k
    BY <1>3, <1>4, <1>6
  <2> QED
    BY <1>4, <2>1
<1> QED
  BY <1>2, <1>3, <1>4, <1>5, <1>6

\* The first transaction of an outbox, when it is a call.
LEMMA HeadCall ==
  ASSUME NEW C, NEW box \in Holding(C), NEW a \in Addresses, box[a] # <<>>,
         NEW c \in Calls, Head(box[a]) = TaskTx(c)
  PROVE  /\ c \in C /\ a = Sender[c.instance][c.task]
         /\ \A l \in 1..Len(box[a]) : box[a][l] = TaskTx(c) => l = 1
<1>1. box \in [Addresses -> Seq(Fitting)] /\ SentOnce(box) /\ Outgoing(box) = C
  BY DEF Holding
<1>2. box[a] \in Seq(Fitting)
  BY <1>1
<1>3. 1 \in 1..Len(box[a]) /\ box[a][1] = TaskTx(c)
  BY <1>2
<1> QED
  BY <1>1, <1>3 DEF Outgoing, SentOnce

\* A call is taken from an outbox.
LEMMA TailCall ==
  ASSUME NEW C, NEW box \in Holding(C), NEW a \in Addresses, box[a] # <<>>,
         NEW c \in Calls, Head(box[a]) = TaskTx(c),
         NEW x, x = [box EXCEPT ![a] = Tail(box[a])]
  PROVE  x \in Holding(C \ {c})
<1>1. box \in [Addresses -> Seq(Fitting)] /\ SentOnce(box) /\ Outgoing(box) = C
  BY DEF Holding
<1>2. /\ x \in [Addresses -> Seq(Fitting)]
      /\ \A b \in Addresses : b # a => x[b] = box[b]
      /\ Len(box[a]) \in Nat \ {0} /\ Len(x[a]) = Len(box[a]) - 1
      /\ \A k \in 1..Len(x[a]) : k + 1 \in 2..Len(box[a]) /\ x[a][k] = box[a][k+1]
      /\ \A k \in 1..Len(box[a]) : k = 1 \/ (k - 1 \in 1..Len(x[a]) /\ x[a][k-1] = box[a][k])
      /\ Head(box[a]) = box[a][1]
  BY <1>1, TailPlaces
<1>3. 1 \in 1..Len(box[a]) /\ box[a][1] = TaskTx(c)
  BY <1>2
<1>4. c \in C /\ a = Sender[c.instance][c.task]
      /\ \A l \in 1..Len(box[a]) : box[a][l] = TaskTx(c) => l = 1
  BY HeadCall
<1>5. \A k \in 1..Len(x[a]) : k + 1 \in 1..Len(box[a]) /\ k + 1 # 1
  BY <1>2
<1>6. ASSUME NEW b \in Addresses, NEW k \in 1..Len(x[b]), NEW d \in Calls, x[b][k] = TaskTx(d)
      PROVE  /\ d # c
             /\ d \in C
             /\ b = Sender[d.instance][d.task]
             /\ \A l \in 1..Len(x[b]) : x[b][l] = TaskTx(d) => l = k
  <2>1. CASE b # a
    <3>1. k \in 1..Len(box[b]) /\ box[b][k] = TaskTx(d) /\ x[b] = box[b]
      BY <1>2, <1>6, <2>1
    <3>2. b = Sender[d.instance][d.task]
          /\ \A l \in 1..Len(box[b]) : box[b][l] = TaskTx(d) => l = k
      BY <1>1, <3>1 DEF SentOnce
    <3> QED
      BY <1>1, <1>4, <2>1, <3>1, <3>2 DEF Outgoing
  <2>2. CASE b = a
    <3>1. k + 1 \in 1..Len(box[a]) /\ k + 1 # 1 /\ box[a][k+1] = TaskTx(d)
      BY <1>2, <1>5, <1>6, <2>2
    <3>2. a = Sender[d.instance][d.task]
          /\ \A l \in 1..Len(box[a]) : box[a][l] = TaskTx(d) => l = k + 1
      BY <1>1, <3>1 DEF SentOnce
    <3>3. d # c
      BY <1>4, <3>1
    <3>4. d \in C
      BY <1>1, <3>1 DEF Outgoing
    <3>5. ASSUME NEW l \in 1..Len(x[a]), x[a][l] = TaskTx(d) PROVE l = k
      <4>1. l + 1 \in 1..Len(box[a]) /\ box[a][l+1] = TaskTx(d)
        BY <1>2, <1>5, <3>5
      <4>2. l + 1 = k + 1
        BY <3>2, <4>1
      <4>3. l \in Int /\ k \in Int
        BY <2>2
      <4> QED
        BY <4>2, <4>3
    <3> QED
      BY <2>2, <3>2, <3>3, <3>4, <3>5
  <2> QED
    BY <2>1, <2>2
<1>7. SentOnce(x)
  <2> SUFFICES ASSUME NEW b \in Addresses, NEW k \in 1..Len(x[b]), NEW d \in Calls,
                      x[b][k] = TaskTx(d)
               PROVE  /\ b = Sender[d.instance][d.task]
                      /\ \A l \in 1..Len(x[b]) : x[b][l] = TaskTx(d) => l = k
    BY DEF SentOnce
  <2>1. b = Sender[d.instance][d.task]
    BY ONLY <1>6, b \in Addresses, k \in 1..Len(x[b]), d \in Calls, x[b][k] = TaskTx(d)
  <2>2. \A l \in 1..Len(x[b]) : x[b][l] = TaskTx(d) => l = k
    BY ONLY <1>6, b \in Addresses, k \in 1..Len(x[b]), d \in Calls, x[b][k] = TaskTx(d)
  <2> QED
    BY <2>1, <2>2
<1>8. Outgoing(x) = C \ {c}
  <2>1. ASSUME NEW d \in Outgoing(x) PROVE d \in C \ {c}
    <3>1. d \in Calls /\ \E b \in Addresses : \E k \in 1..Len(x[b]) : x[b][k] = TaskTx(d)
      BY DEF Outgoing
    <3>2. PICK b \in Addresses : \E k \in 1..Len(x[b]) : x[b][k] = TaskTx(d)
      BY <3>1
    <3>3. PICK k \in 1..Len(x[b]) : x[b][k] = TaskTx(d)
      BY <3>2
    <3>4. d \in Calls
      BY <3>1
    <3> QED
      BY ONLY <1>6, <3>3, <3>4, b \in Addresses, k \in 1..Len(x[b])
  <2>2. ASSUME NEW d \in C, d # c PROVE d \in Outgoing(x)
    <3>1. d \in Calls /\ \E b \in Addresses : \E k \in 1..Len(box[b]) : box[b][k] = TaskTx(d)
      BY <1>1 DEF Outgoing
    <3>2. PICK b \in Addresses : \E k \in 1..Len(box[b]) : box[b][k] = TaskTx(d)
      BY <3>1
    <3>3. PICK k \in 1..Len(box[b]) : box[b][k] = TaskTx(d)
      BY <3>2
    <3>4. CASE b # a
      <4>1. k \in 1..Len(x[b]) /\ x[b][k] = TaskTx(d)
        BY <1>2, <3>3, <3>4
      <4> QED
        BY <3>1, <4>1 DEF Outgoing
    <3>5. CASE b = a
      <4>1. k # 1
        BY <1>3, <2>2, <3>3, <3>5, TaskTxOf
      <4>2. k - 1 \in 1..Len(x[a]) /\ x[a][k-1] = TaskTx(d)
        BY <1>2, <3>3, <3>5, <4>1
      <4> QED
        BY <3>1, <4>2 DEF Outgoing
    <3> QED
      BY <3>4, <3>5
  <2> QED
    BY <2>1, <2>2
<1> QED
  BY <1>2, <1>7, <1>8 DEF Holding

\* Something is taken that is no call.
LEMMA TailOther ==
  ASSUME NEW C, NEW box \in Holding(C), NEW a \in Addresses, box[a] # <<>>,
         \A c \in Calls : Head(box[a]) # TaskTx(c),
         NEW x, x = [box EXCEPT ![a] = Tail(box[a])]
  PROVE  x \in Holding(C)
<1>1. box \in [Addresses -> Seq(Fitting)] /\ SentOnce(box) /\ Outgoing(box) = C
  BY DEF Holding
<1>2. /\ x \in [Addresses -> Seq(Fitting)]
      /\ \A b \in Addresses : b # a => x[b] = box[b]
      /\ Len(box[a]) \in Nat \ {0} /\ Len(x[a]) = Len(box[a]) - 1
      /\ \A k \in 1..Len(x[a]) : k + 1 \in 2..Len(box[a]) /\ x[a][k] = box[a][k+1]
      /\ \A k \in 1..Len(box[a]) : k = 1 \/ (k - 1 \in 1..Len(x[a]) /\ x[a][k-1] = box[a][k])
      /\ Head(box[a]) = box[a][1]
  BY <1>1, TailPlaces
<1>3. \A k \in 1..Len(x[a]) : k + 1 \in 1..Len(box[a])
  BY <1>2
<1>4. ASSUME NEW b \in Addresses, NEW k \in 1..Len(x[b]), NEW d \in Calls, x[b][k] = TaskTx(d)
      PROVE  /\ d \in C
             /\ b = Sender[d.instance][d.task]
             /\ \A l \in 1..Len(x[b]) : x[b][l] = TaskTx(d) => l = k
  <2>1. CASE b # a
    <3>1. k \in 1..Len(box[b]) /\ box[b][k] = TaskTx(d) /\ x[b] = box[b]
      BY <1>2, <1>4, <2>1
    <3> QED
      BY <1>1, <3>1 DEF SentOnce, Outgoing
  <2>2. CASE b = a
    <3>1. k + 1 \in 1..Len(box[a]) /\ box[a][k+1] = TaskTx(d)
      BY <1>2, <1>3, <1>4, <2>2
    <3>2. a = Sender[d.instance][d.task]
          /\ \A l \in 1..Len(box[a]) : box[a][l] = TaskTx(d) => l = k + 1
      BY <1>1, <3>1 DEF SentOnce
    <3>3. d \in C
      BY <1>1, <3>1 DEF Outgoing
    <3>4. ASSUME NEW l \in 1..Len(x[a]), x[a][l] = TaskTx(d) PROVE l = k
      <4>1. l + 1 \in 1..Len(box[a]) /\ box[a][l+1] = TaskTx(d)
        BY <1>2, <1>3, <3>4
      <4>2. l + 1 = k + 1
        BY <3>2, <4>1
      <4>3. l \in Int /\ k \in Int
        BY <2>2
      <4> QED
        BY <4>2, <4>3
    <3> QED
      BY <2>2, <3>2, <3>3, <3>4
  <2> QED
    BY <2>1, <2>2
<1>5. SentOnce(x)
  <2> SUFFICES ASSUME NEW b \in Addresses, NEW k \in 1..Len(x[b]), NEW d \in Calls,
                      x[b][k] = TaskTx(d)
               PROVE  /\ b = Sender[d.instance][d.task]
                      /\ \A l \in 1..Len(x[b]) : x[b][l] = TaskTx(d) => l = k
    BY DEF SentOnce
  <2>1. b = Sender[d.instance][d.task]
    BY <1>4
  <2>2. \A l \in 1..Len(x[b]) : x[b][l] = TaskTx(d) => l = k
    BY <1>4
  <2> QED
    BY <2>1, <2>2
<1>6. Outgoing(x) = C
  <2>1. ASSUME NEW d \in Outgoing(x) PROVE d \in C
    <3>1. d \in Calls /\ \E b \in Addresses : \E k \in 1..Len(x[b]) : x[b][k] = TaskTx(d)
      BY DEF Outgoing
    <3> QED
      BY <1>4, <3>1
  <2>2. ASSUME NEW d \in C PROVE d \in Outgoing(x)
    <3>1. d \in Calls /\ \E b \in Addresses : \E k \in 1..Len(box[b]) : box[b][k] = TaskTx(d)
      BY <1>1 DEF Outgoing
    <3>2. PICK b \in Addresses : \E k \in 1..Len(box[b]) : box[b][k] = TaskTx(d)
      BY <3>1
    <3>3. PICK k \in 1..Len(box[b]) : box[b][k] = TaskTx(d)
      BY <3>2
    <3>4. CASE b # a
      <4>1. k \in 1..Len(x[b]) /\ x[b][k] = TaskTx(d)
        BY <1>2, <3>3, <3>4
      <4> QED
        BY <3>1, <4>1 DEF Outgoing
    <3>5. CASE b = a
      <4>1. k # 1
        BY <1>2, <3>1, <3>3, <3>5
      <4>2. k - 1 \in 1..Len(x[a]) /\ x[a][k-1] = TaskTx(d)
        BY <1>2, <3>3, <3>5, <4>1
      <4> QED
        BY <3>1, <4>2 DEF Outgoing
    <3> QED
      BY <3>4, <3>5
  <2> QED
    BY <2>1, <2>2
<1> QED
  BY <1>2, <1>5, <1>6 DEF Holding

\* Calls are sent that differ from each other and from those in the outboxes.
LEMMA SentHolds ==
  ASSUME NEW C, NEW box \in Holding(C), NEW calls \in Seq(Calls),
         \A i \in 1..Len(calls) : calls[i] \notin C,
         \A i, j \in 1..Len(calls) : calls[i] = calls[j] => i = j
  PROVE  Sent(box, calls) \in Holding(C \cup {calls[i] : i \in 1..Len(calls)})
<1> DEFINE n == Len(calls)
           D(k) == C \cup {calls[i] : i \in 1..k}
           S == [k \in 0..n |-> Holding(D(k))]
<1>1. n \in Nat /\ \A i \in 1..n : calls[i] \in Calls
  OBVIOUS
<1>2. box \in S[0]
  <2>1. D(0) = C
    <3>1. \A i \in 1..0 : FALSE
      OBVIOUS
    <3>2. {calls[i] : i \in 1..0} = {}
      BY <3>1
    <3> QED
      BY <3>2
  <2>2. S[0] = Holding(D(0))
    BY <1>1
  <2> HIDE DEF D, S
  <2> QED
    BY <2>1, <2>2
<1>3. \A i \in 1..n : i \in 0..n /\ i - 1 \in 0..n
  BY <1>1
<1>4. ASSUME NEW k \in 1..n, NEW x \in S[k-1]
      PROVE  SendStep(x, calls, k) \in S[k]
  <2> DEFINE c == calls[k]
             a == Sender[c.instance][c.task]
  <2>1. x \in Holding(D(k-1))
    BY <1>3
  <2>2. c \in Calls
    BY <1>1
  <2>3. a \in Addresses
    BY <2>2, ClientAssumption DEF Calls
  <2>4. c \notin D(k-1)
    <3>1. \A i \in 1..(k-1) : i \in 1..n /\ i # k
      BY <1>1
    <3>2. \A i \in 1..(k-1) : calls[i] # c
      BY <3>1
    <3> QED
      BY <3>2
  <2>5. TaskTx(c) \in Fitting
    BY <2>2 DEF Fitting
  <2>6. SendStep(x, calls, k) = [x EXCEPT ![a] = Append(x[a], TaskTx(c))]
    BY DEF SendStep
  <2>7. D(k) = D(k-1) \cup {c}
    <3>1. \A i \in 1..k : i = k \/ i \in 1..(k-1)
      BY <1>1
    <3>2. k \in 1..k /\ \A i \in 1..(k-1) : i \in 1..k
      BY <1>1
    <3> QED
      BY <3>1, <3>2
  <2>8. S[k] = Holding(D(k))
    BY <1>3
  <2> HIDE DEF a, c, D, S
  <2>9. SendStep(x, calls, k) \in Holding(D(k-1) \cup {c})
    BY <2>1, <2>2, <2>3, <2>4, <2>5, <2>6, AppendCall DEF a
  <2> QED
    BY <2>7, <2>8, <2>9
<1>5. S[n] = Holding(D(n))
  BY <1>1
<1> HIDE DEF S
<1>6. Sent(box, calls) \in S[n]
  BY <1>1, <1>2, <1>4, SentLoop
<1> QED
  BY <1>5, <1>6

\* The call of an interaction.
CallOf(p) == Call(p.task, p.instance)

\* Those of a round.
CallsOf(pending) == {c \in Calls : \E j \in 1..Len(pending) : CallOf(pending[j]) = c}

\* Those of a queue of events.
EventsOf(s) == {c \in Calls : \E k \in 1..Len(s) : s[k] = c}

\* An instance has one event in a queue at most.
OneEvent(s) == \A j, k \in 1..Len(s) : s[j].instance = s[k].instance => j = k

\* The first event of a queue is taken.
LEMMA EventTaken ==
  ASSUME NEW s \in Seq(Calls), s # <<>>, OneEvent(s)
  PROVE  /\ Head(s) \in EventsOf(s)
         /\ Tail(s) \in Seq(Calls) /\ OneEvent(Tail(s))
         /\ EventsOf(Tail(s)) = EventsOf(s) \ {Head(s)}
         /\ \A d \in EventsOf(s) : d.instance = Head(s).instance => d = Head(s)
<1>1. Len(s) \in Nat \ {0} /\ Head(s) = s[1] /\ 1 \in 1..Len(s)
      /\ \A k \in 1..Len(s) : s[k] \in Calls
  OBVIOUS
<1>2. Tail(s) \in Seq(Calls) /\ Len(Tail(s)) = Len(s) - 1
      /\ \A k \in 1..Len(Tail(s)) : Tail(s)[k] = s[k+1]
  BY <1>1
<1>3. \A k \in 1..Len(Tail(s)) : k + 1 \in 1..Len(s) /\ k + 1 # 1
  BY <1>1, <1>2
<1>4. \A k \in 1..Len(s) : k # 1 => k - 1 \in 1..Len(Tail(s)) /\ Tail(s)[k-1] = s[k]
  BY <1>1, <1>2
<1>5. Head(s) \in EventsOf(s)
  BY <1>1 DEF EventsOf
<1>6. \A d \in EventsOf(s) : d.instance = Head(s).instance => d = Head(s)
  BY <1>1 DEF EventsOf, OneEvent
<1>7. OneEvent(Tail(s))
  <2> SUFFICES ASSUME NEW j \in 1..Len(Tail(s)), NEW k \in 1..Len(Tail(s)),
                      Tail(s)[j].instance = Tail(s)[k].instance
               PROVE  j = k
    BY DEF OneEvent
  <2>1. j + 1 = k + 1
    BY <1>2, <1>3 DEF OneEvent
  <2> QED
    BY <2>1
<1>8. EventsOf(Tail(s)) = EventsOf(s) \ {Head(s)}
  <2>1. ASSUME NEW d \in EventsOf(Tail(s)) PROVE d \in EventsOf(s) \ {Head(s)}
    <3>1. PICK k \in 1..Len(Tail(s)) : Tail(s)[k] = d
      BY DEF EventsOf
    <3>2. k + 1 \in 1..Len(s) /\ k + 1 # 1 /\ s[k+1] = d
      BY <1>2, <1>3, <3>1
    <3>3. d # s[1]
      BY <1>1, <3>2 DEF OneEvent
    <3> QED
      BY <1>1, <3>2, <3>3 DEF EventsOf
  <2>2. ASSUME NEW d \in EventsOf(s), d # Head(s) PROVE d \in EventsOf(Tail(s))
    <3>1. PICK k \in 1..Len(s) : s[k] = d
      BY DEF EventsOf
    <3>2. k - 1 \in 1..Len(Tail(s)) /\ Tail(s)[k-1] = d
      BY <1>1, <1>4, <2>2, <3>1
    <3> QED
      BY <3>2 DEF EventsOf
  <2> QED
    BY <2>1, <2>2
<1> QED
  BY <1>2, <1>5, <1>6, <1>7, <1>8

\* An event of an instance that has none is added.
LEMMA EventAdded ==
  ASSUME NEW s \in Seq(Calls), NEW e \in Calls, OneEvent(s),
         \A c \in EventsOf(s) : c.instance # e.instance
  PROVE  /\ Append(s, e) \in Seq(Calls) /\ OneEvent(Append(s, e))
         /\ EventsOf(Append(s, e)) = EventsOf(s) \cup {e}
<1> DEFINE t == Append(s, e)
           n == Len(s)
<1>1. /\ t \in Seq(Calls) /\ n \in Nat /\ Len(t) = n + 1
      /\ \A k \in 1..n : t[k] = s[k] /\ s[k] \in Calls
      /\ t[n+1] = e
  OBVIOUS
<1>2. \A k \in 1..(n+1) : k \in 1..n \/ k = n + 1
  BY <1>1
<1>3. \A k \in 1..n : k \in 1..(n+1)
  BY <1>1
<1>4. n + 1 \in 1..(n+1)
  BY <1>1
<1>5. \A k \in 1..n : s[k].instance # e.instance
  BY <1>1 DEF EventsOf
<1> HIDE DEF t
<1>6. OneEvent(t)
  <2> SUFFICES ASSUME NEW j \in 1..Len(t), NEW k \in 1..Len(t), t[j].instance = t[k].instance
               PROVE  j = k
    BY DEF OneEvent
  <2>1. CASE j \in 1..n /\ k \in 1..n
    BY <1>1, <2>1 DEF OneEvent
  <2>2. CASE j \in 1..n /\ k = n + 1
    BY <1>1, <1>5, <2>2
  <2>3. CASE k \in 1..n /\ j = n + 1
    BY <1>1, <1>5, <2>3
  <2> QED
    BY <1>1, <1>2, <2>1, <2>2, <2>3
<1>7. EventsOf(t) = EventsOf(s) \cup {e}
  BY <1>1, <1>2, <1>3, <1>4 DEF EventsOf
<1> QED
  BY <1>1, <1>6, <1>7 DEF t

\* A task of a stage is followed by another one.
LEMMA StageLeft ==
  ASSUME NEW stage \in Stages, NEW task \in stage, NEW stock \in Nat
  PROVE  /\ (stage \cup Opens(task, stock)) \ Closes(task) = Opens(task, stock)
         /\ Opens(task, stock) \cap stage = {}
<1>1. stage = {"purchaseOrder"} => task = "purchaseOrder"
  OBVIOUS
<1>2. CASE task = "purchaseOrder"
  <2>1. stage = {"purchaseOrder"}
    BY <1>2 DEF Stages
  <2>2. Opens(task, stock) \in {{"deliveryDetails"}, {"insufficientSupplies"}}
    BY <1>2 DEF Opens
  <2>3. Closes(task) = {"purchaseOrder"}
    BY <1>2 DEF Closes
  <2> QED
    BY <2>1, <2>2, <2>3
<1>3. CASE task = "insufficientSupplies"
  <2>1. stage = {"insufficientSupplies"}
    BY <1>3 DEF Stages
  <2>2. Opens(task, stock) = {"purchaseOrder"}
    BY <1>3 DEF Opens
  <2>3. Closes(task) = {"insufficientSupplies"}
    BY <1>3 DEF Closes
  <2> QED
    BY <2>1, <2>2, <2>3
<1>4. CASE task = "deliveryDetails"
  <2>1. stage = {"deliveryDetails"}
    BY <1>4 DEF Stages
  <2>2. Opens(task, stock) = {"confirmShipping", "cancelOrder"}
    BY <1>4 DEF Opens
  <2>3. Closes(task) = {"deliveryDetails"}
    BY <1>4 DEF Closes
  <2> QED
    BY <2>1, <2>2, <2>3
<1>5. CASE task = "confirmShipping"
  <2>1. stage = {"confirmShipping", "cancelOrder"}
    BY <1>5 DEF Stages
  <2>2. Opens(task, stock) = {"itemDelivered"}
    BY <1>5 DEF Opens
  <2>3. Closes(task) = {"confirmShipping", "cancelOrder"}
    BY <1>5 DEF Closes
  <2> QED
    BY <2>1, <2>2, <2>3
<1>6. CASE task = "cancelOrder"
  <2>1. stage = {"confirmShipping", "cancelOrder"}
    BY <1>6 DEF Stages
  <2>2. Opens(task, stock) = {"purchaseOrder"}
    BY <1>6 DEF Opens
  <2>3. Closes(task) = {"confirmShipping", "cancelOrder"}
    BY <1>6 DEF Closes
  <2> QED
    BY <2>1, <2>2, <2>3
<1>7. CASE task = "itemDelivered"
  <2>1. stage = {"itemDelivered"}
    BY <1>7 DEF Stages
  <2>2. Opens(task, stock) = {"purchaseOrder"}
    BY <1>7 DEF Opens
  <2>3. Closes(task) = {"itemDelivered"}
    BY <1>7 DEF Closes
  <2> QED
    BY <2>1, <2>2, <2>3
<1> QED
  BY <1>2, <1>3, <1>4, <1>5, <1>6, <1>7 DEF Stages

\* The sequence of a set of one element, and of none.
LEMMA SeqOfOne ==
  /\ SetToSeq({}) = <<>>
  /\ \A e \in Calls : SetToSeq({e}) = <<e>>
<1>1. SetToSeq({}) = <<>>
  <2>1. Cardinality({}) = 0
    BY FS_EmptySet
  <2> DEFINE f == [i \in 1..0 |-> 0]
  <2>2. f \in [1..0 -> {}] /\ IsInjective(f)
    BY DEF IsInjective
  <2>3. SetToSeq({}) \in [1..0 -> {}]
    <3> HIDE DEF f
    <3> QED
      BY <2>1, <2>2 DEF SetToSeq
  <2>4. SetToSeq({}) \in Seq({}) /\ Len(SetToSeq({})) = 0
    <3> HIDE DEF f
    <3>1. SetToSeq({}) \in Seq({})
      BY <2>3, FunctionIsSeq
    <3> QED
      BY <2>3, <3>1
  <2> QED
    BY <2>4
<1>2. ASSUME NEW e \in Calls PROVE SetToSeq({e}) = <<e>>
  <2>1. Cardinality({e}) = 1
    BY FS_Singleton
  <2> DEFINE f == [i \in 1..1 |-> e]
  <2>2. f \in [1..1 -> {e}] /\ IsInjective(f)
    BY DEF IsInjective
  <2>3. SetToSeq({e}) \in [1..1 -> {e}]
    <3> HIDE DEF f
    <3> QED
      BY <2>1, <2>2 DEF SetToSeq
  <2>4. SetToSeq({e}) \in Seq({e}) /\ Len(SetToSeq({e})) = 1 /\ SetToSeq({e})[1] = e
    <3> HIDE DEF f
    <3>1. SetToSeq({e}) \in Seq({e})
      BY <2>3, FunctionIsSeq
    <3> QED
      BY <2>3, <3>1
  <2> QED
    BY <2>4
<1> QED
  BY <1>1, <1>2

\* What a task's execution announces as enabled: nothing, or the task that it opens.
LEMMA OpenedEvent ==
  ASSUME NEW task \in Tasks, NEW stock \in Nat, NEW inst \in InstanceIds
  PROVE  LET opened == Opens(task, stock)
                         \cap {"deliveryDetails", "insufficientSupplies", "itemDelivered"}
             events == SetToSeq({Call(t, inst) : t \in opened})
         IN  \/ events = <<>>
             \/ /\ task \notin {"deliveryDetails"} \cup Ends
                /\ \E t \in Opens(task, stock) : events = <<Call(t, inst)>> /\ t \in Tasks
<1> DEFINE opened == Opens(task, stock)
                       \cap {"deliveryDetails", "insufficientSupplies", "itemDelivered"}
           A == {Call(t, inst) : t \in opened}
<1>1. \/ opened = {}
      \/ task \notin {"deliveryDetails"} \cup Ends /\ \E t \in Tasks : opened = {t}
  <2>1. CASE task = "purchaseOrder"
    <3>1. opened = IF stock > 0 THEN {"deliveryDetails"} ELSE {"insufficientSupplies"}
      BY <2>1 DEF Opens
    <3> QED
      BY <2>1, <3>1 DEF Tasks, Ends
  <2>2. CASE task = "deliveryDetails"
    BY <2>2 DEF Opens
  <2>3. CASE task = "confirmShipping"
    <3>1. opened = {"itemDelivered"}
      BY <2>3 DEF Opens
    <3> QED
      BY <2>3, <3>1 DEF Tasks, Ends
  <2>4. CASE task \notin {"purchaseOrder", "deliveryDetails", "confirmShipping"}
    <3>1. Opens(task, stock) = {"purchaseOrder"}
      BY <2>4 DEF Opens
    <3> QED
      BY <3>1
  <2> QED
    BY <2>1, <2>2, <2>3, <2>4
<1>2. opened \subseteq Opens(task, stock)
  OBVIOUS
<1> HIDE DEF opened
<1>3. CASE opened = {}
  <2>1. A = {}
    BY <1>3
  <2> HIDE DEF A
  <2>2. SetToSeq(A) = <<>>
    BY <2>1, SeqOfOne
  <2> QED
    BY <2>2 DEF A, opened
<1>4. ASSUME task \notin {"deliveryDetails"} \cup Ends, NEW t \in Tasks, opened = {t}
      PROVE  /\ t \in Opens(task, stock) /\ t \in Tasks
             /\ SetToSeq(A) = <<Call(t, inst)>>
  <2>1. Call(t, inst) \in Calls
    BY DEF Call, Calls
  <2>2. A = {Call(t, inst)}
    BY <1>4
  <2> HIDE DEF A
  <2>3. SetToSeq(A) = <<Call(t, inst)>>
    BY <2>1, <2>2, SeqOfOne
  <2> QED
    BY <1>2, <1>4, <2>3
<1>5. CASE task \notin {"deliveryDetails"} \cup Ends /\ \E t \in Tasks : opened = {t}
  <2>1. PICK t \in Tasks : opened = {t}
    BY <1>5
  <2>2. t \in Opens(task, stock) /\ SetToSeq(A) = <<Call(t, inst)>>
    BY <1>4, <1>5, <2>1
  <2> QED
    BY <1>5, <2>2 DEF A, opened
<1> QED
  BY <1>1, <1>3, <1>5

\* What stands behind the announcement that a task was executed: the stage that
\* follows it, and no call of its instance unless it waits for one of the provider.
Answers(ts, F, c) ==
  /\ c.task # "purchaseOrder"
  /\ c.task = "deliveryDetails" => /\ ts[c.instance] = {"confirmShipping", "cancelOrder"}
                                   /\ \A d \in F : d.instance # c.instance
  /\ c.task \in Ends => /\ ts[c.instance] = {"purchaseOrder"}
                        /\ \A d \in F : d.instance # c.instance

\* A run of the calls of W on the states ts of the instances, so far: an instance is as
\* it was, or one of its calls took it to a stage that none of the others is for.
Running(ts, W, w) ==
  {r \in Runs :
     /\ r.w = w
     /\ OneEvent(r.enabled) /\ OneEvent(r.executed)
     /\ \A c \in EventsOf(r.enabled) : c.task \in w.tasks_state[c.instance]
     /\ \A c \in EventsOf(r.executed) : Answers(w.tasks_state, EventsOf(r.enabled), c)
     /\ \A i \in InstanceIds :
          \/ /\ w.tasks_state[i] = ts[i]
             /\ \A c \in EventsOf(r.enabled) \cup EventsOf(r.executed) : c.instance # i
          \/ w.tasks_state[i] \cap ts[i] = {} /\ \E c \in W : c.instance = i}

\* The next call of the run.
LEMMA RunStepRuns ==
  ASSUME NEW ts \in [InstanceIds -> Stages], NEW W \in SUBSET Calls,
         NEW c \in W, c.task \in ts[c.instance],
         NEW w, NEW r \in Running(ts, W, w),
         NEW txs \in Seq(Executable), NEW k \in 1..Len(txs), txs[k] = TaskTx(c)
  PROVE  RunStep(r, txs, k) \in Running(ts, W, CallTask(w, c.task, c.instance))
<1> DEFINE inst == c.instance
           stock == w.supplies
           next == Opens(c.task, stock)
           v == CallTask(w, c.task, c.instance)
           opened == SetToSeq({Call(t, inst) :
                       t \in next \cap {"deliveryDetails", "insufficientSupplies",
                                        "itemDelivered"}})
           enabled == r.enabled \o opened
           done == IF c.task = "purchaseOrder" THEN r.executed ELSE Append(r.executed, c)
           q == RunStep(r, txs, k)
<1>1. /\ r \in Runs /\ r.w = w /\ OneEvent(r.enabled) /\ OneEvent(r.executed)
      /\ \A d \in EventsOf(r.enabled) : d.task \in w.tasks_state[d.instance]
      /\ \A d \in EventsOf(r.executed) : Answers(w.tasks_state, EventsOf(r.enabled), d)
      /\ \A i \in InstanceIds :
           \/ /\ w.tasks_state[i] = ts[i]
              /\ \A d \in EventsOf(r.enabled) \cup EventsOf(r.executed) : d.instance # i
           \/ w.tasks_state[i] \cap ts[i] = {} /\ \E d \in W : d.instance = i
  BY DEF Running
<1>2. /\ w \in Works /\ r.enabled \in Seq(Calls) /\ r.executed \in Seq(Calls)
      /\ r.failed \in SUBSET Nat
      /\ r = [w |-> w, enabled |-> r.enabled, executed |-> r.executed, failed |-> r.failed]
  BY <1>1 DEF Runs
<1>3. w.tasks_state \in [InstanceIds -> SUBSET Tasks] /\ stock \in Nat
  BY <1>2 DEF Works
<1>4. c \in Calls /\ c.task \in Tasks /\ inst \in InstanceIds
  BY DEF Calls
<1>5. txs[k].call = c /\ txs[k] # SuppliesTx
  BY TaskTxOf
<1>6. q \in Runs
  BY <1>1, RunStepType
<1>7. CASE c.task \notin w.tasks_state[inst]
  <2>1. q = [r EXCEPT !.failed = @ \cup {k}]
    BY <1>1, <1>5, <1>7 DEF RunStep
  <2>2. q.w = w /\ q.enabled = r.enabled /\ q.executed = r.executed
    BY <1>2, <2>1
  <2>3. v = w
    BY <1>7 DEF CallTask
  <2> HIDE DEF q, v
  <2>4. q \in Running(ts, W, w)
    BY <1>1, <1>6, <2>2 DEF Running
  <2> QED
    BY <2>3, <2>4 DEF q, v
<1>8. CASE c.task \in w.tasks_state[inst]
  <2>1. /\ w.tasks_state[inst] = ts[inst]
        /\ \A d \in EventsOf(r.enabled) \cup EventsOf(r.executed) : d.instance # inst
    BY <1>1, <1>4, <1>8
  <2>2. /\ q.w = v
        /\ q.enabled = enabled
        /\ q.executed = done
    <3>1. q = [r EXCEPT !.w = CallTask(@, c.task, c.instance),
                        !.enabled = @ \o opened,
                        !.executed = IF c.task = "purchaseOrder" THEN @ ELSE Append(@, c)]
      BY <1>1, <1>5, <1>8 DEF RunStep
    <3> HIDE DEF q, opened
    <3> QED
      BY <1>2, <3>1
  <2>3. v.tasks_state = [w.tasks_state EXCEPT ![inst] = next]
    <3>1. v.tasks_state
            = [w.tasks_state EXCEPT ![inst] = (@ \cup Opens(c.task, stock)) \ Closes(c.task)]
      BY <1>8 DEF CallTask
    <3>2. ts[inst] \in Stages
      BY <1>4
    <3>3. (ts[inst] \cup Opens(c.task, stock)) \ Closes(c.task) = next
      BY <1>3, <3>2, StageLeft
    <3> HIDE DEF v, next
    <3> QED
      BY <1>3, <2>1, <3>1, <3>3
  <2>4. next \cap ts[inst] = {}
    BY <1>3, <1>4, StageLeft
  <2> HIDE DEF v, q, next
  <2>5. /\ v.tasks_state[inst] = next
        /\ \A i \in InstanceIds : i # inst => v.tasks_state[i] = w.tasks_state[i]
    BY <1>3, <1>4, <2>3
  <2>6. \/ opened = <<>>
        \/ /\ c.task \notin {"deliveryDetails"} \cup Ends
           /\ \E t \in next : opened = <<Call(t, inst)>> /\ t \in Tasks
    BY <1>3, <1>4, OpenedEvent DEF next
  <2> HIDE DEF opened
  <2>7. /\ OneEvent(enabled)
        /\ \A d \in EventsOf(r.enabled) : d \in EventsOf(enabled)
        /\ \A d \in EventsOf(enabled) :
             d \in EventsOf(r.enabled)
               \/ /\ d.instance = inst /\ d.task \in next
                  /\ c.task \notin {"deliveryDetails"} \cup Ends
    <3>1. CASE opened = <<>>
      <4>1. enabled = r.enabled
        BY <1>2, <3>1
      <4> QED
        BY <1>1, <4>1
    <3>2. ASSUME c.task \notin {"deliveryDetails"} \cup Ends,
                 NEW t \in next, opened = <<Call(t, inst)>>, t \in Tasks
          PROVE  <2>7!:
      <4> DEFINE e == Call(t, inst)
      <4>1. e \in Calls /\ e.instance = inst /\ e.task = t
        BY <1>4, <3>2 DEF Call, Calls
      <4> HIDE DEF e
      <4>2. enabled = Append(r.enabled, e)
        BY <1>2, <3>2, <4>1 DEF e
      <4>3. /\ OneEvent(Append(r.enabled, e))
            /\ EventsOf(Append(r.enabled, e)) = EventsOf(r.enabled) \cup {e}
        BY <1>1, <1>2, <2>1, <4>1, EventAdded
      <4> QED
        BY <3>2, <4>1, <4>2, <4>3
    <3> QED
      BY <2>6, <3>1, <3>2
  <2>8. /\ OneEvent(done)
        /\ \A d \in EventsOf(done) :
             d \in EventsOf(r.executed) \/ (d = c /\ c.task # "purchaseOrder")
    <3>1. CASE c.task = "purchaseOrder"
      BY <1>1, <3>1
    <3>2. CASE c.task # "purchaseOrder"
      <4>1. /\ OneEvent(Append(r.executed, c))
            /\ EventsOf(Append(r.executed, c)) = EventsOf(r.executed) \cup {c}
        BY <1>1, <1>2, <1>4, <2>1, EventAdded
      <4> QED
        BY <3>2, <4>1
    <3> QED
      BY <3>1, <3>2
  <2> HIDE DEF enabled, done
  <2>9. ASSUME NEW d \in EventsOf(enabled) PROVE d.task \in v.tasks_state[d.instance]
    <3>1. d.instance \in InstanceIds
      BY DEF EventsOf, Calls
    <3> QED
      BY <1>1, <2>1, <2>5, <2>7, <3>1
  <2>10. ASSUME NEW d \in EventsOf(done) PROVE Answers(v.tasks_state, EventsOf(enabled), d)
    <3>1. d.instance \in InstanceIds
      BY DEF EventsOf, Calls
    <3>2. CASE d \in EventsOf(r.executed)
      <4>1. d.instance # inst /\ Answers(w.tasks_state, EventsOf(r.enabled), d)
        BY <1>1, <2>1, <3>2
      <4>2. v.tasks_state[d.instance] = w.tasks_state[d.instance]
        BY <2>5, <3>1, <4>1
      <4>3. \A x \in EventsOf(enabled) :
              x.instance = d.instance => x \in EventsOf(r.enabled)
        BY <2>7, <4>1
      <4> QED
        BY <4>1, <4>2, <4>3 DEF Answers
    <3>3. CASE d = c /\ c.task # "purchaseOrder"
      <4>1. c.task = "deliveryDetails" => next = {"confirmShipping", "cancelOrder"}
        BY DEF Opens, next
      <4>2. c.task \in Ends => next = {"purchaseOrder"}
        BY DEF Opens, next, Ends
      <4>3. c.task \in {"deliveryDetails"} \cup Ends =>
              \A x \in EventsOf(enabled) : x.instance # inst
        BY <2>1, <2>7
      <4> QED
        BY <2>5, <3>3, <4>1, <4>2, <4>3 DEF Answers
    <3> QED
      BY <2>8, <3>2, <3>3
  <2>11. ASSUME NEW i \in InstanceIds
         PROVE  \/ /\ v.tasks_state[i] = ts[i]
                   /\ \A d \in EventsOf(enabled) \cup EventsOf(done) : d.instance # i
                \/ v.tasks_state[i] \cap ts[i] = {} /\ \E d \in W : d.instance = i
    <3>1. CASE i = inst
      BY <2>4, <2>5, <3>1
    <3>2. CASE i # inst
      <4>1. v.tasks_state[i] = w.tasks_state[i]
        BY <2>5, <3>2
      <4>2. \A d \in EventsOf(enabled) \cup EventsOf(done) :
              d.instance = i => d \in EventsOf(r.enabled) \cup EventsOf(r.executed)
        BY <2>7, <2>8, <3>2
      <4> QED
        BY <1>1, <4>1, <4>2
    <3> QED
      BY <3>1, <3>2
  <2>12. q \in Running(ts, W, v)
    BY <1>6, <2>2, <2>7, <2>8, <2>9, <2>10, <2>11 DEF Running
  <2> QED
    BY <2>12 DEF q, v
<1> QED
  BY <1>7, <1>8

\* An interaction of the script is between the accounts that have the roles of its task.
ByRole(p) ==
  /\ p.sender = Parties[p.instance][rolesToTask[p.task][1]]
  /\ p.receiver = Parties[p.instance][rolesToTask[p.task][2]]

\* The round while nothing is late: no call is in it twice, no vote has been taken that
\* does not close it, and the orderers are those who contend now.
RoundCourse ==
  /\ participants = Parties
  /\ list = <<>> /\ domain_count = 0 /\ vote_count = 0 /\ pending_domains = {}
  /\ index_block = 0 <=> pending_interactions = <<>>
  /\ orderers = Contending(pending_interactions)
  /\ \A j \in 1..Len(pending_interactions) : ByRole(pending_interactions[j])
  /\ \A j, k \in 1..Len(pending_interactions) :
       CallOf(pending_interactions[j]) = CallOf(pending_interactions[k]) => j = k

\* Who an interaction of the script involves.
LEMMA WhoIsInvolved ==
  ASSUME NEW p \in Interactions, ByRole(p)
  PROVE  LET party == Parties[p.instance]
         IN  /\ Involved(p) \subseteq {Store, party.Customer, party.Delivery}
             /\ p.task = "confirmShipping" => Involved(p) = {Store, party.Delivery}
             /\ p.task = "cancelOrder" => Involved(p) = {Store, party.Customer}
<1> DEFINE party == Parties[p.instance]
           from == rolesToTask[p.task][1]
           to == rolesToTask[p.task][2]
<1>1. p.instance \in InstanceIds /\ p.task \in Tasks
  BY DEF Interactions
<1>2. party.Store = Store
  BY <1>1, AccountsAssumption
<1>3. Involved(p) = {party[from], party[to]}
  BY DEF Involved, ByRole
<1>4. from \in Roles /\ to \in Roles
  BY <1>1 DEF Tasks, rolesToTask, Roles
<1>5. p.task = "confirmShipping" => from = "Delivery" /\ to = "Store"
  BY DEF rolesToTask
<1>6. p.task = "cancelOrder" => from = "Customer" /\ to = "Store"
  BY DEF rolesToTask
<1> HIDE DEF from, to, party
<1>7. \A r \in Roles : party[r] \in {Store, party.Customer, party.Delivery}
  BY <1>2 DEF Roles
<1>8. Involved(p) \subseteq {Store, party.Customer, party.Delivery}
  BY <1>3, <1>4, <1>7
<1>9. p.task = "confirmShipping" => Involved(p) = {Store, party.Delivery}
  BY <1>2, <1>3, <1>5
<1>10. p.task = "cancelOrder" => Involved(p) = {Store, party.Customer}
  BY <1>2, <1>3, <1>6
<1> QED
  BY <1>8, <1>9, <1>10 DEF party

\* While every call that waits is for the stage of its instance, only the store takes
\* part in two interactions.
LEMMA OnlyStoreContends ==
  ASSUME TypeOK, RoundCourse, OneStage,
         \A c \in CallsOf(pending_interactions) : c.task \in tasks_state[c.instance]
  PROVE  Contending(pending_interactions) \subseteq {Store}
<1> DEFINE p == pending_interactions
<1>1. /\ p \in Seq(Interactions) /\ Len(p) \in Nat /\ DOMAIN p = 1..Len(p)
      /\ \A j \in 1..Len(p) : p[j] \in Interactions /\ ByRole(p[j])
      /\ \A j, k \in 1..Len(p) : CallOf(p[j]) = CallOf(p[k]) => j = k
  BY DEF TypeOK, RoundCourse
<1>2. \A j \in 1..Len(p) : /\ CallOf(p[j]) \in CallsOf(p)
                           /\ CallOf(p[j]).task = p[j].task
                           /\ CallOf(p[j]).instance = p[j].instance
                           /\ p[j].instance \in InstanceIds /\ p[j].task \in Tasks
  <2> SUFFICES ASSUME NEW j \in 1..Len(p)
               PROVE  /\ CallOf(p[j]) \in CallsOf(p)
                      /\ CallOf(p[j]).task = p[j].task
                      /\ CallOf(p[j]).instance = p[j].instance
                      /\ p[j].instance \in InstanceIds /\ p[j].task \in Tasks
    OBVIOUS
  <2>1. p[j].instance \in InstanceIds /\ p[j].task \in Tasks
    BY <1>1 DEF Interactions
  <2>2. CallOf(p[j]) \in Calls
    BY <2>1 DEF CallOf, Call, Calls
  <2>3. CallOf(p[j]).task = p[j].task /\ CallOf(p[j]).instance = p[j].instance
    BY DEF CallOf, Call
  <2> QED
    BY <2>1, <2>2, <2>3 DEF CallsOf
<1> HIDE DEF p
<1> SUFFICES ASSUME NEW a \in Contending(p), a # Store
             PROVE  FALSE
  BY DEF p
<1>3. PICK j \in 1..Len(p), k \in 1..Len(p) :
        j # k /\ a \in Involved(p[j]) /\ a \in Involved(p[k])
  BY <1>1 DEF Contending
<1>4. /\ p[j] \in Interactions /\ ByRole(p[j]) /\ p[k] \in Interactions /\ ByRole(p[k])
      /\ p[j].instance \in InstanceIds /\ p[k].instance \in InstanceIds
  BY <1>1, <1>2
<1> DEFINE i == p[j].instance
           one == Parties[i]
           two == Parties[p[k].instance]
<1>5. /\ a \in {one.Customer, one.Delivery}
      /\ p[j].task = "confirmShipping" => a = one.Delivery
      /\ p[j].task = "cancelOrder" => a = one.Customer
  BY <1>3, <1>4, WhoIsInvolved
<1>6. /\ a \in {two.Customer, two.Delivery}
      /\ p[k].task = "confirmShipping" => a = two.Delivery
      /\ p[k].task = "cancelOrder" => a = two.Customer
  BY <1>3, <1>4, WhoIsInvolved
<1>7. p[k].instance = i
  <2> HIDE DEF one, two
  <2>1. a \in {one.Customer, one.Delivery} \cap {two.Customer, two.Delivery}
    BY <1>5, <1>6
  <2> QED
    BY <1>4, <2>1, AccountsAssumption DEF one, two
<1>8. p[j].task # p[k].task
  <2>1. p[j].task = p[k].task => CallOf(p[j]) = CallOf(p[k])
    BY <1>7 DEF CallOf
  <2> QED
    BY <1>1, <1>3, <2>1
<1>9. p[j].task \in tasks_state[i] /\ p[k].task \in tasks_state[i]
  BY <1>2, <1>7 DEF p
<1>10. tasks_state[i] \in Stages
  BY <1>4 DEF OneStage
<1>11. {p[j].task, p[k].task} = {"confirmShipping", "cancelOrder"}
  BY <1>8, <1>9, <1>10 DEF Stages
<1>12. one.Customer # one.Delivery
  BY <1>4, AccountsAssumption
<1> QED
  BY <1>5, <1>6, <1>7, <1>11, <1>12

\* Whoever is a neighbour shares a contender.
LEMMA NeighboursContend ==
  ASSUME NEW p \in Seq(Interactions), NEW j \in 1..Len(p), NEW k \in Neighbours(p, j)
  PROVE  \E a \in Contending(p) : a \in Involved(p[j])
<1>1. DOMAIN p = 1..Len(p) /\ p[j] \in Interactions
  OBVIOUS
<1>2. k \in 1..Len(p) /\ k # j /\ Involved(p[k]) \cap Involved(p[j]) # {}
  BY <1>1 DEF Neighbours
<1>3. PICK a \in Involved(p[j]) : a \in Involved(p[k])
  BY <1>2
<1>4. a \in Addresses \cup {NoAddress}
  BY <1>1 DEF Involved, Interactions
<1>5. a \in Contending(p)
  BY <1>1, <1>2, <1>3, <1>4 DEF Contending
<1> QED
  BY <1>5

\* What the store's vote is on in a round that nobody else contends for: the interactions
\* that have neighbours; and it is the last vote of the round.
LEMMA StoreVotesNeighbours ==
  ASSUME MergeInv, RoundCourse, Contending(pending_interactions) \subseteq {Store},
         canVote(Store), NEW vote \in Seq(ListIds), Distinct(vote),
         ToSet(vote) = permitted_interactions(Store)
  PROVE  /\ vote_count + 1 = orderers_count
         /\ VotesNeighbours(vote)
         /\ EntitledTo(Store, vote, pending_interactions)
<1> DEFINE p == pending_interactions
<1>1. /\ p \in Seq(Interactions) /\ Len(p) \in Nat /\ DOMAIN p = 1..Len(p)
      /\ Numbered(p) /\ orderers_count = Cardinality(orderers)
  BY DEF MergeInv, WaitInv, TypeOK
<1>2. vote_count = 0 /\ orderers = Contending(p) /\ orderers \subseteq {Store}
  BY DEF RoundCourse
<1>3. Store \in orderers
  BY DEF canVote
<1>4. vote_count + 1 = orderers_count
  <2>1. orderers = {Store}
    BY <1>2, <1>3
  <2>2. Cardinality(orderers) = 1
    BY <2>1, FS_Singleton
  <2> QED
    BY <1>1, <1>2, <2>2
<1>5. DOMAIN vote = 1..Len(vote)
  OBVIOUS
<1>6. ASSUME NEW j \in 1..Len(p)
      PROVE  (\E m \in 1..Len(vote) : vote[m] = p[j].id) <=> Store \in Involved(p[j])
  <2>1. (\E m \in 1..Len(vote) : vote[m] = p[j].id) <=> p[j].id \in ToSet(vote)
    BY <1>5 DEF ToSet
  <2>2. ASSUME p[j].id \in permitted_interactions(Store) PROVE Store \in Involved(p[j])
    <3>1. PICK q \in ToSet(p) : Store \in Involved(q) /\ p[j].id = q.id
      BY <2>2 DEF permitted_interactions
    <3>2. PICK k \in 1..Len(p) : q = p[k]
      BY <1>1, <3>1 DEF ToSet
    <3>3. k = j
      BY <1>1, <3>1, <3>2 DEF Numbered
    <3> QED
      BY <3>1, <3>2, <3>3
  <2>3. ASSUME Store \in Involved(p[j]) PROVE p[j].id \in permitted_interactions(Store)
    <3>1. p[j] \in ToSet(p)
      BY <1>1 DEF ToSet
    <3> QED
      BY <2>3, <3>1 DEF permitted_interactions
  <2> QED
    BY <2>1, <2>2, <2>3
<1>7. ASSUME NEW j \in 1..Len(p), Store \in Involved(p[j]) PROVE Neighbours(p, j) # {}
  <2>1. PICK k \in 1..Len(p), l \in 1..Len(p) :
          k # l /\ Store \in Involved(p[k]) /\ Store \in Involved(p[l])
    BY <1>1, <1>2, <1>3 DEF Contending
  <2>2. PICK m \in 1..Len(p) : m # j /\ Store \in Involved(p[m])
    BY <2>1
  <2>3. m \in Neighbours(p, j)
    BY <1>1, <1>7, <2>2 DEF Neighbours
  <2> QED
    BY <2>3
<1>8. ASSUME NEW j \in 1..Len(p), Neighbours(p, j) # {} PROVE Store \in Involved(p[j])
  <2>1. PICK k \in Neighbours(p, j) : TRUE
    BY <1>8
  <2>2. \E a \in Contending(p) : a \in Involved(p[j])
    BY <1>1, NeighboursContend
  <2> QED
    BY <1>2, <2>2
<1>9. VotesNeighbours(vote)
  BY <1>6, <1>7, <1>8 DEF VotesNeighbours
<1>10. ASSUME NEW m \in 1..Len(vote)
       PROVE  \E j \in 1..Len(p) : p[j].id = vote[m] /\ Store \in Involved(p[j])
  <2>1. vote[m] \in permitted_interactions(Store)
    BY <1>5 DEF ToSet
  <2>2. PICK q \in ToSet(p) : Store \in Involved(q) /\ vote[m] = q.id
    BY <2>1 DEF permitted_interactions
  <2>3. PICK j \in 1..Len(p) : q = p[j]
    BY <1>1, <2>2 DEF ToSet
  <2> QED
    BY <2>2, <2>3
<1> QED
  BY <1>4, <1>9, <1>10 DEF EntitledTo

\* A round that nobody but the store contends for executes all that is pending, whether
\* the store votes or releases it.
LEMMA RoundClears ==
  ASSUME MergeInv, RoundCourse, Contending(pending_interactions) \subseteq {Store}
  PROVE  /\ release => Clears
         /\ \A vote \in Votes : /\ order_interactions(Store, vote)
                                /\ ToSet(vote) = permitted_interactions(Store)
                                /\ Distinct(vote)
                                => Clears
<1> DEFINE p == pending_interactions
<1>1. /\ p \in Seq(Interactions) /\ Len(p) \in Nat /\ DOMAIN p = 1..Len(p)
      /\ orderers \subseteq Addresses \cup {NoAddress}
      /\ orderers_count = Cardinality(orderers) /\ TypeOK
  BY DEF MergeInv, WaitInv, TypeOK
<1>2. /\ list = <<>> /\ domain_count = 0 /\ vote_count = 0 /\ pending_domains = {}
      /\ orderers = Contending(p) /\ orderers \subseteq {Store}
  BY DEF RoundCourse
<1>3. ASSUME release PROVE Clears
  <2>1. orderers_count = 0
    BY <1>3 DEF release, isIsolate
  <2>2. orderers = {}
    <3>1. orderers # {} => orderers = {Store}
      BY <1>2
    <3>2. orderers # {} => Cardinality(orderers) = 1
      BY <3>1, FS_Singleton
    <3> QED
      BY <1>1, <2>1, <3>2
  <2>3. \A j \in 1..Len(p) : Neighbours(p, j) = {}
    BY <1>1, <1>2, <2>2, NeighboursContend
  <2> QED
    BY <1>2, <1>3, <2>3, ReleaseClears
<1>4. ASSUME NEW vote \in Votes, order_interactions(Store, vote),
             ToSet(vote) = permitted_interactions(Store), Distinct(vote)
      PROVE  Clears
  <2>1. canVote(Store) /\ Store \in Addresses
    BY <1>4, ClientAssumption DEF order_interactions
  <2>2. vote \in Seq(ListIds)
    BY <1>1, VotesType
  <2>3. vote_count + 1 = orderers_count /\ VotesNeighbours(vote)
    BY <1>4, <2>1, <2>2, StoreVotesNeighbours
  <2> QED
    BY <1>2, <1>4, <2>1, <2>3, VoteClears
<1> QED
  BY <1>3, <1>4

\* And the contract does not refuse such a vote.
LEMMA StoreVoteAccepted ==
  ASSUME MergeInv, RoundCourse, Contending(pending_interactions) \subseteq {Store},
         canVote(Store), NEW vote \in Seq(ListIds), Distinct(vote),
         ToSet(vote) = permitted_interactions(Store), NEW tx, tx.kind = "vote", tx.vote = vote
  PROVE  Accepts(Store, tx)
<1>1. VotesNeighbours(vote) /\ EntitledTo(Store, vote, pending_interactions)
  BY StoreVotesNeighbours
<1>2. list = <<>> /\ domain_count = 0 /\ pending_domains = {}
  BY DEF RoundCourse
<1> DEFINE t == Vote(GenerateDomains(Storage), Store, vote).s
<1>3. t.ok /\ Execute(t).ok
  BY <1>1, <1>2, VoteRevertsNowhere
<1> HIDE DEF t
<1>4. Accepts(Store, tx) <=> /\ canVote(Store) /\ t.ok
                             /\ vote_count + 1 = orderers_count => Execute(t).ok
  BY DEF Accepts, t
<1> QED
  BY <1>3, <1>4

\* A step that executes nothing announces nothing.
LEMMA NothingRuns ==
  ASSUME executed \in Seq(ListIds), executed' = executed, Executing \in Seq(Executable)
  PROVE  Run(Workflow, Executing).enabled = <<>> /\ Run(Workflow, Executing).executed = <<>>
<1>1. Batch = <<>>
  <2>1. Len(executed) \in Nat
    OBVIOUS
  <2>2. SubSeq(executed, Len(executed) + 1, Len(executed)) = <<>>
    BY <2>1
  <2> QED
    BY <2>2 DEF Batch
<1>2. DOMAIN Executing = {}
  BY <1>1 DEF Executing
<1>3. Len(Executing) = 0
  <2>1. Len(Executing) \in Nat /\ DOMAIN Executing = 1..Len(Executing)
    OBVIOUS
  <2>2. Len(Executing) # 0 => 1 \in 1..Len(Executing)
    BY <2>1
  <2> QED
    BY <1>2, <2>1, <2>2
<1> DEFINE S == [k \in 0..0 |-> {RunStart(Workflow)}]
<1>4. RunStart(Workflow) \in S[0]
  OBVIOUS
<1>5. S[0] = {RunStart(Workflow)}
  OBVIOUS
<1>6. \A i \in 1..0 : \A x \in S[i-1] : RunStep(x, Executing, i) \in S[i]
  OBVIOUS
<1> HIDE DEF S
<1>7. Run(Workflow, Executing) \in S[Len(Executing)]
  BY <1>3, <1>4, <1>6, RunLoop
<1>8. Run(Workflow, Executing) = RunStart(Workflow)
  BY <1>3, <1>5, <1>7
<1> QED
  BY <1>8 DEF RunStart

\* A step that clears the round runs its calls.
LEMMA ClearingRuns ==
  ASSUME SystemInv, OneStage, Clears, Executing \in Seq(Executable),
         \A c \in CallsOf(pending_interactions) : c.task \in tasks_state[c.instance]
  PROVE  \E w : /\ w.tasks_state = tasks_state'
                /\ Run(Workflow, Executing)
                     \in Running(tasks_state, CallsOf(pending_interactions), w)
<1> DEFINE p == pending_interactions
           W == CallsOf(p)
           n == Len(Batch)
<1>1. /\ p \in Seq(Interactions) /\ Len(p) \in Nat /\ DOMAIN p = 1..Len(p)
      /\ tasks_state \in [InstanceIds -> SUBSET Tasks] /\ supplies \in Nat
  BY DEF SystemInv, WaitInv, TypeOK, WorkflowTypeOK
<1>2. tasks_state \in [InstanceIds -> Stages]
  <2>1. tasks_state = [i \in InstanceIds |-> tasks_state[i]]
    BY <1>1
  <2> QED
    BY <2>1 DEF OneStage
<1>3. DOMAIN Batch = 1..n /\ n \in Nat /\ \A k \in 1..n : Batch[k] \in Ids(p)
  BY DEF Clears
<1>4. PICK g : LeadsBy(g)
  BY DEF Clears
<1> DEFINE S == [k \in 0..n |-> Running(tasks_state, W, g[k])]
<1>5. Len(Executing) = n
  <2>1. DOMAIN Executing = 1..n
    BY <1>3 DEF Executing
  <2>2. Len(Executing) \in Nat /\ DOMAIN Executing = 1..Len(Executing)
    OBVIOUS
  <2> HIDE DEF n
  <2> QED
    BY <1>3, <2>1, <2>2
<1>6. ASSUME NEW k \in 1..n
      PROVE  \E c \in W : /\ Executing[k] = TaskTx(c)
                          /\ g[k] = CallTask(g[k-1], c.task, c.instance)
  <2> DEFINE j == IndexOf(p, Batch[k])
             c == CallOf(p[j])
  <2>1. \E i \in DOMAIN p : p[i].id = Batch[k]
    BY <1>3 DEF Ids
  <2>2. j \in 1..Len(p) /\ p[j].id = Batch[k]
    BY <1>1, <2>1 DEF IndexOf
  <2>3. Executing[k] = TaskTx(Call(p[j].task, p[j].instance))
    BY <1>3 DEF Executing
  <2>4. g[k] = CallTask(g[k-1], p[j].task, p[j].instance)
    BY <1>4, <2>2 DEF LeadsBy
  <2> HIDE DEF j
  <2>5. p[j].instance \in InstanceIds /\ p[j].task \in Tasks
    <3>1. p[j] \in Interactions
      BY <1>1, <2>2
    <3> QED
      BY <3>1 DEF Interactions
  <2>6. c = Call(p[j].task, p[j].instance) /\ c.task = p[j].task /\ c.instance = p[j].instance
    BY DEF CallOf, Call
  <2>7. c \in Calls
    BY <2>5, <2>6 DEF Call, Calls
  <2>8. c \in W
    BY <2>2, <2>7 DEF CallsOf
  <2> HIDE DEF c, W
  <2> QED
    BY <2>3, <2>4, <2>6, <2>8
<1>7. RunStart(Workflow) \in S[0]
  <2> DEFINE r == RunStart(Workflow)
  <2>1. S[0] = Running(tasks_state, W, g[0])
    BY <1>3
  <2>2. g[0] = Workflow
    <3>1. g[0] = WorkOf(Storage)
      BY <1>4 DEF LeadsBy
    <3>2. WorkOf(Storage) = Workflow
      BY DEF WorkOf, Storage, Workflow
    <3> QED
      BY <3>1, <3>2
  <2>3. Workflow \in Works /\ Workflow.tasks_state = tasks_state
    BY <1>1 DEF Workflow, Works
  <2>4. r = [w |-> Workflow, enabled |-> <<>>, executed |-> <<>>, failed |-> {}]
    BY DEF RunStart
  <2>5. r \in Runs /\ r.w = Workflow /\ r.enabled = <<>> /\ r.executed = <<>>
    BY <2>3, <2>4 DEF Runs
  <2>6. OneEvent(<<>>) /\ EventsOf(<<>>) = {}
    BY DEF OneEvent, EventsOf
  <2> HIDE DEF r, S
  <2>7. r \in Running(tasks_state, W, Workflow)
    BY <2>3, <2>5, <2>6 DEF Running
  <2> QED
    BY <2>1, <2>2, <2>7 DEF r
<1>8. \A k \in 1..n : k \in 0..n /\ k - 1 \in 0..n
  BY <1>3
<1>9. ASSUME NEW k \in 1..n, NEW r \in S[k-1]
      PROVE  RunStep(r, Executing, k) \in S[k]
  <2>1. r \in Running(tasks_state, W, g[k-1])
    BY <1>8
  <2>2. PICK c \in W : /\ Executing[k] = TaskTx(c)
                       /\ g[k] = CallTask(g[k-1], c.task, c.instance)
    BY <1>6
  <2>3. c.task \in tasks_state[c.instance] /\ W \in SUBSET Calls
    BY DEF CallsOf
  <2>4. S[k] = Running(tasks_state, W, g[k])
    BY <1>8
  <2>5. k \in 1..Len(Executing)
    BY <1>5
  <2> HIDE DEF W, S, n
  <2>6. RunStep(r, Executing, k) \in Running(tasks_state, W, CallTask(g[k-1], c.task, c.instance))
    BY <1>2, <2>1, <2>2, <2>3, <2>5, RunStepRuns
  <2> QED
    BY <2>2, <2>4, <2>6
<1>10. S[n] = Running(tasks_state, W, g[n])
  BY <1>3
<1>11. g[n].tasks_state = tasks_state'
  <2>1. [tasks_state |-> tasks_state', supplies |-> supplies'] = g[n]
    BY <1>4 DEF LeadsBy
  <2> QED
    BY <2>1
<1> HIDE DEF S, n
<1>12. Run(Workflow, Executing) \in S[n]
  BY <1>3, <1>5, <1>7, <1>9, RunLoop
<1> QED
  BY <1>10, <1>11, <1>12

\* What stands behind the calls under way (F), the announced executions (X) and the
\* instances with nothing under way (I): the states of the instances are for them.
Stands(ts, F, X, I) ==
  /\ \A c \in F : c.task \in ts[c.instance]
  /\ \A c \in X : Answers(ts, F, c)
  /\ \A i \in I : ts[i] = {"purchaseOrder"} /\ \A c \in F \cup X : c.instance # i

\* After a run the events stand for the new states.
LEMMA RunStands ==
  ASSUME NEW ts, NEW W, NEW I \in SUBSET InstanceIds, Stands(ts, W, {}, I),
         NEW w, NEW r \in Running(ts, W, w)
  PROVE  Stands(w.tasks_state, EventsOf(r.enabled), EventsOf(r.executed), I)
<1>1. /\ \A c \in EventsOf(r.enabled) : c.task \in w.tasks_state[c.instance]
      /\ \A c \in EventsOf(r.executed) : Answers(w.tasks_state, EventsOf(r.enabled), c)
      /\ \A i \in InstanceIds :
           \/ /\ w.tasks_state[i] = ts[i]
              /\ \A c \in EventsOf(r.enabled) \cup EventsOf(r.executed) : c.instance # i
           \/ w.tasks_state[i] \cap ts[i] = {} /\ \E c \in W : c.instance = i
  BY DEF Running
<1>2. \A i \in I : i \in InstanceIds /\ ts[i] = {"purchaseOrder"} /\ \A c \in W : c.instance # i
  BY DEF Stands
<1>3. ASSUME NEW i \in I
      PROVE  /\ w.tasks_state[i] = {"purchaseOrder"}
             /\ \A c \in EventsOf(r.enabled) \cup EventsOf(r.executed) : c.instance # i
  BY <1>1, <1>2
<1> QED
  BY <1>1, <1>3 DEF Stands

\* An execution is heard of: after the delivery details both sides of the choice are
\* called, after the last task the instance has nothing under way.
LEMMA HeardStands ==
  ASSUME NEW ts, NEW F \in SUBSET Calls, NEW X \in SUBSET Calls, NEW I \in SUBSET InstanceIds,
         Stands(ts, F, X, I),
         NEW e \in X, \A d \in X : d.instance = e.instance => d = e
  PROVE  LET choice == {Call("confirmShipping", e.instance), Call("cancelOrder", e.instance)}
             J == I \cup (IF e.task \in Ends THEN {e.instance} ELSE {})
         IN  /\ e.task # "deliveryDetails" => Stands(ts, F, X \ {e}, J)
             /\ e.task = "deliveryDetails" => /\ Stands(ts, F \cup choice, X \ {e}, J)
                                              /\ choice \cap F = {}
<1> DEFINE choice == {Call("confirmShipping", e.instance), Call("cancelOrder", e.instance)}
           J == I \cup (IF e.task \in Ends THEN {e.instance} ELSE {})
           Y == X \ {e}
<1>1. /\ \A c \in F : c.task \in ts[c.instance]
      /\ \A c \in X : Answers(ts, F, c)
      /\ \A i \in I : ts[i] = {"purchaseOrder"} /\ \A c \in F \cup X : c.instance # i
  BY DEF Stands
<1>2. Answers(ts, F, e) /\ \A d \in Y : d.instance # e.instance
  BY <1>1
<1>3. \A c \in choice : c.instance = e.instance /\ c.task \in {"confirmShipping", "cancelOrder"}
  BY DEF Call
<1>4. ASSUME NEW i \in J, e.task # "deliveryDetails"
      PROVE  ts[i] = {"purchaseOrder"} /\ \A c \in F \cup Y : c.instance # i
  <2>1. CASE i \in I
    BY <1>1, <2>1
  <2>2. CASE e.task \in Ends /\ i = e.instance
    BY <1>2, <2>2 DEF Answers
  <2> QED
    BY <2>1, <2>2
<1>5. e.task # "deliveryDetails" => Stands(ts, F, Y, J)
  <2> HIDE DEF J
  <2> QED
    BY <1>1, <1>4 DEF Stands
<1>6. ASSUME e.task = "deliveryDetails"
      PROVE  Stands(ts, F \cup choice, Y, J) /\ choice \cap F = {}
  <2>1. /\ ts[e.instance] = {"confirmShipping", "cancelOrder"}
        /\ \A d \in F : d.instance # e.instance
    BY <1>2, <1>6 DEF Answers
  <2>2. J = I
    BY <1>6 DEF Ends
  <2> HIDE DEF J, choice
  <2>3. \A c \in F \cup choice : c.task \in ts[c.instance]
    BY <1>1, <1>3, <2>1
  <2>4. ASSUME NEW d \in Y PROVE Answers(ts, F \cup choice, d)
    <3>1. Answers(ts, F, d) /\ \A c \in choice : c.instance # d.instance
      BY <1>1, <1>2, <1>3
    <3> QED
      BY <3>1 DEF Answers
  <2>5. ASSUME NEW i \in I
        PROVE  ts[i] = {"purchaseOrder"} /\ \A c \in (F \cup choice) \cup Y : c.instance # i
    BY <1>1, <1>3
  <2>6. choice \cap F = {}
    BY <1>3, <2>1
  <2> QED
    BY <2>2, <2>3, <2>4, <2>5, <2>6 DEF Stands
<1> QED
  BY <1>5, <1>6

\* The calls under way: sent, submitted, or announced and about to be sent.
InFlight ==
  Outgoing(outbox) \cup CallsOf(pending_interactions) \cup EventsOf(enabledEvents)

\* The instances with nothing under way.
Idle == {i \in InstanceIds : complete[i] \/ phase # "running"}

\* Three sets of calls of which no two meet.
Apart(O, P, E) == O \cap P = {} /\ O \cap E = {} /\ P \cap E = {}

\* Once a round is a block old, all that was on its way has arrived.
Drained ==
  index_block # 0 /\ block > index_block =>
    enabledEvents = <<>> /\ executedEvents = <<>> /\ Outgoing(outbox) = {}

\* The course of the script while nothing is late.
Course ==
  /\ RoundCourse
  /\ \A i \in InstanceIds : failed[i] = 0
  /\ phase # "running" => \A i \in InstanceIds : ~complete[i]
  /\ OneEvent(enabledEvents) /\ OneEvent(executedEvents)
  /\ SentOnce(outbox)
  /\ Apart(Outgoing(outbox), CallsOf(pending_interactions), EventsOf(enabledEvents))
  /\ Stands(tasks_state, InFlight, EventsOf(executedEvents), Idle)
  /\ Drained

\* The course is kept until something is late.
CourseInv == late = 0 => Course

\* No vote under way names an interaction twice.
DistinctVotes ==
  \A k \in 1..Len(outbox[Store]) :
    outbox[Store][k].kind = "vote" => Distinct(outbox[Store][k].vote)

\* What the round's part of the course is about does not change.
LEMMA RoundStays ==
  ASSUME RoundCourse,
         UNCHANGED <<participants, list, domain_count, vote_count, pending_domains,
                     index_block, pending_interactions, orderers>>
  PROVE  RoundCourse'
BY DEF RoundCourse

\* Only the outboxes change, and not in the calls that they hold.
LEMMA SameCalls ==
  ASSUME Course, UNCHANGED <<vars, failed, enabledEvents, executedEvents, phase, complete>>,
         SentOnce(outbox'), Outgoing(outbox') = Outgoing(outbox)
  PROVE  Course'
<1>1. RoundCourse'
  BY RoundStays DEF Course, vars, contractVars, workflowVars
<1>2. InFlight' = InFlight /\ Idle' = Idle
  BY DEF InFlight, Idle, vars, contractVars
<1>3. Drained'
  BY DEF Course, Drained, vars, contractVars
<1> QED
  BY <1>1, <1>2, <1>3 DEF Course, vars, contractVars, workflowVars

\* The outboxes as the script keeps them.
LEMMA Held ==
  ASSUME SystemInv, Course
  PROVE  outbox \in Holding(Outgoing(outbox))
BY DEF SystemInv, ScriptInv, Course, Holding

\* A new block finds everything settled.
LEMMA TickCourse ==
  ASSUME SystemInv, Course, Tick, late = 0, late' = 0
  PROVE  Course'
<1>1. Quiet
  <2>1. late + 1 # 0
    BY DEF Tick
  <2> QED
    BY <2>1 DEF Tick
<1>2. UNCHANGED <<contractVars, workflowVars, clientVars, failed>>
  BY DEF Tick, NextBlock
<1>3. RoundCourse'
  BY <1>2, RoundStays DEF Course, contractVars, workflowVars
<1>4. InFlight' = InFlight /\ Idle' = Idle
  BY <1>2 DEF InFlight, Idle, clientVars, contractVars
<1>5. Outgoing(outbox) = {}
  <2>1. \A a \in Addresses : \A k \in 1..Len(outbox[a]) : FALSE
    BY <1>1 DEF Quiet
  <2> QED
    BY <2>1 DEF Outgoing
<1>6. Drained'
  BY <1>1, <1>2, <1>5 DEF Drained, Quiet, clientVars
<1> QED
  BY <1>2, <1>3, <1>4, <1>6 DEF Course, clientVars, contractVars, workflowVars

\* What checkVote sends is no call.
LEMMA CheckVoteCourse ==
  ASSUME SystemInv, Course, CheckVote
  PROVE  Course'
<1>1. UNCHANGED <<vars, failed, enabledEvents, executedEvents, phase, complete>>
  BY DEF CheckVote, AskCanVote, AskPermitted, SendVote, AskIsolate, Rearm, clientVars
<1>2. \/ outbox' = outbox
      \/ \E tx \in Fitting : /\ Request(tx)
                             /\ outbox' = [outbox EXCEPT ![Store] = Append(outbox[Store], tx)]
  <2>1. CASE AskCanVote \/ AskPermitted \/ Rearm
    BY <2>1 DEF AskCanVote, AskPermitted, Rearm, clientVars
  <2>2. CASE SendVote
    <3>1. PICK vote \in SetToSeqs(permitted) :
            outbox' = [outbox EXCEPT ![Store] = Append(outbox[Store], VoteTx(vote))]
      BY <2>2 DEF SendVote
    <3>2. VoteTx(vote) \in Fitting
      BY VoteFits
    <3>3. Request(VoteTx(vote))
      BY DEF Request, VoteTx
    <3> QED
      BY <3>1, <3>2, <3>3
  <2>3. CASE AskIsolate
    <3>1. ReleaseTx \in Fitting /\ Request(ReleaseTx)
      BY DEF Fitting, Request, ReleaseTx
    <3> QED
      BY <2>3, <3>1 DEF AskIsolate
  <2> QED
    BY <2>1, <2>2, <2>3 DEF CheckVote
<1>3. CASE outbox' = outbox
  BY <1>1, <1>3, SameCalls DEF Course
<1>4. ASSUME NEW tx \in Fitting, Request(tx),
             outbox' = [outbox EXCEPT ![Store] = Append(outbox[Store], tx)]
      PROVE  Course'
  <2>1. \A c \in Calls : tx # TaskTx(c)
    BY <1>4, TaskTxOf
  <2>2. outbox \in Holding(Outgoing(outbox)) /\ Store \in Addresses
    BY Held, ClientAssumption
  <2>3. outbox' \in Holding(Outgoing(outbox))
    BY <1>4, <2>1, <2>2, AppendOther
  <2> QED
    BY <1>1, <2>3, SameCalls DEF Holding
<1> QED
  BY <1>2, <1>3, <1>4

\* The supplies are reset when nothing is under way.
LEMMA FinishRoundCourse ==
  ASSUME SystemInv, Course, FinishRound, UNCHANGED <<vars, failed>>
  PROVE  Course'
<1>1. \A i \in InstanceIds : complete[i] /\ i \in Idle
  BY DEF FinishRound, Idle
<1>2. complete' = [i \in InstanceIds |-> FALSE] /\ phase' = "resetting"
      /\ UNCHANGED <<enabledEvents, executedEvents>>
  BY DEF FinishRound
<1>3. outbox' \in Holding(Outgoing(outbox))
  <2>1. \A c \in Calls : SuppliesTx # TaskTx(c)
    BY TaskTxOf
  <2>2. outbox \in Holding(Outgoing(outbox)) /\ Store \in Addresses
    BY Held, ClientAssumption
  <2>3. SuppliesTx \in Fitting
    BY DEF Fitting
  <2>4. outbox' = [outbox EXCEPT ![Store] = Append(outbox[Store], SuppliesTx)]
    BY DEF FinishRound
  <2> QED
    BY <2>1, <2>2, <2>3, <2>4, AppendOther
<1>4. SentOnce(outbox') /\ Outgoing(outbox') = Outgoing(outbox)
  BY <1>3 DEF Holding
<1>5. RoundCourse'
  BY RoundStays DEF Course, vars, contractVars, workflowVars
<1>6. InFlight' = InFlight /\ Idle' = Idle
  <2>1. InFlight' = InFlight
    BY <1>2, <1>4 DEF InFlight, vars, contractVars
  <2>2. Idle = InstanceIds
    BY <1>1 DEF Idle
  <2>3. Idle' = InstanceIds
    BY <1>2 DEF Idle
  <2> QED
    BY <2>1, <2>2, <2>3
<1>7. Drained'
  BY <1>2, <1>4 DEF Course, Drained, vars, contractVars
<1> QED
  BY <1>2, <1>4, <1>5, <1>6, <1>7 DEF Course, vars, contractVars, workflowVars

\* The next round is about to start.
LEMMA NextRoundCourse ==
  ASSUME SystemInv, Course, NextRound, UNCHANGED <<vars, failed>>
  PROVE  Course'
<1>1. phase = "resetting" /\ phase' = "start"
      /\ UNCHANGED <<complete, enabledEvents, executedEvents, outbox>>
  BY DEF NextRound
<1>2. RoundCourse'
  BY RoundStays DEF Course, vars, contractVars, workflowVars
<1>3. InFlight' = InFlight /\ Idle' = Idle
  BY <1>1 DEF InFlight, Idle, vars, contractVars
<1>4. Drained'
  BY <1>1 DEF Course, Drained, vars, contractVars
<1> QED
  BY <1>1, <1>2, <1>3, <1>4 DEF Course, vars, contractVars, workflowVars

\* Every instance is started.
LEMMA StartRoundCourse ==
  ASSUME SystemInv, Course, StartRound, UNCHANGED <<vars, failed>>
  PROVE  Course'
<1> DEFINE calls == [i \in InstanceIds |-> Call("purchaseOrder", i)]
           C == {calls[i] : i \in 1..Len(calls)}
<1>1. /\ phase = "start" /\ phase' = "running"
      /\ outbox' = Sent(outbox, calls)
      /\ UNCHANGED <<complete, enabledEvents, executedEvents>>
  BY DEF StartRound
<1>2. calls \in Seq(Calls) /\ Len(calls) = MaxInstances
  <2>1. calls \in [1..MaxInstances -> Calls]
    BY DEF InstanceIds, Call, Calls, Tasks
  <2>2. MaxInstances \in Nat
    BY WorkflowAssumption
  <2> HIDE DEF calls
  <2>3. calls \in Seq(Calls)
    BY <2>1, <2>2, FunctionIsSeq
  <2> QED
    BY <2>1, <2>2, <2>3
<1>3. \A i \in 1..Len(calls) : /\ i \in InstanceIds
                               /\ calls[i].task = "purchaseOrder" /\ calls[i].instance = i
  BY <1>2 DEF InstanceIds, Call
<1>4. /\ Idle = InstanceIds
      /\ \A i \in InstanceIds : /\ tasks_state[i] = {"purchaseOrder"}
                                /\ ~complete[i]
                                /\ \A c \in InFlight \cup EventsOf(executedEvents) :
                                     c.instance # i
  BY <1>1 DEF Course, Stands, Idle
<1>5. InFlight \cup EventsOf(executedEvents) = {}
  <2>1. \A c \in Calls : c.instance \in InstanceIds
    BY DEF Calls
  <2>2. InFlight \cup EventsOf(executedEvents) \subseteq Calls
    BY DEF InFlight, Outgoing, CallsOf, EventsOf
  <2> QED
    BY <1>4, <2>1, <2>2
<1>6. outbox' \in Holding(C)
  <2>1. outbox \in Holding({})
    BY <1>5, Held DEF InFlight
  <2>2. \A i, j \in 1..Len(calls) : calls[i] = calls[j] => i = j
    BY <1>3
  <2> HIDE DEF calls
  <2>3. Sent(outbox, calls) \in Holding({} \cup C)
    BY <1>2, <2>1, <2>2, SentHolds
  <2>4. {} \cup C = C
    OBVIOUS
  <2> QED
    BY <1>1, <2>3, <2>4
<1>7. SentOnce(outbox') /\ Outgoing(outbox') = C
  BY <1>6 DEF Holding
<1>8. \A c \in C : c.task = "purchaseOrder" /\ c.instance \in InstanceIds
  <2> HIDE DEF calls
  <2> QED
    BY <1>3
<1> HIDE DEF calls, C
<1>9. RoundCourse'
  BY RoundStays DEF Course, vars, contractVars, workflowVars
<1>10. pending_interactions' = pending_interactions /\ tasks_state' = tasks_state
  BY DEF vars, contractVars, workflowVars
<1>11. InFlight' = C /\ Idle' = {}
  <2>1. InFlight' = C
    BY <1>1, <1>5, <1>7, <1>10 DEF InFlight
  <2>2. Idle' = {}
    BY <1>1, <1>4 DEF Idle
  <2> QED
    BY <2>1, <2>2
<1>12. Stands(tasks_state, C, {}, {})
  BY <1>4, <1>8 DEF Stands
<1>13. Drained'
  <2>1. pending_interactions = <<>>
    <3>1. pending_interactions \in Seq(Interactions)
      BY DEF SystemInv, WaitInv, TypeOK
    <3>2. Len(pending_interactions) \in Nat
      BY <3>1
    <3>3. ASSUME 1 \in 1..Len(pending_interactions) PROVE FALSE
      <4>1. pending_interactions[1] \in Interactions
        BY <3>1, <3>3
      <4>2. CallOf(pending_interactions[1]) \in Calls
        BY <4>1 DEF CallOf, Call, Calls, Interactions
      <4>3. CallOf(pending_interactions[1]) \in CallsOf(pending_interactions)
        BY <3>3, <4>2 DEF CallsOf
      <4> QED
        BY <1>5, <4>3 DEF InFlight
    <3> QED
      BY <3>1, <3>2, <3>3
  <2>2. index_block = 0
    BY <2>1 DEF Course, RoundCourse
  <2> QED
    BY <2>2 DEF Drained, vars, contractVars
<1>14. Apart(C, CallsOf(pending_interactions), EventsOf(enabledEvents))
  BY <1>5 DEF Apart, InFlight
<1>15. EventsOf(executedEvents) = {}
  BY <1>5
<1>16. failed' = failed
  OBVIOUS
<1> QED
  BY <1>1, <1>7, <1>9, <1>10, <1>11, <1>12, <1>13, <1>14, <1>15, <1>16 DEF Course

\* A task that has become enabled is called.
LEMMA HandleEnabledCourse ==
  ASSUME SystemInv, Course, HandleEnabled, UNCHANGED <<vars, failed>>
  PROVE  Course'
<1> DEFINE h == Head(enabledEvents)
           O == Outgoing(outbox)
           P == CallsOf(pending_interactions)
           E == EventsOf(enabledEvents)
<1>1. /\ enabledEvents # <<>> /\ enabledEvents' = Tail(enabledEvents)
      /\ outbox' = Sent(outbox, <<h>>)
      /\ UNCHANGED <<phase, complete, executedEvents>>
  BY DEF HandleEnabled
<1>2. enabledEvents \in Seq(Calls) /\ OneEvent(enabledEvents)
  BY DEF SystemInv, ScriptInv, Course
<1>3. h \in E /\ OneEvent(enabledEvents') /\ EventsOf(enabledEvents') = E \ {h}
  BY <1>1, <1>2, EventTaken
<1>4. h \in Calls /\ h \notin O /\ h \notin P
  BY <1>3 DEF EventsOf, Course, Apart
<1>5. SentOnce(outbox') /\ Outgoing(outbox') = O \cup {h}
  <2> DEFINE calls == <<h>>
             C == {calls[i] : i \in 1..Len(calls)}
  <2>1. outbox \in Holding(O)
    BY Held
  <2>2. calls \in Seq(Calls) /\ Len(calls) = 1 /\ calls[1] = h
    BY <1>4
  <2>3. \A i \in 1..Len(calls) : i = 1
    BY <2>2
  <2>4. C = {h}
    <3> HIDE DEF calls, h
    <3>1. 1 \in 1..Len(calls)
      BY <2>2
    <3> QED
      BY <2>2, <2>3, <3>1
  <2>5. \A i \in 1..Len(calls) : calls[i] \notin O
    <3> HIDE DEF calls, h, O
    <3> QED
      BY <1>4, <2>2, <2>3
  <2> HIDE DEF calls, O
  <2>6. Sent(outbox, calls) \in Holding(O \cup C)
    BY <2>1, <2>2, <2>3, <2>5, SentHolds
  <2> HIDE DEF C
  <2>7. outbox' \in Holding(O \cup {h})
    BY <1>1, <2>4, <2>6 DEF calls
  <2> QED
    BY <2>7 DEF Holding
<1>6. pending_interactions' = pending_interactions /\ tasks_state' = tasks_state
  BY DEF vars, contractVars, workflowVars
<1> HIDE DEF h
<1>7. InFlight' = InFlight /\ Idle' = Idle
  <2>1. InFlight' = (O \cup {h}) \cup P \cup (E \ {h})
    BY <1>3, <1>5, <1>6 DEF InFlight
  <2>2. InFlight' = InFlight
    BY <1>3, <2>1 DEF InFlight
  <2>3. Idle' = Idle
    BY <1>1 DEF Idle
  <2> QED
    BY <2>2, <2>3
<1>8. Apart(Outgoing(outbox'), CallsOf(pending_interactions'), EventsOf(enabledEvents'))
  <2>1. Apart(O, P, E)
    BY DEF Course
  <2> HIDE DEF O, P, E
  <2>2. Apart(O \cup {h}, P, E \ {h})
    BY <1>4, <2>1 DEF Apart, P, O
  <2> QED
    BY <1>3, <1>5, <1>6, <2>2 DEF P
<1>9. Drained'
  <2>1. ~(index_block # 0 /\ block > index_block)
    BY <1>1 DEF Course, Drained
  <2> QED
    BY <2>1 DEF Drained, vars, contractVars
<1>10. RoundCourse'
  BY RoundStays DEF Course, vars, contractVars, workflowVars
<1>11. failed' = failed
  OBVIOUS
<1> HIDE DEF O, P, E
<1> QED
  BY <1>1, <1>3, <1>5, <1>6, <1>7, <1>8, <1>9, <1>10, <1>11 DEF Course

\* An execution is heard of.
LEMMA HandleExecutedCourse ==
  ASSUME SystemInv, Course, HandleExecuted, UNCHANGED <<vars, failed>>
  PROVE  Course'
<1> DEFINE e == Head(executedEvents)
           O == Outgoing(outbox)
           P == CallsOf(pending_interactions)
           E == EventsOf(enabledEvents)
           X == EventsOf(executedEvents)
           confirm == Call("confirmShipping", e.instance)
           cancel == Call("cancelOrder", e.instance)
           choice == {confirm, cancel}
           J == Idle \cup (IF e.task \in Ends THEN {e.instance} ELSE {})
<1>1. /\ executedEvents # <<>> /\ executedEvents' = Tail(executedEvents)
      /\ outbox' = IF e.task = "deliveryDetails"
                   THEN Sent(outbox, <<confirm, cancel>>) ELSE outbox
      /\ complete' = [complete EXCEPT ![e.instance] = @ \/ e.task \in Ends]
      /\ UNCHANGED <<phase, enabledEvents>>
  BY DEF HandleExecuted
<1>2. executedEvents \in Seq(Calls) /\ OneEvent(executedEvents)
      /\ complete \in [InstanceIds -> BOOLEAN]
  BY DEF SystemInv, ScriptInv, Course
<1>3. /\ e \in X /\ OneEvent(executedEvents') /\ EventsOf(executedEvents') = X \ {e}
      /\ \A d \in X : d.instance = e.instance => d = e
  BY <1>1, <1>2, EventTaken
<1>4. e \in Calls /\ e.instance \in InstanceIds
  BY <1>3 DEF EventsOf, Calls
<1>5. /\ confirm \in Calls /\ cancel \in Calls /\ confirm # cancel
      /\ confirm.instance = e.instance /\ cancel.instance = e.instance
  BY <1>4 DEF Call, Calls, Tasks
<1>6. /\ e.task # "deliveryDetails" => Stands(tasks_state, InFlight, X \ {e}, J)
      /\ e.task = "deliveryDetails" => /\ Stands(tasks_state, InFlight \cup choice, X \ {e}, J)
                                       /\ choice \cap InFlight = {}
  <2>1. InFlight \in SUBSET Calls
    BY DEF InFlight, Outgoing, CallsOf, EventsOf
  <2>2. X \in SUBSET Calls
    BY DEF EventsOf
  <2>3. Idle \in SUBSET InstanceIds
    BY DEF Idle
  <2>4. Stands(tasks_state, InFlight, X, Idle)
    BY DEF Course
  <2> HIDE DEF e, X
  <2> QED
    BY <1>3, <2>1, <2>2, <2>3, <2>4, HeardStands
<1>7. phase = "running" /\ e.instance \notin Idle
  <2>1. e.instance \notin Idle
    BY <1>3, <1>4 DEF Course, Stands
  <2> QED
    BY <1>4, <2>1 DEF Idle
<1> HIDE DEF e
<1>8. Idle' = J
  <2>1. \A i \in InstanceIds : complete'[i] = (complete[i] \/ (i = e.instance /\ e.task \in Ends))
    BY <1>1, <1>2, <1>4
  <2>2. \A i \in InstanceIds : i \in Idle' <=> complete'[i]
    BY <1>1, <1>7 DEF Idle
  <2>3. \A i \in InstanceIds : i \in Idle <=> complete[i]
    BY <1>7 DEF Idle
  <2>4. Idle' \subseteq InstanceIds /\ J \subseteq InstanceIds
    BY <1>4 DEF Idle
  <2> HIDE DEF choice
  <2>5. ASSUME NEW i \in InstanceIds PROVE i \in Idle' <=> i \in J
    BY <2>1, <2>2, <2>3
  <2> QED
    BY <2>4, <2>5
<1>9. pending_interactions' = pending_interactions /\ tasks_state' = tasks_state
      /\ enabledEvents' = enabledEvents
  BY <1>1 DEF vars, contractVars, workflowVars
<1>10. Drained'
  <2>1. ~(index_block # 0 /\ block > index_block)
    BY <1>1 DEF Course, Drained
  <2> QED
    BY <2>1 DEF Drained, vars, contractVars
<1>11. RoundCourse'
  BY RoundStays DEF Course, vars, contractVars, workflowVars
<1>12. failed' = failed /\ phase' = "running"
  BY <1>1, <1>7
<1>13. Apart(O, P, E) /\ SentOnce(outbox) /\ OneEvent(enabledEvents)
       /\ \A i \in InstanceIds : failed[i] = 0
  BY DEF Course
<1>14. InFlight = O \cup P \cup E
  BY DEF InFlight
<1>15. CASE e.task # "deliveryDetails"
  <2>1. outbox' = outbox /\ InFlight' = InFlight
    BY <1>1, <1>9, <1>15 DEF InFlight
  <2>2. Stands(tasks_state', InFlight', EventsOf(executedEvents'), Idle')
    BY <1>3, <1>6, <1>8, <1>9, <1>15, <2>1
  <2> QED
    BY <1>3, <1>9, <1>10, <1>11, <1>12, <1>13, <2>1, <2>2 DEF Course
<1>16. CASE e.task = "deliveryDetails"
  <2>1. SentOnce(outbox') /\ Outgoing(outbox') = O \cup choice
    <3> DEFINE calls == <<confirm, cancel>>
               C == {calls[i] : i \in 1..Len(calls)}
    <3>1. outbox \in Holding(O)
      BY Held
    <3> HIDE DEF confirm, cancel, O
    <3>2. calls \in Seq(Calls) /\ Len(calls) = 2 /\ calls[1] = confirm /\ calls[2] = cancel
      BY <1>5
    <3>3. 1 \in 1..Len(calls) /\ 2 \in 1..Len(calls)
          /\ \A i \in 1..Len(calls) : i = 1 \/ i = 2
      BY <3>2
    <3> HIDE DEF calls
    <3>4. C = choice
      BY <3>2, <3>3
    <3>5. \A i \in 1..Len(calls) : calls[i] \notin O
      BY <1>6, <1>14, <1>16, <3>2, <3>3
    <3>6. \A i, j \in 1..Len(calls) : calls[i] = calls[j] => i = j
      BY <1>5, <3>2, <3>3
    <3>7. Sent(outbox, calls) \in Holding(O \cup C)
      BY <3>1, <3>2, <3>5, <3>6, SentHolds
    <3> HIDE DEF C, choice
    <3>8. outbox' \in Holding(O \cup choice)
      BY <1>1, <1>16, <3>4, <3>7 DEF calls
    <3> QED
      BY <3>8 DEF Holding
  <2> HIDE DEF choice, O, P, E, X, J
  <2>2. InFlight' = InFlight \cup choice
    BY <1>9, <1>14, <2>1 DEF InFlight, P, E
  <2>3. Stands(tasks_state', InFlight', EventsOf(executedEvents'), Idle')
    BY <1>3, <1>6, <1>8, <1>9, <1>16, <2>2
  <2>4. Apart(Outgoing(outbox'), CallsOf(pending_interactions'), EventsOf(enabledEvents'))
    <3>1. Apart(O \cup choice, P, E)
      BY <1>6, <1>13, <1>14, <1>16 DEF Apart
    <3> QED
      BY <1>9, <2>1, <3>1 DEF P, E
  <2> QED
    BY <1>3, <1>9, <1>10, <1>11, <1>12, <1>13, <2>1, <2>3, <2>4 DEF Course
<1> QED
  BY <1>15, <1>16

\* The round's part of the course after a submission in time.
LEMMA SubmitCourse ==
  ASSUME TypeOK, RoundCourse, NEW a \in Addresses, NEW c \in Calls,
         c \notin CallsOf(pending_interactions), a = Sender[c.instance][c.task],
         submit_interaction(a, c.instance, c.task)
  PROVE  /\ RoundCourse'
         /\ CallsOf(pending_interactions') = CallsOf(pending_interactions) \cup {c}
<1> DEFINE p == pending_interactions
           n == Len(p)
           q == pending_interactions'
           new == [instance |-> c.instance, sender |-> a,
                   receiver |-> Receiver(c.instance, c.task), task |-> c.task,
                   id |-> pending_interactions_count, block_number |-> block,
                   domain |-> Unlabelled]
           opened == IF index_block = 0 THEN block ELSE index_block
<1>1. /\ q = Append(p, new) /\ index_block' = opened
      /\ orderers' = orderers \cup Contending(q)
      /\ UNCHANGED <<vote_count, domain_count, pending_domains, list, participants>>
  BY DEF submit_interaction, workflowVars
<1>2. p \in Seq(Interactions) /\ n \in Nat /\ DOMAIN p = 1..n
      /\ block \in Nat \ {0} /\ index_block \in Nat
  BY DEF TypeOK
<1>3. c.instance \in InstanceIds /\ c.task \in Tasks
      /\ c = [task |-> c.task, instance |-> c.instance]
  BY DEF Calls
<1>4. ByRole(new) /\ CallOf(new) = c
  <2>1. new.sender = a /\ new.receiver = Receiver(c.instance, c.task)
        /\ new.task = c.task /\ new.instance = c.instance
    OBVIOUS
  <2>2. a = Parties[c.instance][rolesToTask[c.task][1]]
    BY <1>3, AccountsAssumption
  <2>3. Receiver(c.instance, c.task) = Parties[c.instance][rolesToTask[c.task][2]]
    BY DEF Receiver, RoundCourse
  <2> HIDE DEF new
  <2> QED
    BY <1>3, <2>1, <2>2, <2>3 DEF ByRole, CallOf, Call
<1> HIDE DEF new, opened
<1>5. /\ DOMAIN q = 1..(n+1) /\ Len(q) = n + 1 /\ q[n+1] = new
      /\ \A j \in 1..n : q[j] = p[j]
  BY <1>1, <1>2
<1> HIDE DEF q
<1>6. /\ \A j \in 1..(n+1) : j \in 1..n \/ j = n + 1
      /\ \A j \in 1..n : j \in 1..(n+1)
      /\ n + 1 \in 1..(n+1)
  BY <1>2
<1>7. Contending(p) \subseteq Contending(q)
  BY <1>2, <1>5, <1>6 DEF Contending
<1>8. orderers' = Contending(q)
  BY <1>1, <1>7 DEF RoundCourse
<1>9. \A j \in 1..n : CallOf(p[j]) # c
  BY DEF CallsOf
<1>10. \A j \in 1..Len(q) : ByRole(q[j])
  BY <1>4, <1>5, <1>6 DEF RoundCourse
<1>11. \A j, k \in 1..Len(q) : CallOf(q[j]) = CallOf(q[k]) => j = k
  <2> SUFFICES ASSUME NEW j \in 1..Len(q), NEW k \in 1..Len(q), CallOf(q[j]) = CallOf(q[k])
               PROVE  j = k
    OBVIOUS
  <2>1. CASE j \in 1..n /\ k \in 1..n
    BY <1>5, <2>1 DEF RoundCourse
  <2>2. CASE j \in 1..n /\ k = n + 1
    BY <1>4, <1>5, <1>9, <2>2
  <2>3. CASE k \in 1..n /\ j = n + 1
    BY <1>4, <1>5, <1>9, <2>3
  <2> QED
    BY <1>5, <1>6, <2>1, <2>2, <2>3
<1>12. CallsOf(q) = CallsOf(p) \cup {c}
  <2>1. ASSUME NEW d \in CallsOf(q) PROVE d \in CallsOf(p) \cup {c}
    <3>1. d \in Calls
      BY DEF CallsOf
    <3>2. PICK j \in 1..Len(q) : CallOf(q[j]) = d
      BY DEF CallsOf
    <3>3. CASE j \in 1..n
      BY <1>5, <3>1, <3>2, <3>3 DEF CallsOf
    <3>4. CASE j = n + 1
      BY <1>4, <1>5, <3>2, <3>4
    <3> QED
      BY <1>5, <1>6, <3>3, <3>4
  <2>2. ASSUME NEW d \in CallsOf(p) PROVE d \in CallsOf(q)
    <3>1. d \in Calls
      BY DEF CallsOf
    <3>2. PICK j \in 1..n : CallOf(p[j]) = d
      BY DEF CallsOf
    <3>3. j \in 1..Len(q) /\ CallOf(q[j]) = d
      BY <1>5, <1>6, <3>2
    <3> QED
      BY <3>1, <3>3 DEF CallsOf
  <2>3. c \in CallsOf(q)
    BY <1>4, <1>5, <1>6 DEF CallsOf
  <2> QED
    BY <2>1, <2>2, <2>3
<1>13. index_block' # 0
  BY <1>1, <1>2 DEF opened
<1>14. q # <<>>
  <2>1. Len(q) # 0
    BY <1>2, <1>5
  <2> QED
    BY <2>1
<1>15. pending_interactions' = q
  BY DEF q
<1> HIDE DEF p, n
<1>16. RoundCourse'
  BY <1>1, <1>8, <1>10, <1>11, <1>13, <1>14, <1>15 DEF RoundCourse
<1> QED
  BY <1>12, <1>16 DEF p, q

\* Every call is mined in time.
LEMMA MineTaskCourse ==
  ASSUME SystemInv, Course, NEW a \in Addresses, Mine(a),
         NEW c \in Calls, Head(outbox[a]) = TaskTx(c)
  PROVE  Course'
<1> DEFINE O == Outgoing(outbox)
           P == CallsOf(pending_interactions)
           E == EventsOf(enabledEvents)
           opened == IF index_block = 0 THEN block ELSE index_block
<1>1. /\ outbox[a] # <<>>
      /\ outbox' = [outbox EXCEPT ![a] = Tail(outbox[a])]
      /\ UNCHANGED <<phase, complete>>
  BY DEF Mine
<1>2. /\ outbox' \in Holding(O \ {c})
      /\ c \in O /\ a = Sender[c.instance][c.task]
  <2>1. outbox \in Holding(O)
    BY Held
  <2> HIDE DEF O
  <2>2. c \in O /\ a = Sender[c.instance][c.task]
    BY <1>1, <2>1, HeadCall
  <2>3. outbox' \in Holding(O \ {c})
    BY <1>1, <2>1, TailCall
  <2> QED
    BY <2>2, <2>3
<1>3. SentOnce(outbox') /\ Outgoing(outbox') = O \ {c}
  BY <1>2 DEF Holding
<1>4. /\ c.task \in tasks_state[c.instance]
      /\ c \notin P /\ c \notin E
  BY <1>2 DEF Course, Stands, InFlight, Apart
<1>5. ~(index_block # 0 /\ block > index_block)
  BY <1>2 DEF Course, Drained
<1>6. block \in Nat \ {0} /\ index_block \in 0..block /\ index_block \in Nat
  BY DEF SystemInv, WaitInv, TypeOK
<1>7. block <= opened /\ WindowOpen(opened)
  BY <1>5, <1>6 DEF WindowOpen, block_interval
<1>8. TaskTx(c).kind = "task" /\ TaskTx(c).call = c
  BY TaskTxOf
<1>9. Accepts(a, TaskTx(c))
  <2>1. Accepts(a, TaskTx(c)) = (WindowOpen(opened) /\ c.task \in tasks_state[c.instance])
    BY <1>8 DEF Accepts
  <2> QED
    BY <1>4, <1>7, <2>1
<1>10. /\ Effect(a, TaskTx(c)) /\ Announce(Run(Workflow, Executing)) /\ UNCHANGED failed
  BY <1>9 DEF Mine
<1>11. submit_interaction(a, c.instance, c.task)
  BY <1>8, <1>10 DEF Effect
<1>12. Executing \in Seq(Executable)
  <2>1. TaskTx(c) \in Fitting
    BY DEF Fitting
  <2> QED
    BY <1>10, <2>1, EffectIsStep, StepExecutes
<1>13. UNCHANGED <<enabledEvents, executedEvents>>
  <2>1. executed \in Seq(ListIds) /\ executed' = executed
    BY <1>11 DEF SystemInv, WaitInv, TypeOK, ListIds, submit_interaction
  <2>2. Run(Workflow, Executing).enabled = <<>> /\ Run(Workflow, Executing).executed = <<>>
    BY <1>12, <2>1, NothingRuns
  <2>3. enabledEvents \in Seq(Calls) /\ executedEvents \in Seq(Calls)
    BY DEF SystemInv, ScriptInv
  <2> QED
    BY <1>10, <2>2, <2>3 DEF Announce
<1>14. RoundCourse' /\ CallsOf(pending_interactions') = P \cup {c}
  <2>1. TypeOK /\ RoundCourse
    BY DEF SystemInv, WaitInv, Course
  <2> QED
    BY <1>2, <1>4, <1>11, <2>1, SubmitCourse
<1>15. tasks_state' = tasks_state /\ index_block' = opened /\ block' = block
  BY <1>11 DEF submit_interaction, workflowVars
<1>16. Drained'
  BY <1>6, <1>7, <1>15 DEF Drained
<1>17. InFlight' = InFlight /\ Idle' = Idle
  <2>1. InFlight' = (O \ {c}) \cup (P \cup {c}) \cup E
    BY <1>3, <1>13, <1>14 DEF InFlight
  <2>2. InFlight = O \cup P \cup E
    BY DEF InFlight
  <2> HIDE DEF O, P, E
  <2>3. InFlight' = InFlight
    BY <1>2, <2>1, <2>2
  <2>4. Idle' = Idle
    BY <1>1 DEF Idle
  <2> QED
    BY <2>3, <2>4
<1>18. Apart(Outgoing(outbox'), CallsOf(pending_interactions'), EventsOf(enabledEvents'))
  <2>1. Apart(O, P, E)
    BY DEF Course
  <2> HIDE DEF O, P, E
  <2>2. Apart(O \ {c}, P \cup {c}, E)
    BY <1>4, <2>1 DEF Apart
  <2> QED
    BY <1>3, <1>13, <1>14, <2>2 DEF E
<1> HIDE DEF O, P, E, opened
<1> QED
  BY <1>1, <1>3, <1>10, <1>13, <1>14, <1>15, <1>16, <1>17, <1>18 DEF Course

\* A closed round leaves the script with the events of its calls and nothing else.
LEMMA ClearedCourse ==
  ASSUME SystemInv, Course, OneStage, Clears, WindowClosed,
         Executing \in Seq(Executable), Announce(Run(Workflow, Executing)),
         UNCHANGED <<participants, failed, phase, complete>>,
         SentOnce(outbox'), Outgoing(outbox') = Outgoing(outbox)
  PROVE  Course'
<1> DEFINE W == CallsOf(pending_interactions)
           r == Run(Workflow, Executing)
<1>1. /\ enabledEvents = <<>> /\ executedEvents = <<>> /\ Outgoing(outbox) = {}
  <2>1. index_block # 0 /\ block > index_block
    <3>1. block \in Nat /\ index_block \in Nat
      BY DEF SystemInv, WaitInv, TypeOK
    <3> QED
      BY <3>1 DEF WindowClosed, block_interval
  <2> QED
    BY <2>1 DEF Course, Drained
<1>2. EventsOf(<<>>) = {}
  BY DEF EventsOf
<1>3. InFlight = W /\ Stands(tasks_state, W, {}, Idle)
  <2>1. InFlight = W
    BY <1>1, <1>2 DEF InFlight
  <2>2. Stands(tasks_state, InFlight, EventsOf(executedEvents), Idle)
    BY DEF Course
  <2> QED
    BY <1>1, <1>2, <2>1, <2>2
<1>4. \A c \in W : c.task \in tasks_state[c.instance]
  BY <1>3 DEF Stands
<1>5. PICK w : w.tasks_state = tasks_state' /\ r \in Running(tasks_state, W, w)
  BY <1>4, ClearingRuns
<1>6. r.enabled \in Seq(Calls) /\ r.executed \in Seq(Calls)
      /\ OneEvent(r.enabled) /\ OneEvent(r.executed)
  BY <1>5 DEF Running, Runs
<1>7. enabledEvents' = r.enabled /\ executedEvents' = r.executed
  <2>1. enabledEvents' = <<>> \o r.enabled /\ executedEvents' = <<>> \o r.executed
    BY <1>1 DEF Announce
  <2> HIDE DEF r
  <2> QED
    BY <1>6, <2>1
<1>8. Idle' = Idle /\ Idle \in SUBSET InstanceIds
  BY DEF Idle
<1> HIDE DEF r, W
<1>9. Stands(tasks_state', EventsOf(r.enabled), EventsOf(r.executed), Idle)
  BY <1>3, <1>5, <1>8, RunStands
<1>10. /\ pending_interactions' = <<>> /\ list' = <<>> /\ index_block' = 0 /\ orderers' = {}
       /\ vote_count' = 0 /\ domain_count' = 0 /\ pending_domains' = {}
  BY DEF Clears
<1>11. CallsOf(<<>>) = {} /\ Contending(<<>>) = {}
  <2>1. \A j \in 1..Len(<<>>) : FALSE
    OBVIOUS
  <2>2. DOMAIN <<>> = {}
    OBVIOUS
  <2> QED
    BY <2>1, <2>2 DEF CallsOf, Contending
<1>12. RoundCourse'
  <2>1. participants' = Parties
    BY DEF Course, RoundCourse
  <2>2. \A j \in 1..Len(<<>>) : FALSE
    OBVIOUS
  <2>3. orderers' = Contending(pending_interactions')
    BY <1>10, <1>11
  <2>4. \A j \in 1..Len(pending_interactions') : FALSE
    BY <1>10, <2>2
  <2> QED
    BY <1>10, <2>1, <2>3, <2>4 DEF RoundCourse
<1>13. InFlight' = EventsOf(r.enabled)
  BY <1>1, <1>7, <1>10, <1>11 DEF InFlight
<1>14. Apart(Outgoing(outbox'), CallsOf(pending_interactions'), EventsOf(enabledEvents'))
  BY <1>1, <1>10, <1>11 DEF Apart
<1>15. Drained'
  BY <1>10 DEF Drained
<1> QED
  BY <1>6, <1>7, <1>8, <1>9, <1>12, <1>13, <1>14, <1>15 DEF Course

\* A vote or a release is mined.
LEMMA MineRequestCourse ==
  ASSUME SystemInv, FlightInv, MergeInv, OneStage, DistinctVotes, Course,
         NEW a \in Addresses, Mine(a), Request(Head(outbox[a]))
  PROVE  Course'
<1> DEFINE tx == Head(outbox[a])
<1>1. /\ outbox[a] # <<>>
      /\ outbox' = [outbox EXCEPT ![a] = Tail(outbox[a])]
      /\ UNCHANGED <<phase, complete>>
  BY DEF Mine
<1>2. tx \in Fitting
  BY <1>1, HeadFits
<1>3. outbox[a] \in Seq(Fitting) /\ 1 \in 1..Len(outbox[a]) /\ tx = outbox[a][1]
  BY <1>1, Outboxes
<1>4. a = Store
  BY <1>3 DEF FlightInv
<1>5. tx.kind # "task" /\ \A c \in Calls : tx # TaskTx(c)
  <2>1. tx.kind # "task"
    BY DEF Request
  <2> QED
    BY <2>1, TaskTxOf
<1>6. SentOnce(outbox') /\ Outgoing(outbox') = Outgoing(outbox)
  <2>1. outbox \in Holding(Outgoing(outbox))
    BY Held
  <2>2. outbox' \in Holding(Outgoing(outbox))
    BY <1>1, <1>5, <2>1, TailOther
  <2> QED
    BY <2>2 DEF Holding
<1>7. \/ Effect(a, tx) /\ Announce(Run(Workflow, Executing)) /\ UNCHANGED failed
      \/ UNCHANGED <<vars, enabledEvents, executedEvents, failed>>
  BY <1>5 DEF Mine
<1>8. CASE UNCHANGED <<vars, enabledEvents, executedEvents, failed>>
  BY <1>1, <1>6, <1>8, SameCalls
<1>9. CASE Effect(a, tx) /\ Announce(Run(Workflow, Executing)) /\ UNCHANGED failed
  <2>1. Executing \in Seq(Executable)
    BY <1>2, <1>9, EffectIsStep, StepExecutes
  <2>2. RoundCourse /\ TypeOK /\ \A c \in CallsOf(pending_interactions) :
                                   c.task \in tasks_state[c.instance]
    BY DEF Course, SystemInv, WaitInv, Stands, InFlight
  <2>3. Contending(pending_interactions) \subseteq {Store}
    BY <2>2, OnlyStoreContends
  <2>4. Clears /\ WindowClosed /\ UNCHANGED participants
    <3>1. CASE tx.kind = "release"
      <4>1. release
        BY <1>9, <3>1 DEF Effect
      <4>2. Clears
        BY <2>2, <2>3, <4>1, RoundClears
      <4> QED
        BY <4>1, <4>2 DEF release, isIsolate
    <3>2. CASE tx.kind = "vote"
      <4>1. order_interactions(Store, tx.vote)
        BY <1>4, <1>9, <3>2 DEF Effect
      <4>2. ToSet(tx.vote) = permitted_interactions(Store)
        <5>1. DOMAIN outbox[Store] = 1..Len(outbox[Store])
          BY <1>3, <1>4
        <5> QED
          BY <1>3, <1>4, <3>2, <5>1 DEF FlightInv, RequestsAreCurrent
      <4>3. Distinct(tx.vote)
        BY <1>3, <1>4, <3>2 DEF DistinctVotes
      <4>4. tx.vote \in Votes
        <5>1. \/ \E c \in Calls : tx = TaskTx(c)
              \/ \E v \in Votes : tx = VoteTx(v)
              \/ tx = ReleaseTx \/ tx = SuppliesTx
          BY <1>2 DEF Fitting
        <5>2. PICK v \in Votes : tx = VoteTx(v)
          BY <1>5, <3>2, <5>1 DEF ReleaseTx, SuppliesTx
        <5> QED
          BY <5>2 DEF VoteTx
      <4> HIDE DEF tx
      <4>5. Clears
        BY <2>2, <2>3, <4>1, <4>2, <4>3, <4>4, RoundClears
      <4> QED
        BY <4>1, <4>5 DEF order_interactions, canVote
    <3> QED
      BY <3>1, <3>2 DEF Request
  <2> QED
    BY <1>1, <1>6, <1>9, <2>1, <2>4, ClearedCourse
<1> QED
  BY <1>7, <1>8, <1>9

\* The supplies are reset.
LEMMA MineSuppliesCourse ==
  ASSUME SystemInv, Course, NEW a \in Addresses, Mine(a), Head(outbox[a]) = SuppliesTx
  PROVE  Course'
<1>1. /\ outbox[a] # <<>>
      /\ outbox' = [outbox EXCEPT ![a] = Tail(outbox[a])]
      /\ UNCHANGED <<phase, complete>>
  BY DEF Mine
<1>2. SuppliesTx.kind = "supplies" /\ SuppliesTx \in Fitting
  BY DEF SuppliesTx, Fitting
<1>3. Accepts(a, SuppliesTx)
  BY <1>2 DEF Accepts
<1>4. Effect(a, SuppliesTx) /\ Announce(Run(Workflow, Executing)) /\ UNCHANGED failed
  BY <1>3 DEF Mine
<1>5. resetSupplies(1) /\ UNCHANGED <<block, contractVars>>
  BY <1>2, <1>4 DEF Effect
<1>6. SentOnce(outbox') /\ Outgoing(outbox') = Outgoing(outbox)
  <2>1. outbox \in Holding(Outgoing(outbox))
    BY Held
  <2>2. \A c \in Calls : Head(outbox[a]) # TaskTx(c)
    BY TaskTxOf
  <2>3. outbox' \in Holding(Outgoing(outbox))
    BY <1>1, <2>1, <2>2, TailOther
  <2> QED
    BY <2>3 DEF Holding
<1>7. UNCHANGED <<enabledEvents, executedEvents>>
  <2>1. executed \in Seq(ListIds) /\ executed' = executed
    BY <1>5 DEF SystemInv, WaitInv, TypeOK, ListIds, contractVars
  <2>2. Executing \in Seq(Executable)
    BY <1>2, <1>4, EffectIsStep, StepExecutes
  <2>3. Run(Workflow, Executing).enabled = <<>> /\ Run(Workflow, Executing).executed = <<>>
    BY <2>1, <2>2, NothingRuns
  <2>4. enabledEvents \in Seq(Calls) /\ executedEvents \in Seq(Calls)
    BY DEF SystemInv, ScriptInv
  <2> QED
    BY <1>4, <2>3, <2>4 DEF Announce
<1>8. tasks_state' = tasks_state /\ participants' = participants
      /\ UNCHANGED contractVars /\ block' = block
  BY <1>5 DEF resetSupplies
<1>9. RoundCourse'
  BY <1>8, RoundStays DEF Course, contractVars
<1>10. InFlight' = InFlight /\ Idle' = Idle
  BY <1>1, <1>6, <1>7, <1>8 DEF InFlight, Idle, contractVars
<1>11. Drained'
  BY <1>6, <1>7, <1>8 DEF Course, Drained, contractVars
<1> QED
  BY <1>1, <1>4, <1>6, <1>7, <1>8, <1>9, <1>10, <1>11 DEF Course, contractVars

\* One step of the script and the chain.
LEMMA CourseNext ==
  SystemInv /\ FlightInv /\ MergeInv /\ OneStage /\ DistinctVotes /\ CourseInv
    /\ [SystemNext]_systemVars => CourseInv'
<1> SUFFICES ASSUME SystemInv, FlightInv, MergeInv, OneStage, DistinctVotes, CourseInv,
                    [SystemNext]_systemVars, late' = 0
             PROVE  Course'
  BY DEF CourseInv
<1>1. late \in Nat
  BY SystemAssumption DEF SystemInv, ScriptInv
<1>2. late = 0
  <2>1. late' \in {late, late + 1}
    BY DEF SystemNext, Mine, Tick, HandleFailure, CheckVote, AskCanVote, AskPermitted,
           SendVote, AskIsolate, Rearm, Listen, systemVars
  <2>2. late + 1 # 0
    BY <1>1
  <2> QED
    BY <2>1, <2>2
<1>3. Course
  BY <1>2 DEF CourseInv
<1>4. ASSUME NEW a \in Addresses, Mine(a)
      PROVE  Course'
  <2>1. Head(outbox[a]) \in Fitting
    BY <1>4, HeadFits DEF Mine
  <2>2. \/ \E c \in Calls : Head(outbox[a]) = TaskTx(c)
        \/ \E v \in Votes : Head(outbox[a]) = VoteTx(v)
        \/ Head(outbox[a]) = ReleaseTx
        \/ Head(outbox[a]) = SuppliesTx
    BY <2>1 DEF Fitting
  <2>3. (\A v : Request(VoteTx(v))) /\ Request(ReleaseTx)
    BY DEF Request, VoteTx, ReleaseTx
  <2> QED
    BY <1>3, <1>4, <2>2, <2>3, MineTaskCourse, MineRequestCourse, MineSuppliesCourse
<1>5. CASE Tick
  BY <1>2, <1>3, <1>5, TickCourse
<1>6. CASE \E i \in InstanceIds : HandleFailure(i)
  <2>1. PICK i \in InstanceIds : HandleFailure(i)
    BY <1>6
  <2>2. failed[i] = 0 /\ failed[i] > 0
    BY <1>3, <2>1 DEF Course, HandleFailure
  <2> QED
    BY <2>2
<1>7. CASE CheckVote
  BY <1>3, <1>7, CheckVoteCourse
<1>8. CASE Listen
  <2>1. UNCHANGED <<vars, failed>>
    BY <1>8 DEF Listen
  <2>2. StartRound \/ HandleEnabled \/ FinishRound \/ NextRound \/ HandleExecuted
    BY <1>8 DEF Listen, ClientStep
  <2> QED
    BY <1>3, <2>1, <2>2, StartRoundCourse, HandleEnabledCourse, FinishRoundCourse,
       NextRoundCourse, HandleExecutedCourse
<1>9. CASE UNCHANGED systemVars
  BY <1>3, <1>9, SameCalls DEF systemVars, clientVars, Course
<1> QED
  BY <1>4, <1>5, <1>6, <1>7, <1>8, <1>9 DEF SystemNext

\* The script starts with nothing under way.
LEMMA CourseInit == SystemInit => CourseInv /\ DistinctVotes
<1> SUFFICES ASSUME SystemInit PROVE Course /\ DistinctVotes
  BY DEF CourseInv
<1>1. Init /\ ClientInit /\ failed = [i \in InstanceIds |-> 0]
  BY DEF SystemInit
<1>2. EventsOf(<<>>) = {} /\ OneEvent(<<>>) /\ CallsOf(<<>>) = {} /\ Contending(<<>>) = {}
  <2>1. \A k \in 1..Len(<<>>) : FALSE
    OBVIOUS
  <2>2. DOMAIN <<>> = {}
    OBVIOUS
  <2> QED
    BY <2>1, <2>2 DEF EventsOf, OneEvent, CallsOf, Contending
<1>3. \A a \in Addresses : \A k \in 1..Len(outbox[a]) : FALSE
  <2>1. \A a \in Addresses : outbox[a] = <<>>
    BY <1>1 DEF ClientInit
  <2> QED
    BY <2>1
<1>4. Outgoing(outbox) = {} /\ SentOnce(outbox)
  BY <1>3 DEF Outgoing, SentOnce
<1>5. DistinctVotes
  BY <1>3, ClientAssumption DEF DistinctVotes
<1>6. /\ enabledEvents = <<>> /\ executedEvents = <<>> /\ pending_interactions = <<>>
      /\ \A i \in InstanceIds : ~complete[i] /\ tasks_state[i] = {"purchaseOrder"}
      /\ index_block = 0
  BY <1>1 DEF ClientInit, Init
<1>7. InFlight = {}
  BY <1>2, <1>4, <1>6 DEF InFlight
<1>8. Stands(tasks_state, InFlight, EventsOf(executedEvents), Idle)
  BY <1>2, <1>6, <1>7 DEF Stands, Idle
<1>9. RoundCourse
  <2>1. \A k \in 1..Len(pending_interactions) : FALSE
    BY <1>6
  <2> QED
    BY <1>1, <1>2, <1>6, <2>1 DEF RoundCourse, Init
<1>10. Drained
  BY <1>6 DEF Drained
<1>11. Apart(Outgoing(outbox), CallsOf(pending_interactions), EventsOf(enabledEvents))
  BY <1>2, <1>4, <1>6 DEF Apart
<1>12. \A i \in InstanceIds : failed[i] = 0
  BY <1>1
<1> QED
  BY <1>2, <1>4, <1>5, <1>6, <1>8, <1>9, <1>10, <1>11, <1>12 DEF Course

\* A vote is a sequence of the permitted ids, each of them once.
LEMMA VoteOnce ==
  ASSUME SystemInv, NEW vote \in SetToSeqs(permitted)
  PROVE  Distinct(vote)
<1> DEFINE n == Cardinality(permitted)
<1>1. IsFiniteSet(permitted)
  <2>1. permitted \subseteq 1..(pending_interactions_count - 1)
        /\ pending_interactions_count \in Nat
    BY DEF SystemInv, ScriptInv, WaitInv, TypeOK
  <2>2. IsFiniteSet(1..(pending_interactions_count - 1))
    BY <2>1, FS_Interval
  <2> QED
    BY <2>1, <2>2, FS_Subset
<1>2. n \in Nat
  BY <1>1, FS_CardinalityType
<1>3. /\ vote \in [1..n -> permitted]
      /\ \A i, j \in 1..n : i # j => vote[i] # vote[j]
  BY DEF SetToSeqs
<1> HIDE DEF n
<1>4. Len(vote) = n
  <2>1. vote \in Seq(permitted)
    BY <1>2, <1>3, FunctionIsSeq
  <2> QED
    BY <1>2, <1>3, <2>1
<1> QED
  BY <1>3, <1>4 DEF Distinct

\* The outboxes take up distinct votes only.
LEMMA DistinctVotesNext ==
  SystemInv /\ DistinctVotes /\ [SystemNext]_systemVars => DistinctVotes'
<1> SUFFICES ASSUME SystemInv, DistinctVotes, [SystemNext]_systemVars,
                    NEW k \in 1..Len(outbox'[Store]), outbox'[Store][k].kind = "vote"
             PROVE  Distinct(outbox'[Store][k].vote)
  BY DEF DistinctVotes
<1>1. /\ Store \in Addresses /\ outbox[Store] \in Seq(Fitting) /\ Len(outbox[Store]) \in Nat
      /\ outbox \in [Addresses -> Seq(Fitting)]
  BY Outboxes, ClientAssumption DEF SystemInv, ScriptInv
<1>2. CASE outbox' = outbox
  BY <1>2 DEF DistinctVotes
<1>3. ASSUME NEW a \in Addresses, Mine(a)
      PROVE  Distinct(outbox'[Store][k].vote)
  <2>1. outbox[a] # <<>> /\ outbox' = [outbox EXCEPT ![a] = Tail(outbox[a])]
    BY <1>3 DEF Mine
  <2>2. PICK d \in [Addresses -> Nat] :
          \A b \in Addresses : \A l \in 1..Len(outbox'[b]) :
            l + d[b] \in 1..Len(outbox[b]) /\ outbox'[b][l] = outbox[b][l + d[b]]
    BY <2>1, MinedShifts
  <2>3. k + d[Store] \in 1..Len(outbox[Store]) /\ outbox'[Store][k] = outbox[Store][k + d[Store]]
    BY <1>1, <2>2
  <2> QED
    BY <2>3 DEF DistinctVotes
<1>4. CASE Listen
  <2>1. outbox' \in Added(outbox)
    BY <1>4, ListenAdds
  <2>2. Request(outbox'[Store][k])
    BY DEF Request
  <2>3. k \in 1..Len(outbox[Store]) /\ outbox'[Store][k] = outbox[Store][k]
    BY <1>1, <2>1, <2>2 DEF Added
  <2> QED
    BY <2>3 DEF DistinctVotes
<1>5. ASSUME NEW tx \in Fitting, tx.kind = "vote" => Distinct(tx.vote),
             outbox' = [outbox EXCEPT ![Store] = Append(outbox[Store], tx)]
      PROVE  Distinct(outbox'[Store][k].vote)
  <2>1. outbox'[Store] = Append(outbox[Store], tx)
    BY <1>1, <1>5
  <2>2. CASE k = Len(outbox[Store]) + 1
    <3>1. outbox'[Store][k] = tx
      BY <1>1, <1>5, <2>1, <2>2
    <3> QED
      BY <1>5, <3>1
  <2>3. CASE k # Len(outbox[Store]) + 1
    <3>1. k \in 1..Len(outbox[Store]) /\ outbox'[Store][k] = outbox[Store][k]
      BY <1>1, <1>5, <2>1, <2>3
    <3> QED
      BY <3>1 DEF DistinctVotes
  <2> QED
    BY <2>2, <2>3
<1>6. CASE SendVote
  <2>1. PICK vote \in SetToSeqs(permitted) :
          outbox' = [outbox EXCEPT ![Store] = Append(outbox[Store], VoteTx(vote))]
    BY <1>6 DEF SendVote
  <2>2. VoteTx(vote) \in Fitting /\ Distinct(vote) /\ VoteTx(vote).vote = vote
    BY VoteFits, VoteOnce DEF VoteTx
  <2> QED
    BY <1>5, <2>1, <2>2
<1>7. CASE AskIsolate
  <2>1. ReleaseTx \in Fitting /\ ReleaseTx.kind # "vote"
    BY DEF Fitting, ReleaseTx
  <2>2. outbox' = outbox \/ outbox' = [outbox EXCEPT ![Store] = Append(outbox[Store], ReleaseTx)]
    BY <1>7 DEF AskIsolate
  <2> QED
    BY <1>2, <1>5, <2>1, <2>2
<1> QED
  BY <1>2, <1>3, <1>4, <1>6, <1>7
     DEF SystemNext, Tick, HandleFailure, CheckVote, AskCanVote, AskPermitted, Rearm,
         clientVars, systemVars

\* What the two theorems need of a state.
LEMMA CourseGives ==
  SystemInv /\ OneStage /\ CourseInv
    => OnlyTheStoreOrders /\ CompleteMeansReset /\ (late = 0 => NothingIsLeftBehind)
<1> SUFFICES ASSUME SystemInv, OneStage, Course
             PROVE  /\ orderers \subseteq {Store}
                    /\ \A i \in InstanceIds : complete[i] => "purchaseOrder" \in tasks_state[i]
                    /\ NothingIsLeftBehind
  BY DEF CourseInv, OnlyTheStoreOrders, CompleteMeansReset
<1>1. orderers \subseteq {Store}
  <2>1. TypeOK /\ RoundCourse /\ \A c \in CallsOf(pending_interactions) :
                                   c.task \in tasks_state[c.instance]
    BY DEF Course, SystemInv, WaitInv, Stands, InFlight
  <2> QED
    BY <2>1, OnlyStoreContends DEF RoundCourse
<1>2. \A i \in InstanceIds : complete[i] => "purchaseOrder" \in tasks_state[i]
  BY DEF Course, Stands, Idle
<1>3. NothingIsLeftBehind
  BY DEF Course, RoundCourse, NothingIsLeftBehind
<1> QED
  BY <1>1, <1>2, <1>3

\* Nor is a vote refused on its way.
LEMMA CourseTakesVotes ==
  SystemInv /\ FlightInv /\ MergeInv /\ OneStage /\ DistinctVotes /\ CourseInv
    => (late = 0 => VotesAreTaken)
<1> SUFFICES ASSUME SystemInv, FlightInv, MergeInv, OneStage, DistinctVotes, Course
             PROVE  VotesAreTaken
  BY DEF CourseInv
<1> SUFFICES ASSUME NEW k \in DOMAIN outbox[Store], outbox[Store][k].kind = "vote"
             PROVE  Accepts(Store, outbox[Store][k])
  BY DEF VotesAreTaken
<1> DEFINE tx == outbox[Store][k]
<1>1. /\ Store \in Addresses /\ outbox[Store] \in Seq(Fitting)
      /\ DOMAIN outbox[Store] = 1..Len(outbox[Store])
  BY Outboxes, ClientAssumption
<1>2. tx \in Fitting /\ tx.kind = "vote"
  BY <1>1
<1>3. tx.vote \in Seq(ListIds)
  <2>1. /\ \A c \in Calls : TaskTx(c).kind # "vote"
        /\ ReleaseTx.kind # "vote" /\ SuppliesTx.kind # "vote"
    BY DEF TaskTx, ReleaseTx, SuppliesTx
  <2>2. PICK v \in Votes : tx = VoteTx(v)
    BY <1>2, <2>1 DEF Fitting
  <2>3. v \in Seq(ListIds)
    BY VotesType DEF SystemInv, WaitInv
  <2>4. tx.vote = v
    BY <2>2 DEF VoteTx
  <2> QED
    BY <2>3, <2>4
<1>4. canVote(Store) /\ ToSet(tx.vote) = permitted_interactions(Store)
  BY <1>2 DEF FlightInv, RequestsAreCurrent
<1>5. Distinct(tx.vote)
  BY <1>1, <1>2 DEF DistinctVotes
<1>6. TypeOK /\ RoundCourse
  BY DEF Course, SystemInv, WaitInv
<1>7. \A c \in CallsOf(pending_interactions) : c.task \in tasks_state[c.instance]
  BY DEF Course, Stands, InFlight
<1>8. Contending(pending_interactions) \subseteq {Store}
  BY <1>6, <1>7, OnlyStoreContends
<1> HIDE DEF tx
<1>9. Accepts(Store, tx)
  BY <1>2, <1>3, <1>4, <1>5, <1>6, <1>8, StoreVoteAccepted
<1> QED
  BY <1>9 DEF tx

-----------------------------------------------------------------------------
(* The theorems.                                                            *)

\* The script and the chain keep their types (interact_ordering_proces.js).
THEOREM SystemTypeCorrect == SystemSpec => []SystemTypeOK
BY SystemInvInit, SystemInvNext, SystemInvTypes, PTL DEF SystemSpec

\* Under the script the contract behaves as OrderingContract says it may: what is
\* proved of it for any callers, any votes and any order of calls holds here too.
THEOREM SystemImplementsContract == SystemSpec => Spec
<1>1. SystemInit => Init
  BY DEF SystemInit
<1>2. SystemInv /\ [SystemNext]_systemVars => [Next]_vars
  BY SystemStep
<1> QED
  BY <1>1, <1>2, SystemInvInit, SystemInvNext, PTL DEF SystemSpec, Spec

\* So no two tasks of an instance are open together but the two branches of the
\* choice, whatever is late, fails or is sent again (WorkflowNew.sol:39-110).
THEOREM SystemOneStage == SystemSpec => []OneStage
BY SystemImplementsContract, OrderingOneStage

\* And what the script voted is what is executed: the list keeps every vote and no
\* interaction is executed twice or out of order (ConsensusContract.sol:120-199).
THEOREM SystemExecutesVotes ==
  SystemSpec => []ListFollowsVotes /\ BatchFollowsVotes /\ []Ledger!AtMostOnce
BY SystemImplementsContract, OrderingFollowsVotes, OrderingExecutesInOrder, OrderingAtMostOnce

\* A vote put together from separate reads, and a release, are still what the
\* contract would answer for when they are mined, however many transactions of
\* other accounts come in between (interact_ordering_proces.js:144-180).
THEOREM SystemRequestsAreCurrent == SystemSpec => []RequestsAreCurrent
<1> DEFINE Inv == SystemInv /\ FlightInv
<1>1. SystemInit => Inv
  BY SystemInvInit, FlightInvInit
<1>2. Inv /\ [SystemNext]_systemVars => Inv'
  BY SystemInvNext, FlightInvNext
<1>3. Inv => RequestsAreCurrent
  BY DEF FlightInv
<1> QED
  BY <1>1, <1>2, <1>3, PTL DEF SystemSpec

\* As long as every block finds what was sent before it mined and answered, each round is
\* the same: every call of the script is mined in the round in which its task is open, the
\* store alone has conflicting interactions, and its vote or its release executes all that
\* is pending.  The theorems below follow from this invariant.
THEOREM CourseKept ==
  SystemSpec =>
    [](SystemInv /\ FlightInv /\ MergeInv /\ OneStage /\ DistinctVotes /\ CourseInv)
<1> DEFINE Inv == SystemInv /\ FlightInv /\ MergeInv /\ DistinctVotes /\ CourseInv
<1>1. SystemInit => Inv
  <2>1. SystemInit => MergeInv
    BY MergeInvInit DEF SystemInit
  <2> QED
    BY <2>1, SystemInvInit, FlightInvInit, CourseInit
<1>2. SystemInv /\ MergeInv /\ [SystemNext]_systemVars => MergeInv'
  BY SystemStep, MergeInvNext
<1>3. OneStage /\ Inv /\ [SystemNext]_systemVars => Inv'
  BY <1>2, SystemInvNext, FlightInvNext, CourseNext, DistinctVotesNext
<1>4. SystemSpec => []OneStage
  BY SystemOneStage
<1> QED
  BY <1>1, <1>3, <1>4, PTL DEF SystemSpec

\* Nobody but the store becomes an orderer then, so that the script, which votes for the
\* store alone (interact_ordering_proces.js:144), leaves no round waiting for the vote of
\* a customer or a provider (ConsensusContract.sol:95-118).
THEOREM SystemOnlyStoreOrders == SystemSpec => []OnlyTheStoreOrders
<1>1. SystemInv /\ FlightInv /\ MergeInv /\ OneStage /\ DistinctVotes /\ CourseInv
        => OnlyTheStoreOrders
  BY CourseGives
<1> QED
  BY <1>1, CourseKept, PTL

\* And an instance that the script marks complete, on the events of its last task, has
\* left the process: the next purchase can be made (interact_ordering_proces.js:474).
THEOREM SystemCompleteMeansReset == SystemSpec => []CompleteMeansReset
<1>1. SystemInv /\ FlightInv /\ MergeInv /\ OneStage /\ DistinctVotes /\ CourseInv
        => CompleteMeansReset
  BY CourseGives
<1> QED
  BY <1>1, CourseKept, PTL

\* No vote of the script reverts then, no domain is flagged as conflicting, and a round that
\* is closed has executed all that was submitted (ConsensusContract.sol:120-199).
THEOREM SystemVotesAreTaken ==
  SystemSpec => [](late = 0 => VotesAreTaken /\ NothingIsLeftBehind)
<1>1. SystemInv /\ FlightInv /\ MergeInv /\ OneStage /\ DistinctVotes /\ CourseInv
        => (late = 0 => VotesAreTaken /\ NothingIsLeftBehind)
  BY CourseGives, CourseTakesVotes
<1> QED
  BY <1>1, CourseKept, PTL
=============================================================================
