------------------------ MODULE OrderingMergeProofs ------------------------
(***************************************************************************)
(* The merged order of OrderingContract: what is in the list, in which     *)
(* order, and what of it is executed; for any accounts, interactions,      *)
(* votes and conflicts.                                                    *)
(***************************************************************************)
EXTENDS OrderingContractProofs

\* The pairs of ids that a list has to keep in order: those of R.
Respects(l, R) == \A x \in R : Ahead(l, x[1], x[2])

\* Nothing but some ids left the list, the others are in their order.
SubList(l, m) ==
  /\ Distinct(m)
  /\ \A a : Listed(m, a) => Listed(l, a)
  /\ \A a, b : Ahead(l, a, b) /\ Listed(m, a) /\ Listed(m, b) => Ahead(m, a, b)

\* The entries of the array q are entries of p.
FromPending(p, q) == \A k \in 1..Len(q) : \E j \in 1..Len(p) : q[k] = p[j]

\* removeInteraction takes out one entry and nothing else
\* (ConsensusContract.sol:329-336).
LEMMA RemovedKeeps ==
  ASSUME NEW p \in Seq(Interactions), NEW i \in 1..Len(p), NEW a \in Ids(p), a # p[i].id
  PROVE  a \in Ids(removeInteraction(p, i))
<1> DEFINE q == removeInteraction(p, i)
<1>1. /\ q \in Seq(Interactions) /\ Len(q) = Len(p) - 1 /\ Len(p) \in Nat
      /\ \A k \in 1..(Len(p)-1) : q[k] = IF k < i THEN p[k] ELSE p[k+1]
  <2> DEFINE r == RemoveAt(p, i)
  <2>1. /\ r \in Seq(Interactions) /\ Len(r) = Len(p) - 1
        /\ \A k \in 1..(Len(p)-1) : r[k] = IF k < i THEN p[k] ELSE p[k+1]
    BY RemoveAtShape
  <2>2. q = r
    BY DEF removeInteraction
  <2> HIDE DEF q, r
  <2> QED
    BY <2>1, <2>2
<1>2. PICK j \in 1..Len(p) : p[j].id = a
  BY DEF Ids
<1> HIDE DEF q
<1>3. DOMAIN q = 1..(Len(p)-1)
  BY <1>1
<1>4. CASE j < i
  <2>1. j \in 1..(Len(p)-1)
    BY <1>1, <1>4
  <2>2. q[j] = p[j]
    BY <1>1, <1>4, <2>1
  <2> QED
    BY <1>2, <1>3, <2>1, <2>2 DEF Ids, q
<1>5. CASE j > i
  <2>1. j - 1 \in 1..(Len(p)-1) /\ ~(j - 1 < i) /\ (j - 1) + 1 = j
    BY <1>1, <1>5
  <2>2. q[j-1] = p[j]
    BY <1>1, <2>1
  <2> QED
    BY <1>2, <1>3, <2>1, <2>2 DEF Ids, q
<1>6. j # i
  BY <1>2
<1> QED
  BY <1>4, <1>5, <1>6

\* An interaction is withdrawn without disturbing the entries of the others.
LEMMA RemovedFrom ==
  ASSUME NEW p \in Seq(Interactions), NEW i \in 1..Len(p)
  PROVE  FromPending(p, removeInteraction(p, i))
<1>1. /\ Len(removeInteraction(p, i)) = Len(p) - 1 /\ Len(p) \in Nat
      /\ \A k \in 1..(Len(p)-1) : removeInteraction(p, i)[k] = IF k < i THEN p[k] ELSE p[k+1]
  BY RemoveAtShape DEF removeInteraction
<1>2. \A k \in 1..(Len(p)-1) : k \in 1..Len(p) /\ k+1 \in 1..Len(p)
  BY <1>1
<1> QED
  BY <1>1, <1>2 DEF FromPending

\* An id is pending when some entry has it.
LEMMA PendingAt ==
  ASSUME NEW p \in Seq(Interactions), NEW a
  PROVE  a \in Ids(p) <=> \E i \in 1..Len(p) : p[i].id = a
<1>1. DOMAIN p = 1..Len(p)
  OBVIOUS
<1> QED
  BY <1>1 DEF Ids

-----------------------------------------------------------------------------
(* Executing the list.  The iterations so far, k of them, have led from     *)
(* storage o, whose list is walked, to storage s.                           *)

\* What the walk has not reverted on and left in the list is pending.
LeftPending(o, s, k) ==
  s.ok => \A i \in 1..k : Listed(s.list, o.list[i]) => o.list[i] \in Ids(s.pending)

\* It executes in the order of the list what it comes by.
InListOrder(o, s, k) ==
  /\ \A m \in New(o, s) : \E i \in 1..k : s.executed[m] = o.list[i]
  /\ \A m, n \in New(o, s) : m < n => Ahead(o.list, s.executed[m], s.executed[n])

\* The storage that k iterations of the walk may reach from o.
Walked(o, k) ==
  {s \in Storages : /\ Numbered(s.pending)
                    /\ Extends(o, s)
                    /\ SubList(o.list, s.list)
                    /\ LeftPending(o, s, k)
                    /\ InListOrder(o, s, k)}

\* An iteration of the walk (ConsensusContract.sol:174-190).
LEMMA ExecuteStepWalks ==
  ASSUME NEW o \in Storages, Distinct(o.list), NEW k \in 1..Len(o.list),
         NEW s \in Walked(o, k-1)
  PROVE  ExecuteStep(s, o.list[k]) \in Walked(o, k)
<1> DEFINE id == o.list[k]
           i == IndexOf(s.pending, id)
           t == ExecuteStep(s, id)
<1>1. /\ s \in Storages /\ Numbered(s.pending) /\ Extends(o, s) /\ SubList(o.list, s.list)
      /\ LeftPending(o, s, k-1) /\ InListOrder(o, s, k-1)
  BY DEF Walked
<1>2. /\ id \in ListIds /\ k \in Nat /\ k - 1 \in 0..Len(o.list)
      /\ s.pending \in Seq(Interactions) /\ s.list \in Seq(ListIds)
      /\ o.list \in Seq(ListIds) /\ s.executed \in Seq(ListIds)
      /\ Len(o.executed) \in Nat /\ Len(s.executed) \in Nat
      /\ Len(o.executed) <= Len(s.executed)
  BY <1>1 DEF Storages, Extends
<1>3. t \in Storages
  BY <1>1, <1>2, ExecuteStepType DEF ListIds
<1>4. \A m \in 1..k : m = k \/ m \in 1..(k-1)
  BY <1>2
<1>5. \/ /\ t.pending = s.pending /\ t.executed = s.executed /\ t.list = s.list
         /\ t.ok => s.ok /\ id \in Ids(s.pending)
      \/ /\ id \in Ids(s.pending) /\ s.ok
         /\ t.pending = removeInteraction(s.pending, i)
         /\ t.executed = Append(s.executed, id)
         /\ t.list = RemoveNode(s.list, id)
  <2> HIDE DEF i, id
  <2> QED
    BY <1>1 DEF ExecuteStep, Storages, i
<1> HIDE DEF t, i, id
<1>6. CASE /\ t.pending = s.pending /\ t.executed = s.executed /\ t.list = s.list
           /\ t.ok => s.ok /\ id \in Ids(s.pending)
  <2>1. New(o, t) = New(o, s) /\ Extends(o, t)
    BY <1>1, <1>6 DEF New, Extends
  <2>2. LeftPending(o, t, k)
    BY <1>1, <1>4, <1>6 DEF LeftPending, id
  <2>3. InListOrder(o, t, k)
    <3>1. 1..(k-1) \subseteq 1..k
      BY <1>2
    <3> QED
      BY <1>1, <1>6, <2>1, <3>1 DEF InListOrder
  <2> QED
    BY <1>1, <1>3, <1>6, <2>1, <2>2, <2>3 DEF Walked, id, t
<1>7. CASE /\ id \in Ids(s.pending) /\ s.ok
           /\ t.pending = removeInteraction(s.pending, i)
           /\ t.executed = Append(s.executed, id)
           /\ t.list = RemoveNode(s.list, id)
  <2> DEFINE m == Len(s.executed)
  <2>1. i \in 1..Len(s.pending) /\ s.pending[i].id = id
    BY <1>2, <1>7, IndexOfPending DEF i
  <2>2. Numbered(t.pending)
    BY <1>1, <1>2, <1>7, <2>1, Removed DEF Others
  <2>3. /\ Len(t.executed) = m + 1 /\ t.executed[m+1] = id
        /\ \A n \in 1..m : t.executed[n] = s.executed[n]
    BY <1>2, <1>7
  <2>4. Extends(o, t)
    <3>1. \A n \in 1..Len(o.executed) : n \in 1..m
      BY <1>2
    <3>2. \A n \in 1..Len(o.executed) : t.executed[n] = s.executed[n]
      BY <2>3, <3>1
    <3>3. Len(o.executed) <= Len(t.executed)
      BY <1>2, <2>3
    <3> QED
      BY <1>1, <3>2, <3>3 DEF Extends
  <2>5. /\ Distinct(t.list) /\ ~Listed(t.list, id)
        /\ \A x : Listed(t.list, x) => Listed(s.list, x)
        /\ \A a, b : Ahead(s.list, a, b) /\ a # id /\ b # id => Ahead(t.list, a, b)
    <3>1. HEAD \notin ListIds /\ Distinct(s.list)
      BY <1>1 DEF HEAD, ListIds, SubList
    <3> QED
      BY <1>2, <1>7, <3>1, RemoveNodeOrder
  <2>6. SubList(o.list, t.list)
    BY <1>1, <2>5 DEF SubList
  <2>7. LeftPending(o, t, k)
    <3> SUFFICES ASSUME NEW n \in 1..k, Listed(t.list, o.list[n])
                 PROVE  o.list[n] \in Ids(t.pending)
      BY DEF LeftPending
    <3>1. o.list[n] # id /\ Listed(s.list, o.list[n])
      BY <2>5
    <3>2. n \in 1..(k-1)
      BY <1>4, <3>1 DEF id
    <3>3. o.list[n] \in Ids(s.pending)
      BY <1>1, <1>7, <3>1, <3>2 DEF LeftPending
    <3> QED
      BY <1>2, <1>7, <2>1, <3>1, <3>3, RemovedKeeps
  <2>8. \A n \in New(o, t) : (n \in New(o, s) /\ t.executed[n] = s.executed[n]) \/ n = m + 1
    <3> SUFFICES ASSUME NEW n \in New(o, t), n # m + 1
                 PROVE  n \in New(o, s) /\ t.executed[n] = s.executed[n]
      OBVIOUS
    <3>1. n \in (Len(o.executed) + 1)..(m + 1)
      BY <2>3 DEF New
    <3>2. m \in Nat /\ Len(o.executed) \in Nat
      BY <1>2
    <3> HIDE DEF m
    <3>3. n \in (Len(o.executed) + 1)..m /\ n \in 1..m
      BY <3>1, <3>2
    <3> QED
      BY <2>3, <3>3 DEF New, m
  <2>9. \A n \in New(o, s) : n \in 1..m
    BY <1>2 DEF New
  <2>10. InListOrder(o, t, k)
    <3>1. ASSUME NEW n \in New(o, t)
          PROVE  \E j \in 1..k : t.executed[n] = o.list[j]
      <4>1. CASE n = m + 1
        BY <1>2, <2>3, <4>1 DEF id
      <4>2. CASE n \in New(o, s) /\ t.executed[n] = s.executed[n]
        <5>1. PICK j \in 1..(k-1) : s.executed[n] = o.list[j]
          BY <1>1, <4>2 DEF InListOrder
        <5> QED
          BY <1>2, <4>2, <5>1
      <4> QED
        BY <2>8, <4>1, <4>2
    <3>2. ASSUME NEW n \in New(o, t), NEW l \in New(o, t), n < l
          PROVE  Ahead(o.list, t.executed[n], t.executed[l])
      <4>1. n # m + 1
        <5>1. l <= m + 1
          BY <2>8, <2>9, <1>2
        <5> QED
          BY <1>2, <3>2, <5>1 DEF New
      <4>2. n \in New(o, s) /\ t.executed[n] = s.executed[n]
        BY <2>8, <4>1
      <4>3. CASE l = m + 1
        <5>1. PICK j \in 1..(k-1) : s.executed[n] = o.list[j]
          BY <1>1, <4>2 DEF InListOrder
        <5>2. j \in 1..Len(o.list) /\ j < k
          BY <1>2, <5>1
        <5> QED
          BY <2>3, <4>2, <4>3, <5>1, <5>2 DEF Ahead, id
      <4>4. CASE l \in New(o, s) /\ t.executed[l] = s.executed[l]
        BY <1>1, <3>2, <4>2, <4>4 DEF InListOrder
      <4> QED
        BY <2>8, <4>3, <4>4
    <3> QED
      BY <3>1, <3>2 DEF InListOrder
  <2> QED
    BY <1>3, <2>2, <2>4, <2>6, <2>7, <2>10 DEF Walked, id, t
<1> QED
  BY <1>5, <1>6, <1>7

\* The whole walk (ConsensusContract.sol:173-191).
LEMMA ExecuteWalks ==
  ASSUME NEW s \in Storages, Numbered(s.pending), Distinct(s.list)
  PROVE  Execute(s) \in Walked(s, Len(s.list))
<1> DEFINE n == Len(s.list)
           S == [k \in 0..n |-> Walked(s, k)]
<1>1. n \in Nat /\ Len(s.executed) \in Nat
  BY DEF Storages
<1>2. s \in Walked(s, 0)
  <2>1. New(s, s) = {}
    BY <1>1 DEF New
  <2>2. SubList(s.list, s.list)
    BY DEF SubList
  <2>3. LeftPending(s, s, 0) /\ InListOrder(s, s, 0) /\ Extends(s, s)
    BY <1>1, <2>1 DEF LeftPending, InListOrder, Extends
  <2> QED
    BY <2>2, <2>3 DEF Walked
<1>3. s \in S[0]
  BY <1>1, <1>2
<1>4. ASSUME NEW k \in 1..n, NEW x \in S[k-1]
      PROVE  ExecuteStep(x, s.list[k]) \in S[k]
  <2>1. k \in 0..n /\ k - 1 \in 0..n
    BY <1>1
  <2>2. x \in Walked(s, k-1)
    BY <2>1
  <2>3. ExecuteStep(x, s.list[k]) \in Walked(s, k)
    BY <2>2, ExecuteStepWalks
  <2> QED
    BY <2>1, <2>3
<1>6. \A k \in 0..n : S[k] \subseteq Storages
  BY DEF Walked
<1> HIDE DEF S
<1>5. Execute(s) \in S[n]
  BY <1>3, <1>4, <1>6, ExecuteLoop
<1> QED
  BY <1>1, <1>5 DEF S

-----------------------------------------------------------------------------
(* Labelling.                                                               *)

\* Two arrays that differ in other fields than the number and the parties.
SameParties(p, q) ==
  /\ Len(q) = Len(p)
  /\ \A j \in 1..Len(p) : /\ q[j].id = p[j].id
                          /\ q[j].sender = p[j].sender
                          /\ q[j].receiver = p[j].receiver

\* The list m is l with some ids of A inserted.
Grown(l, m, A) ==
  /\ Distinct(m)
  /\ \A a : Listed(l, a) => Listed(m, a)
  /\ \A a : Listed(m, a) => Listed(l, a) \/ a \in A
  /\ \A a, b : Ahead(l, a, b) => Ahead(m, a, b)

\* insertAfter inserts one (StructuredLinkedList.sol:248-260).
LEMMA InsertGrows ==
  ASSUME NEW l \in Seq(ListIds), Distinct(l), NEW node, NEW new \in ListIds,
         NEW A, new \in A
  PROVE  Grown(l, InsertAfter(l, node, new), A)
<1>1. HEAD \notin ListIds
  BY DEF HEAD, ListIds
<1> QED
  BY <1>1, InsertAfterOrder DEF Grown

\* Who shares a party with whom does not depend on the other fields.
LEMMA SameNeighbours ==
  ASSUME NEW p \in Seq(Interactions), NEW q \in Seq(Interactions), SameParties(p, q)
  PROVE  /\ \A i \in 1..Len(p) : Neighbours(q, i) = Neighbours(p, i)
         /\ Ids(q) = Ids(p)
<1>1. DOMAIN p = 1..Len(p) /\ DOMAIN q = 1..Len(p)
  BY DEF SameParties
<1>2. \A j \in 1..Len(p) : Involved(q[j]) = Involved(p[j])
  BY DEF SameParties, Involved
<1>3. \A i \in 1..Len(p) : Neighbours(q, i) = Neighbours(p, i)
  BY <1>1, <1>2 DEF Neighbours
<1>4. \A a : a \in Ids(q) <=> a \in Ids(p)
  <2>1. \A a : a \in Ids(q) <=> \E i \in 1..Len(p) : q[i].id = a
    BY <1>1 DEF Ids
  <2>2. \A a : a \in Ids(p) <=> \E i \in 1..Len(p) : p[i].id = a
    BY <1>1 DEF Ids
  <2> QED
    BY <2>1, <2>2 DEF SameParties
<1> QED
  BY <1>3, <1>4

\* The label that iteration i of generate_domains gives out.
LabelOf(s, i) ==
  IF s.pending[i].domain = Unlabelled THEN s.domains ELSE s.pending[i].domain

\* The storage t is s with interaction i and its neighbours labelled.
LabelsNear(s, i, t) ==
  /\ t \in Storages
  /\ SameParties(s.pending, t.pending)
  /\ \A j \in 1..Len(s.pending) :
       t.pending[j].domain = IF j = i \/ j \in Neighbours(s.pending, i)
                             THEN LabelOf(s, i) ELSE s.pending[j].domain
  /\ t.domains = IF s.pending[i].domain = Unlabelled THEN s.domains + 1 ELSE s.domains
  /\ t.list = IF Neighbours(s.pending, i) = {}
              THEN PushFront(s.list, s.pending[i].id) ELSE s.list
  /\ t.flagged = s.flagged /\ t.executed = s.executed

\* That is what iteration i of generate_domains does (ConsensusContract.sol:61-93).
LEMMA LabelStepEffect ==
  ASSUME NEW s \in Storages, NEW i \in 1..Len(s.pending)
  PROVE  LabelsNear(s, i, LabelStep(s, i))
<1> DEFINE t == LabelStep(s, i)
           near == Neighbours(s.pending, i)
           label == LabelOf(s, i)
<1>1. /\ DOMAIN s.pending = 1..Len(s.pending)
      /\ \A j \in 1..Len(s.pending) : s.pending[j] \in Interactions
  BY DEF Storages
<1>2. t \in Storages /\ Len(t.pending) = Len(s.pending)
  BY LabelStepType
<1>3. /\ t.pending = [j \in DOMAIN s.pending |->
                        IF j = i \/ j \in near THEN [s.pending[j] EXCEPT !.domain = label]
                                               ELSE s.pending[j]]
      /\ t.domains = IF s.pending[i].domain = Unlabelled THEN s.domains + 1 ELSE s.domains
      /\ t.list = IF near = {} THEN PushFront(s.list, s.pending[i].id) ELSE s.list
      /\ t.flagged = s.flagged /\ t.executed = s.executed
  <2> HIDE DEF near, label
  <2> QED
    BY DEF LabelStep, LabelOf, Storages, near, label
<1> HIDE DEF t, near, label
<1>4. ASSUME NEW j \in 1..Len(s.pending)
      PROVE  /\ t.pending[j].id = s.pending[j].id
             /\ t.pending[j].sender = s.pending[j].sender
             /\ t.pending[j].receiver = s.pending[j].receiver
             /\ t.pending[j].domain = IF j = i \/ j \in near THEN label ELSE s.pending[j].domain
  BY <1>1, <1>3 DEF Interactions
<1> QED
  BY <1>2, <1>3, <1>4 DEF LabelsNear, SameParties, t, near, label

\* The storage that i iterations of generate_domains may reach from s.
Labelled(s, i) ==
  {t \in Storages :
     /\ SameParties(s.pending, t.pending)
     /\ t.flagged = s.flagged /\ t.executed = s.executed
     /\ Grown(s.list, t.list, Ids(s.pending))
     /\ \A j \in 1..i : t.pending[j].domain # Unlabelled
     /\ \A j \in 1..i : Neighbours(s.pending, j) = {} => Listed(t.list, s.pending[j].id)}

\* An iteration labels interaction i and lists it if nothing shares its parties
\* (ConsensusContract.sol:61-93).
LEMMA LabelStepLabels ==
  ASSUME NEW s \in Storages, NEW i \in 1..Len(s.pending), NEW x \in Labelled(s, i-1)
  PROVE  LabelStep(x, i) \in Labelled(s, i)
<1> DEFINE t == LabelStep(x, i)
           near == Neighbours(s.pending, i)
<1>1. /\ x \in Storages /\ SameParties(s.pending, x.pending) /\ x.flagged = s.flagged
      /\ x.executed = s.executed /\ Grown(s.list, x.list, Ids(s.pending))
      /\ \A j \in 1..(i-1) : x.pending[j].domain # Unlabelled
      /\ \A j \in 1..(i-1) : Neighbours(s.pending, j) = {} => Listed(x.list, s.pending[j].id)
  BY DEF Labelled
<1>2. /\ s.pending \in Seq(Interactions) /\ x.pending \in Seq(Interactions)
      /\ i \in 1..Len(x.pending) /\ x.list \in Seq(ListIds) /\ x.domains \in Nat
      /\ Len(s.pending) \in Nat
  BY <1>1 DEF Storages, SameParties
<1>3. Neighbours(x.pending, i) = near /\ x.pending[i].id = s.pending[i].id
  BY <1>1, <1>2, SameNeighbours DEF SameParties
<1> HIDE DEF t, near
<1>4. /\ t \in Storages /\ SameParties(x.pending, t.pending) /\ t.flagged = x.flagged
      /\ t.executed = x.executed
      /\ \A j \in 1..Len(x.pending) :
           t.pending[j].domain = IF j = i \/ j \in near THEN LabelOf(x, i)
                                                        ELSE x.pending[j].domain
      /\ t.list = IF near = {} THEN PushFront(x.list, s.pending[i].id) ELSE x.list
  <2>1. /\ t \in Storages /\ SameParties(x.pending, t.pending) /\ t.flagged = x.flagged
        /\ t.executed = x.executed
        /\ \A j \in 1..Len(x.pending) :
             t.pending[j].domain = IF j = i \/ j \in Neighbours(x.pending, i)
                                   THEN LabelOf(x, i) ELSE x.pending[j].domain
        /\ t.list = IF Neighbours(x.pending, i) = {}
                    THEN PushFront(x.list, x.pending[i].id) ELSE x.list
    <3>1. LabelsNear(x, i, t)
      BY <1>1, <1>2, LabelStepEffect DEF t
    <3> QED
      BY <3>1 DEF LabelsNear
  <2> QED
    BY <1>3, <2>1
<1>5. SameParties(s.pending, t.pending)
  BY <1>1, <1>4 DEF SameParties
<1>6. LabelOf(x, i) # Unlabelled
  BY <1>2 DEF LabelOf, Unlabelled
<1>7. \A j \in 1..i : j = i \/ j \in 1..(i-1)
  BY <1>2
<1>8. \A j \in 1..i : j \in 1..Len(x.pending)
  BY <1>2
<1>9. \A j \in 1..i : t.pending[j].domain # Unlabelled
  BY <1>1, <1>4, <1>6, <1>7, <1>8
<1>10. s.pending[i].id \in ListIds /\ s.pending[i].id \in Ids(s.pending)
  <2>1. s.pending[i] \in Interactions
    BY <1>2
  <2>2. s.pending[i].id \in Ids(s.pending)
    BY <1>2, PendingAt
  <2> QED
    BY <2>1, <2>2 DEF Interactions, ListIds
<1>11. /\ Grown(x.list, t.list, Ids(s.pending))
       /\ near = {} => Listed(t.list, s.pending[i].id)
  <2>1. CASE near = {}
    <3>1. Grown(x.list, t.list, Ids(s.pending))
      BY <1>1, <1>2, <1>4, <1>10, <2>1, InsertGrows DEF PushFront, Grown
    <3>2. Listed(t.list, s.pending[i].id)
      <4>1. HEAD \notin ListIds /\ NodeExists(x.list, HEAD) /\ Distinct(x.list)
        BY <1>1 DEF HEAD, ListIds, NodeExists, Grown
      <4> QED
        BY <1>2, <1>4, <1>10, <2>1, <4>1, InsertAfterOrder DEF PushFront
    <3> QED
      BY <3>1, <3>2
  <2>2. CASE near # {}
    BY <1>1, <1>4, <2>2 DEF Grown
  <2> QED
    BY <2>1, <2>2
<1>12. Grown(s.list, t.list, Ids(s.pending))
  BY <1>1, <1>11 DEF Grown
<1>13. \A j \in 1..i : Neighbours(s.pending, j) = {} => Listed(t.list, s.pending[j].id)
  BY <1>1, <1>7, <1>11 DEF Grown, near
<1> QED
  BY <1>1, <1>4, <1>5, <1>9, <1>12, <1>13 DEF Labelled, t

\* generate_domains labels everything and lists what shares no party; in a round
\* that is labelled it does nothing (ConsensusContract.sol:60-95).
LEMMA GenerateDomainsLabels ==
  ASSUME NEW s \in Storages, Distinct(s.list)
  PROVE  IF s.domains = 0 THEN GenerateDomains(s) \in Labelled(s, Len(s.pending))
                          ELSE GenerateDomains(s) = s
<1> DEFINE n == Len(s.pending)
           S == [i \in 0..n |-> Labelled(s, i)]
<1>1. n \in Nat
  BY DEF Storages
<1>2. s \in Labelled(s, 0)
  BY DEF Labelled, SameParties, Grown
<1>3. s \in S[0]
  BY <1>1, <1>2
<1>4. ASSUME NEW i \in 1..n, NEW x \in S[i-1]
      PROVE  LabelStep(x, i) \in S[i]
  <2>1. i \in 0..n /\ i - 1 \in 0..n
    BY <1>1
  <2>2. x \in Labelled(s, i-1)
    BY <2>1
  <2>3. LabelStep(x, i) \in Labelled(s, i)
    BY <2>2, LabelStepLabels
  <2> QED
    BY <2>1, <2>3
<1> HIDE DEF S
<1>5. IF s.domains = 0 THEN GenerateDomains(s) \in S[n] ELSE GenerateDomains(s) = s
  BY <1>1, <1>3, <1>4, LabelLoop
<1> QED
  BY <1>1, <1>5 DEF S

-----------------------------------------------------------------------------
(* A conflict.                                                              *)

\* From s to t, a conflict in a domain has taken interactions out of the array,
\* and out of the list only such as have that domain.
Withdraws(s, domain, t) ==
  /\ Numbered(t.pending)
  /\ FromPending(s.pending, t.pending)
  /\ SubList(s.list, t.list)
  /\ \A a : Listed(s.list, a) /\ ~Listed(t.list, a) =>
       \E i \in 1..Len(s.pending) : s.pending[i].id = a /\ s.pending[i].domain = domain

\* The storage that iterations of the conflict branch may reach from s.
Dropped(s, domain) ==
  {t \in Storages : /\ Withdraws(s, domain, t)
                    /\ t.flagged = s.flagged /\ t.executed = s.executed}

\* An iteration of the conflict branch looks at one interaction and may delete
\* another (ConsensusContract.sol:139-145).
LEMMA DropStepDrops ==
  ASSUME NEW s \in Storages, NEW domain, NEW x \in Dropped(s, domain),
         NEW v \in Nat \ {0}, NEW j \in Nat \ {0}
  PROVE  DropStep(x, v, domain, j) \in Dropped(s, domain)
<1> DEFINE t == DropStep(x, v, domain, j)
<1>1. /\ x \in Storages /\ Withdraws(s, domain, x) /\ x.flagged = s.flagged
      /\ x.executed = s.executed
      /\ x.pending \in Seq(Interactions) /\ x.list \in Seq(ListIds) /\ Len(x.pending) \in Nat
      /\ s.pending \in Seq(Interactions)
  BY DEF Dropped, Storages
<1>2. t \in Storages
  BY <1>1, DropStepType
<1>3. \/ /\ t.pending = x.pending /\ t.list = x.list /\ t.flagged = x.flagged
         /\ t.executed = x.executed
      \/ /\ v \in 1..Len(x.pending) /\ j \in 1..Len(x.pending)
         /\ x.pending[v].domain = domain
         /\ t.list = RemoveNode(x.list, x.pending[v].id)
         /\ t.pending = removeInteraction(x.pending, j)
         /\ t.flagged = x.flagged /\ t.executed = x.executed
  BY <1>1 DEF DropStep, Storages
<1> HIDE DEF t
<1>4. CASE /\ t.pending = x.pending /\ t.list = x.list /\ t.flagged = x.flagged
           /\ t.executed = x.executed
  <2>1. Withdraws(s, domain, t)
    BY <1>1, <1>4 DEF Withdraws
  <2> QED
    BY <1>1, <1>2, <1>4, <2>1 DEF Dropped, t
<1>5. CASE /\ v \in 1..Len(x.pending) /\ j \in 1..Len(x.pending)
           /\ x.pending[v].domain = domain
           /\ t.list = RemoveNode(x.list, x.pending[v].id)
           /\ t.pending = removeInteraction(x.pending, j)
           /\ t.flagged = x.flagged /\ t.executed = x.executed
  <2> DEFINE id == x.pending[v].id
  <2> HIDE DEF id
  <2>1. /\ Numbered(x.pending) /\ FromPending(s.pending, x.pending)
        /\ SubList(s.list, x.list)
    BY <1>1 DEF Withdraws
  <2>2. Numbered(t.pending)
    BY <1>1, <1>5, <2>1, Removed DEF Others
  <2>3. FromPending(x.pending, t.pending)
    BY <1>1, <1>5, RemovedFrom
  <2>4. FromPending(s.pending, t.pending)
    BY <2>1, <2>3 DEF FromPending
  <2>5. /\ Distinct(t.list) /\ ~Listed(t.list, id)
        /\ \A a : Listed(t.list, a) => Listed(x.list, a)
        /\ \A a : Listed(x.list, a) /\ a # id => Listed(t.list, a)
        /\ \A a, b : Ahead(x.list, a, b) /\ a # id /\ b # id => Ahead(t.list, a, b)
    <3>1. HEAD \notin ListIds /\ Distinct(x.list)
      BY <2>1 DEF HEAD, ListIds, SubList
    <3>2. t.list = RemoveNode(x.list, id)
      BY <1>5 DEF id
    <3> QED
      BY <1>1, <3>1, <3>2, RemoveNodeOrder
  <2>6. SubList(s.list, t.list)
    BY <2>1, <2>5 DEF SubList
  <2>7. PICK k \in 1..Len(s.pending) : x.pending[v] = s.pending[k]
    BY <1>5, <2>1 DEF FromPending
  <2>8. s.pending[k].id = id /\ s.pending[k].domain = domain
    BY <1>5, <2>7 DEF id
  <2>9. ASSUME NEW a, Listed(s.list, a), ~Listed(t.list, a)
        PROVE  \E i \in 1..Len(s.pending) : s.pending[i].id = a /\ s.pending[i].domain = domain
    <3>1. CASE a = id
      BY <2>8, <3>1
    <3>2. CASE a # id
      BY <1>1, <2>5, <2>9, <3>2 DEF Withdraws
    <3> QED
      BY <3>1, <3>2
  <2>10. Withdraws(s, domain, t)
    BY <2>2, <2>4, <2>6, <2>9 DEF Withdraws
  <2> QED
    BY <1>1, <1>2, <1>5, <2>10 DEF Dropped, t
<1> QED
  BY <1>3, <1>4, <1>5

\* The whole branch withdraws what it takes from the list by flagging the domain
\* (ConsensusContract.sol:136-151).
LEMMA ConflictWithdraws ==
  ASSUME NEW s \in Storages, Numbered(s.pending), Distinct(s.list),
         NEW v \in Nat \ {0}, NEW domain \in Int
  PROVE  /\ Withdraws(s, domain, Conflict(s, v, domain))
         /\ Conflict(s, v, domain).flagged = s.flagged \cup {domain}
         /\ Conflict(s, v, domain).executed = s.executed
<1> DEFINE n == Len(s.pending)
           S == [i \in 0..n |-> Dropped(s, domain)]
           t == Conflict(s, v, domain)
<1>1. n \in Nat
  BY DEF Storages
<1>2. s \in S[0]
  <2>1. FromPending(s.pending, s.pending) /\ SubList(s.list, s.list)
    BY DEF FromPending, SubList
  <2>2. Withdraws(s, domain, s)
    BY <2>1 DEF Withdraws
  <2> QED
    BY <1>1, <2>2 DEF Dropped
<1>3. ASSUME NEW i \in 1..n, NEW x \in S[i-1]
      PROVE  DropStep(x, v, domain, i) \in S[i]
  <2>1. i \in 0..n /\ i - 1 \in 0..n /\ i \in Nat \ {0}
    BY <1>1
  <2>2. x \in Dropped(s, domain)
    BY <2>1
  <2>3. DropStep(x, v, domain, i) \in Dropped(s, domain)
    BY <2>1, <2>2, DropStepDrops
  <2> QED
    BY <2>1, <2>3
<1> HIDE DEF S
<1>4. PICK r \in S[n] : t = [r EXCEPT !.flagged = @ \cup {domain}]
  BY <1>1, <1>2, <1>3, DropLoop
<1> HIDE DEF t
<1>5. r \in Dropped(s, domain)
  BY <1>1, <1>4 DEF S
<1>6. r \in Storages /\ Withdraws(s, domain, r) /\ r.flagged = s.flagged
      /\ r.executed = s.executed
  BY <1>5 DEF Dropped
<1>7. t.pending = r.pending /\ t.list = r.list /\ t.flagged = s.flagged \cup {domain}
      /\ t.executed = s.executed
  BY <1>4, <1>6 DEF Storages
<1>8. Withdraws(s, domain, t)
  BY <1>6, <1>7 DEF Withdraws
<1> QED
  BY <1>7, <1>8 DEF t

\* What is still pending outside the flagged domains was not withdrawn, and two
\* such interactions are in the order they had.
LEMMA UnflaggedStay ==
  ASSUME NEW s \in Storages, Numbered(s.pending), NEW t \in Storages, NEW domain,
         Withdraws(s, domain, t), domain \in t.flagged,
         NEW a, NEW b, Ahead(s.list, a, b), Unflagged(t, a), Unflagged(t, b),
         Distinct(s.list)
  PROVE  Ahead(t.list, a, b)
<1>1. s.list \in Seq(ListIds) /\ DOMAIN t.pending = 1..Len(t.pending)
  BY DEF Storages
<1>2. Listed(s.list, a) /\ Listed(s.list, b)
  BY <1>1, AheadOrder
<1>3. ASSUME NEW c, Listed(s.list, c), Unflagged(t, c) PROVE Listed(t.list, c)
  <2> SUFFICES ASSUME ~Listed(t.list, c) PROVE FALSE
    OBVIOUS
  <2>1. PICK i \in 1..Len(s.pending) : s.pending[i].id = c /\ s.pending[i].domain = domain
    BY <1>3 DEF Withdraws
  <2>2. PICK k \in 1..Len(t.pending) : t.pending[k].id = c /\ t.pending[k].domain \notin t.flagged
    BY <1>1, <1>3 DEF Unflagged
  <2>3. PICK j \in 1..Len(s.pending) : t.pending[k] = s.pending[j]
    BY DEF Withdraws, FromPending
  <2>4. i = j
    BY <2>1, <2>2, <2>3 DEF Numbered
  <2> QED
    BY <2>1, <2>2, <2>3, <2>4
<1> QED
  BY <1>2, <1>3 DEF Withdraws, SubList

-----------------------------------------------------------------------------
(* Taking a vote.  R is what earlier votes of the round put in order.       *)

\* The pairs of the first i entries are those of the first i-1, and the others
\* before entry i.
LEMMA InVoteOrderStep ==
  ASSUME NEW vote \in Seq(ListIds), NEW i \in 1..Len(vote), NEW x \in InVoteOrder(vote, i)
  PROVE  x \in InVoteOrder(vote, i-1) \/ \E p \in 1..(i-1) : x = <<vote[p], vote[i]>>
<1>1. PICK p, q \in 1..i : p < q /\ x = <<vote[p], vote[q]>>
  BY DEF InVoteOrder
<1>2. i \in Nat /\ p \in 1..(i-1)
  BY <1>1
<1>3. CASE q = i
  BY <1>1, <1>2, <1>3
<1>4. CASE q # i
  <2>1. q \in 1..(i-1)
    BY <1>1, <1>2, <1>4
  <2> QED
    BY <1>1, <1>2, <2>1 DEF InVoteOrder
<1> QED
  BY <1>3, <1>4

\* Two entries of a vote, one before the other, are such a pair.
LEMMA InVoteOrderOf ==
  ASSUME NEW vote \in Seq(ListIds), NEW i \in 0..Len(vote), NEW p \in 1..i, NEW q \in 1..i, p < q
  PROVE  <<vote[p], vote[q]>> \in InVoteOrder(vote, i)
<1>1. DOMAIN vote = 1..Len(vote) /\ p \in 1..Len(vote) /\ q \in 1..Len(vote)
  OBVIOUS
<1>2. vote[p] \in ToSet(vote) /\ vote[q] \in ToSet(vote)
  BY <1>1 DEF ToSet
<1> QED
  BY <1>2 DEF InVoteOrder

\* The first i entries were taken without a conflict: the anchor is the last of
\* them, and they follow one another in the list, between what was there.
Taking(s, R, vote, i, b) ==
  /\ b.s.pending = s.pending /\ b.s.flagged = s.flagged /\ b.s.executed = s.executed
  /\ b.taken = i
  /\ Grown(s.list, b.s.list, Ids(s.pending))
  /\ b.anchor = IF i = 0 THEN HEAD ELSE vote[i]
  /\ i # 0 => Listed(b.s.list, vote[i])
  /\ Respects(b.s.list, R)
  /\ Respects(b.s.list, InVoteOrder(vote, i))

\* The pairs of R on which no conflict has a hold are in order in the list.
Spares(s, R) == \A x \in R : Unflagged(s, x[1]) /\ Unflagged(s, x[2]) => Ahead(s.list, x[1], x[2])

\* A conflict broke off the vote after b.taken entries.
BrokenOff(s, R, vote, b) ==
  /\ Numbered(b.s.pending) /\ FromPending(s.pending, b.s.pending)
  /\ Distinct(b.s.list)
  /\ b.s.flagged # {} /\ b.s.executed = s.executed
  /\ Spares(b.s, R)
  /\ Spares(b.s, InVoteOrder(vote, b.taken))

\* What i iterations of the vote may lead to, when the transaction commits.
Merging(s, R, vote, i) ==
  {b \in Merges : b.s.ok => IF b.broken THEN BrokenOff(s, R, vote, b)
                                        ELSE Taking(s, R, vote, i, b)}

\* An entry that meets no conflict is put behind the one before it, wherever it
\* was or was not in the list (ConsensusContract.sol:152-157).
LEMMA TakeEntry ==
  ASSUME NEW s \in Storages, NEW R, NEW vote \in Seq(ListIds), NEW i \in 1..Len(vote),
         NEW b \in Merges, Taking(s, R, vote, i-1, b),
         vote[i] \in Ids(s.pending),
         ~(Listed(b.s.list, vote[i]) /\ ~is_after(b.s.list, b.anchor, vote[i])),
         NEW c, c.s.pending = b.s.pending, c.s.flagged = b.s.flagged,
         c.s.executed = b.s.executed,
         c.s.list = InsertAfter(b.s.list, b.anchor, vote[i]), c.anchor = vote[i], c.taken = i
  PROVE  Taking(s, R, vote, i, c)
<1> DEFINE id == vote[i]
           l == b.s.list
           m == c.s.list
<1>1. /\ l \in Seq(ListIds) /\ id \in ListIds /\ i \in Nat /\ i - 1 \in 0..Len(vote)
      /\ Distinct(l) /\ HEAD \notin ListIds
  <2>1. b.s \in Storages
    BY DEF Merges
  <2>2. l \in Seq(ListIds)
    BY <2>1 DEF Storages
  <2>3. Distinct(l)
    BY DEF Taking, Grown
  <2>4. HEAD \notin ListIds
    BY DEF ListIds, HEAD
  <2>5. id \in ListIds /\ i \in Nat /\ i - 1 \in 0..Len(vote)
    OBVIOUS
  <2> QED
    BY <2>2, <2>3, <2>4, <2>5
<1>2. Grown(l, m, Ids(s.pending))
  BY <1>1, InsertGrows
<1>3. Grown(s.list, m, Ids(s.pending))
  BY <1>2 DEF Taking, Grown
<1> HIDE DEF id, l, m
<1>4. NodeExists(l, b.anchor) /\ (i # 1 => Listed(l, b.anchor) /\ b.anchor = vote[i-1])
  <2>1. CASE i = 1
    BY <2>1 DEF Taking, NodeExists
  <2>2. CASE i # 1
    <3>1. i - 1 # 0
      BY <1>1, <2>2
    <3> QED
      BY <3>1 DEF Taking, NodeExists, l
  <2> QED
    BY <2>1, <2>2
<1>5. /\ Listed(m, id)
      /\ Listed(l, b.anchor) /\ ~Listed(l, id) => Ahead(m, b.anchor, id)
  <2>1. m = InsertAfter(l, b.anchor, id)
    BY DEF m, l, id
  <2> QED
    BY <1>1, <1>4, <2>1, InsertAfterOrder
<1>6. i # 1 => Ahead(m, vote[i-1], id)
  <2> SUFFICES ASSUME i # 1 PROVE Ahead(m, b.anchor, id)
    BY <1>4
  <2>1. CASE ~Listed(l, id)
    BY <1>4, <1>5, <2>1
  <2>2. CASE Listed(l, id)
    <3>1. Pos(l, b.anchor) < Pos(l, id)
      BY <2>2 DEF is_after, l, id
    <3>2. Ahead(l, b.anchor, id)
      BY <1>1, <1>4, <2>2, <3>1, AheadPos
    <3> QED
      BY <1>2, <3>2 DEF Grown
  <2> QED
    BY <2>1, <2>2
<1>7. Respects(m, R) /\ Respects(m, InVoteOrder(vote, i-1))
  BY <1>2 DEF Taking, Respects, Grown, l
<1>8. Respects(m, InVoteOrder(vote, i))
  <2> SUFFICES ASSUME NEW x \in InVoteOrder(vote, i)
               PROVE  Ahead(m, x[1], x[2])
    BY DEF Respects
  <2>1. CASE x \in InVoteOrder(vote, i-1)
    BY <1>7, <2>1 DEF Respects
  <2>2. ASSUME NEW p \in 1..(i-1), x = <<vote[p], vote[i]>>
        PROVE  Ahead(m, x[1], x[2])
    <3>0. x[1] = vote[p] /\ x[2] = id /\ i # 1
      BY <1>1, <2>2 DEF id
    <3>1. CASE p = i - 1
      BY <1>6, <3>0, <3>1
    <3>2. CASE p # i - 1
      <4>1. <<vote[p], vote[i-1]>> \in InVoteOrder(vote, i-1)
        <5>1. i - 1 \in 1..(i-1) /\ p < i - 1
          BY <1>1, <3>0, <3>2
        <5> QED
          BY <1>1, <5>1, InVoteOrderOf
      <4>2. Ahead(m, vote[p], vote[i-1])
        BY <1>7, <4>1 DEF Respects
      <4>3. m \in Seq(ListIds) /\ Distinct(m)
        <5>1. m = InsertAfter(l, b.anchor, id)
          BY DEF m, l, id
        <5> QED
          BY <1>1, <1>2, <5>1, InsertAfterType DEF Grown
      <4> QED
        BY <1>6, <3>0, <4>2, <4>3, AheadOrder
    <3> QED
      BY <3>1, <3>2
  <2> QED
    BY <2>1, <2>2, InVoteOrderStep
<1>9. (i = 0) = FALSE
  BY <1>1
<1> QED
  BY <1>3, <1>5, <1>7, <1>8, <1>9 DEF Taking, m, id

\* An entry that meets one breaks the vote off (ConsensusContract.sol:136-151).
LEMMA BreakOff ==
  ASSUME NEW s \in Storages, Numbered(s.pending), NEW R, NEW vote \in Seq(ListIds),
         NEW i \in 1..Len(vote), NEW b \in Merges, Taking(s, R, vote, i-1, b),
         NEW domain \in Int, NEW c, c.s = Conflict(b.s, i, domain), c.taken = b.taken
  PROVE  BrokenOff(s, R, vote, c)
<1> DEFINE x == b.s
           t == c.s
<1>1. /\ x \in Storages /\ x.pending = s.pending /\ x.executed = s.executed
      /\ Distinct(x.list) /\ i \in Nat \ {0}
  BY DEF Merges, Taking, Grown
<1>2. t = Conflict(x, i, domain)
  OBVIOUS
<1> HIDE DEF x, t
<1>3. t \in Storages /\ Withdraws(x, domain, t) /\ t.flagged = x.flagged \cup {domain}
      /\ t.executed = x.executed
  BY <1>1, <1>2, ConflictType, ConflictWithdraws
<1>4. Respects(x.list, R) /\ Respects(x.list, InVoteOrder(vote, c.taken))
  BY DEF Taking, x
<1>5. ASSUME NEW Q, Respects(x.list, Q) PROVE Spares(t, Q)
  <2> SUFFICES ASSUME NEW q \in Q, Unflagged(t, q[1]), Unflagged(t, q[2])
               PROVE  Ahead(t.list, q[1], q[2])
    BY DEF Spares
  <2>1. Ahead(x.list, q[1], q[2])
    BY <1>5 DEF Respects
  <2>2. domain \in t.flagged
    BY <1>3
  <2> QED
    BY <1>1, <1>3, <2>1, <2>2, UnflaggedStay
<1>6. Numbered(t.pending) /\ FromPending(s.pending, t.pending) /\ Distinct(t.list)
  BY <1>1, <1>3 DEF Withdraws, SubList
<1> QED
  BY <1>1, <1>3, <1>4, <1>5, <1>6 DEF BrokenOff, t

\* An iteration over the vote (ConsensusContract.sol:128-158).
LEMMA VoteStepMerges ==
  ASSUME NEW s \in Storages, Numbered(s.pending), NEW R, NEW orderer,
         NEW vote \in Seq(ListIds), NEW i \in 1..Len(vote), NEW b \in Merging(s, R, vote, i-1)
  PROVE  VoteStep(b, orderer, vote, i) \in Merging(s, R, vote, i)
<1> DEFINE id == vote[i]
           p == b.s.pending[IndexOf(b.s.pending, id)]
           c == VoteStep(b, orderer, vote, i)
<1>1. /\ b \in Merges /\ b.s \in Storages
      /\ b.s.ok => IF b.broken THEN BrokenOff(s, R, vote, b) ELSE Taking(s, R, vote, i-1, b)
  BY DEF Merging, Merges
<1>2. c \in Merges
  BY <1>1, VoteStepType
<1> HIDE DEF id, p, c
<1>3. CASE b.broken \/ ~b.s.ok
  <2>1. c = b
    BY <1>3 DEF VoteStep, c
  <2> QED
    BY <1>1, <1>3, <2>1 DEF Merging, c
<1>4. CASE ~b.broken /\ b.s.ok
  <2>1. Taking(s, R, vote, i-1, b)
    BY <1>1, <1>4
  <2>2. CASE id \notin Ids(b.s.pending) \/ orderer \notin Involved(p)
    <3>1. c = [b EXCEPT !.s.ok = FALSE]
      BY <1>4, <2>2 DEF VoteStep, c, id, p
    <3>2. ~c.s.ok
      BY <1>1, <3>1 DEF Merges, Storages
    <3> QED
      BY <1>2, <3>2 DEF Merging, c
  <2>3. CASE /\ ~(id \notin Ids(b.s.pending) \/ orderer \notin Involved(p))
             /\ Listed(b.s.list, id) /\ ~is_after(b.s.list, b.anchor, id)
    <3>1. c = [b EXCEPT !.s = Conflict(b.s, i, p.domain), !.broken = TRUE]
      BY <1>4, <2>3 DEF VoteStep, c, id, p
    <3>2. c.s = Conflict(b.s, i, p.domain) /\ c.taken = b.taken /\ c.broken
      BY <1>1, <3>1 DEF Merges
    <3>3. p \in Interactions
      <4>1. b.s.pending \in Seq(Interactions)
        BY <1>1 DEF Storages
      <4> QED
        BY <2>3, <4>1, IndexOfPending DEF p
    <3>4. p.domain \in Int
      BY <3>3 DEF Interactions
    <3>5. BrokenOff(s, R, vote, c)
      BY <1>1, <2>1, <3>2, <3>4, BreakOff
    <3> QED
      BY <1>2, <3>2, <3>5 DEF Merging, c
  <2>4. CASE /\ ~(id \notin Ids(b.s.pending) \/ orderer \notin Involved(p))
             /\ ~(Listed(b.s.list, id) /\ ~is_after(b.s.list, b.anchor, id))
    <3>1. c = [b EXCEPT !.s.list = InsertAfter(b.s.list, b.anchor, id),
                        !.anchor = id, !.taken = i]
      BY <1>4, <2>4 DEF VoteStep, c, id, p
    <3>2. /\ c.s.pending = b.s.pending /\ c.s.flagged = b.s.flagged
          /\ c.s.executed = b.s.executed /\ c.s.list = InsertAfter(b.s.list, b.anchor, id)
          /\ c.anchor = id /\ c.taken = i /\ c.broken = b.broken
      BY <1>1, <3>1 DEF Merges, Storages
    <3>3. id \in Ids(s.pending)
      BY <2>1, <2>4 DEF Taking
    <3>4. Taking(s, R, vote, i, c)
      BY <1>1, <2>1, <2>4, <3>2, <3>3, TakeEntry DEF id
    <3> QED
      BY <1>2, <1>4, <3>2, <3>4 DEF Merging, c
  <2> QED
    BY <2>2, <2>3, <2>4
<1> QED
  BY <1>3, <1>4

\* The whole vote (ConsensusContract.sol:128-158).
LEMMA VoteMerges ==
  ASSUME NEW s \in Storages, Numbered(s.pending), Distinct(s.list), NEW R,
         Respects(s.list, R), NEW orderer, NEW vote \in Seq(ListIds)
  PROVE  Vote(s, orderer, vote) \in Merging(s, R, vote, Len(vote))
<1> DEFINE n == Len(vote)
           S == [i \in 0..n |-> Merging(s, R, vote, i)]
           init == [s |-> s, anchor |-> HEAD, taken |-> 0, broken |-> FALSE]
<1>1. n \in Nat
  OBVIOUS
<1>2. init \in S[0]
  <2>1. init \in Merges
    BY DEF Merges, HEAD
  <2>2. InVoteOrder(vote, 0) = {}
    BY DEF InVoteOrder
  <2>3. Grown(s.list, s.list, Ids(s.pending))
    BY DEF Grown
  <2>4. Taking(s, R, vote, 0, init)
    BY <2>2, <2>3 DEF Taking, Respects
  <2>5. init \in Merging(s, R, vote, 0)
    BY <2>1, <2>4 DEF Merging
  <2> QED
    BY <1>1, <2>5
<1>3. ASSUME NEW i \in 1..n, NEW x \in S[i-1]
      PROVE  VoteStep(x, orderer, vote, i) \in S[i]
  <2>1. i \in 0..n /\ i - 1 \in 0..n
    BY <1>1
  <2>2. x \in Merging(s, R, vote, i-1)
    BY <2>1
  <2>3. VoteStep(x, orderer, vote, i) \in Merging(s, R, vote, i)
    BY <2>2, VoteStepMerges
  <2> QED
    BY <2>1, <2>3
<1> HIDE DEF S
<1>4. Vote(s, orderer, vote) \in S[n]
  BY <1>1, <1>2, <1>3, VoteLoop
<1> QED
  BY <1>1, <1>4 DEF S

-----------------------------------------------------------------------------
(* The invariant.                                                           *)

\* Two interactions that votes ordered are in that order, if both are listed ...
OrderKept ==
  \A x \in precedes : Listed(list, x[1]) /\ Listed(list, x[2]) => Ahead(list, x[1], x[2])

\* ... and both are, as long as the round is open.
RoundOrdered == index_block # 0 => Respects(list, precedes)

\* A round starts its labels from zero with its first vote ...
LabelsStart == vote_count = 0 => domain_count = 0

\* ... which labels everything that is pending.
AllLabelled(pending) == \A i \in 1..Len(pending) : pending[i].domain # Unlabelled

\* The ids that are pending without sharing a party with another interaction
\* are listed.
LoneListed(pending, l) ==
  \A i \in 1..Len(pending) : Neighbours(pending, i) = {} => Listed(l, pending[i].id)

\* Everything together.
MergeInv ==
  /\ WaitInv /\ LastVoteAhead
  /\ Distinct(list) /\ ListedArePending
  /\ OrderKept /\ RoundOrdered
  /\ LabelsStart
  /\ vote_count > 0 => AllLabelled(pending_interactions)
  /\ vote_count > 0 /\ pending_domains = {} => LoneListed(pending_interactions, list)

\* Storage as it is when the labels are given and as each vote leaves it.
Mergeable(s) ==
  /\ s \in Storages
  /\ Numbered(s.pending) /\ Distinct(s.list)
  /\ AllLabelled(s.pending)
  /\ s.flagged = {} => ToSet(s.list) \subseteq Ids(s.pending)
  /\ s.flagged = {} => LoneListed(s.pending, s.list)
  /\ s.executed = executed

\* The first vote of a round finds no label given, the others all of them: in
\* either case everything is labelled before the vote is looked at, and what
\* votes have ordered keeps its order (ConsensusContract.sol:60-95, 127).
LEMMA LabelsGiven ==
  ASSUME MergeInv
  PROVE  /\ Mergeable(GenerateDomains(Storage))
         /\ \A R : Respects(list, R) => Respects(GenerateDomains(Storage).list, R)
<1> DEFINE s == Storage
           g == GenerateDomains(s)
<1>1. /\ s \in Storages /\ s.pending = pending_interactions /\ s.list = list
      /\ s.flagged = pending_domains /\ s.domains = domain_count /\ s.executed = executed
  BY StorageType DEF MergeInv, WaitInv, Storage
<1>2. /\ Numbered(s.pending) /\ Distinct(s.list)
      /\ s.flagged = {} => ToSet(s.list) \subseteq Ids(s.pending)
  BY <1>1 DEF MergeInv, WaitInv, ListedArePending
<1> HIDE DEF s, g
<1>3. IF s.domains = 0 THEN g \in Labelled(s, Len(s.pending)) ELSE g = s
  BY <1>1, <1>2, GenerateDomainsLabels DEF g
<1>4. CASE s.domains = 0
  <2>1. /\ g \in Storages /\ SameParties(s.pending, g.pending)
        /\ g.flagged = s.flagged /\ g.executed = s.executed
        /\ Grown(s.list, g.list, Ids(s.pending))
        /\ \A j \in 1..Len(s.pending) : g.pending[j].domain # Unlabelled
        /\ \A j \in 1..Len(s.pending) :
             Neighbours(s.pending, j) = {} => Listed(g.list, s.pending[j].id)
    BY <1>3, <1>4 DEF Labelled
  <2>2. /\ s.pending \in Seq(Interactions) /\ g.pending \in Seq(Interactions)
    BY <1>1, <2>1 DEF Storages
  <2>3. /\ \A i \in 1..Len(s.pending) : Neighbours(g.pending, i) = Neighbours(s.pending, i)
        /\ Ids(g.pending) = Ids(s.pending)
    BY <2>1, <2>2, SameNeighbours
  <2>4. Numbered(g.pending) /\ AllLabelled(g.pending) /\ LoneListed(g.pending, g.list)
    BY <1>2, <2>1, <2>3 DEF SameParties, Numbered, AllLabelled, LoneListed
  <2>5. s.flagged = {} => ToSet(g.list) \subseteq Ids(g.pending)
    BY <1>2, <2>1, <2>3 DEF Grown, Listed
  <2>6. \A R : Respects(s.list, R) => Respects(g.list, R)
    BY <2>1 DEF Grown, Respects
  <2> QED
    BY <1>1, <2>1, <2>4, <2>5, <2>6 DEF Mergeable, Grown, g, s
<1>5. CASE s.domains # 0
  <2>1. vote_count > 0
    BY <1>1, <1>5 DEF MergeInv, LabelsStart, WaitInv, TypeOK
  <2>2. g = s
    BY <1>3, <1>5
  <2>3. AllLabelled(s.pending) /\ (s.flagged = {} => LoneListed(s.pending, s.list))
    BY <1>1, <2>1 DEF MergeInv
  <2>4. Mergeable(s)
    BY <1>1, <1>2, <2>3 DEF Mergeable
  <2> QED
    BY <1>1, <2>2, <2>4 DEF g, s
<1> QED
  BY <1>4, <1>5

\* A vote that is accepted leaves storage like that, conflict or not, and the
\* list in an order that agrees with it and with the votes before it
\* (ConsensusContract.sol:120-158).
LEMMA VoteTaken ==
  ASSUME MergeInv, NEW orderer \in Addresses, NEW vote \in Votes,
         order_interactions(orderer, vote)
  PROVE  \E s : /\ Mergeable(s)
                /\ Respects(s.list, precedes')
                /\ IF vote_count + 1 = orderers_count THEN CloseRound(s) ELSE KeepRound(s)
<1> DEFINE g == GenerateDomains(Storage)
           b == Vote(g, orderer, vote)
           s == b.s
<1>1. /\ canVote(orderer) /\ s.ok
      /\ IF vote_count + 1 = orderers_count THEN CloseRound(s) ELSE KeepRound(s)
      /\ precedes' = {x \in precedes \cup InVoteOrder(vote, b.taken) :
                        Unflagged(s, x[1]) /\ Unflagged(s, x[2])}
  BY DEF order_interactions
<1> HIDE DEF g, b, s
<1>2. vote \in Seq(ListIds)
  BY VotesType DEF MergeInv, WaitInv
<1>3. Mergeable(g) /\ Respects(g.list, precedes)
  <2>1. index_block # 0
    BY <1>1 DEF canVote, WindowClosed
  <2>2. Respects(list, precedes)
    BY <2>1 DEF MergeInv, RoundOrdered
  <2> QED
    BY <2>2, LabelsGiven DEF g
<1>4. b \in Merging(g, precedes, vote, Len(vote))
  BY <1>2, <1>3, VoteMerges DEF Mergeable, b
<1>5. s \in Storages /\ b \in Merges
  BY <1>4 DEF Merging, Merges, s
<1>6. CASE b.broken
  <2>1. BrokenOff(g, precedes, vote, b)
    BY <1>1, <1>4, <1>6 DEF Merging, s
  <2>2. AllLabelled(s.pending)
    BY <1>3, <2>1 DEF Mergeable, BrokenOff, FromPending, AllLabelled, s
  <2>3. Mergeable(s)
    BY <1>3, <1>5, <2>1, <2>2 DEF Mergeable, BrokenOff, s
  <2>4. Respects(s.list, precedes')
    BY <1>1, <2>1 DEF Respects, BrokenOff, Spares, s
  <2> QED
    BY <1>1, <2>3, <2>4
<1>7. CASE ~b.broken
  <2>1. Taking(g, precedes, vote, Len(vote), b)
    BY <1>1, <1>4, <1>7 DEF Merging, s
  <2>2. /\ s.pending = g.pending /\ s.flagged = g.flagged /\ s.executed = g.executed
        /\ Grown(g.list, s.list, Ids(g.pending)) /\ b.taken = Len(vote)
        /\ Respects(s.list, precedes) /\ Respects(s.list, InVoteOrder(vote, b.taken))
    BY <2>1 DEF Taking, s
  <2>3. s.flagged = {} => ToSet(s.list) \subseteq Ids(s.pending)
    BY <1>3, <2>2 DEF Mergeable, Grown, Listed
  <2>4. s.flagged = {} => LoneListed(s.pending, s.list)
    BY <1>3, <2>2 DEF Mergeable, Grown, LoneListed
  <2>5. Mergeable(s)
    BY <1>3, <1>5, <2>2, <2>3, <2>4 DEF Mergeable, Grown
  <2>6. Respects(s.list, precedes')
    BY <1>1, <2>2 DEF Respects
  <2> QED
    BY <1>1, <2>5, <2>6
<1> QED
  BY <1>6, <1>7

\* When a round is closed, the list executes in its order, and what it leaves in
\* the list is pending although the flags are cleared (ConsensusContract.sol:168-199).
LEMMA ListExecuted ==
  ASSUME NEW s, Mergeable(s), CloseRound(s), TypeOK
  PROVE  /\ SubList(s.list, list')
         /\ ToSet(list') \subseteq Ids(pending_interactions')
         /\ \A i, j \in 1..Len(Batch) : i < j => Ahead(s.list, Batch[i], Batch[j])
         /\ DOMAIN Batch = 1..Len(Batch)
<1> DEFINE n == Len(s.list)
           done == Execute(s)
<1>1. s \in Storages /\ Numbered(s.pending) /\ Distinct(s.list) /\ s.executed = executed
  BY DEF Mergeable
<1>2. done \in Walked(s, n)
  BY <1>1, ExecuteWalks
<1>3. /\ done.ok /\ pending_interactions' = done.pending /\ list' = done.list
      /\ executed' = done.executed
  BY DEF CloseRound
<1> HIDE DEF done
<1>4. /\ done \in Storages /\ Extends(s, done) /\ SubList(s.list, done.list)
      /\ LeftPending(s, done, n) /\ InListOrder(s, done, n)
  BY <1>2 DEF Walked
<1>5. ToSet(list') \subseteq Ids(pending_interactions')
  <2> SUFFICES ASSUME NEW a, Listed(list', a) PROVE a \in Ids(pending_interactions')
    BY DEF Listed
  <2>1. Listed(s.list, a)
    BY <1>3, <1>4 DEF SubList
  <2>2. PICK i \in 1..n : s.list[i] = a
    BY <1>1, <2>1, ListedAt DEF Storages
  <2> QED
    BY <1>3, <1>4, <2>2 DEF LeftPending
<1>6. /\ executed \in Seq(ListIds) /\ executed' \in Seq(ListIds)
      /\ Len(executed) \in Nat /\ Len(executed') \in Nat /\ Len(executed) <= Len(executed')
  BY <1>1, <1>3, <1>4 DEF Storages, Extends
<1> DEFINE k == Len(executed)
<1>7. /\ DOMAIN Batch = 1..(Len(executed') - k) /\ Len(Batch) = Len(executed') - k
      /\ \A i \in 1..(Len(executed') - k) : Batch[i] = executed'[k + i]
  BY <1>6 DEF Batch
<1>8. ASSUME NEW i \in 1..Len(Batch), NEW j \in 1..Len(Batch), i < j
      PROVE  Ahead(s.list, Batch[i], Batch[j])
  <2>1. New(s, done) = (k + 1)..Len(executed')
    BY <1>1, <1>3 DEF New
  <2>2. k + i \in New(s, done) /\ k + j \in New(s, done) /\ k + i < k + j
    BY <1>6, <1>7, <1>8, <2>1
  <2>3. Ahead(s.list, done.executed[k+i], done.executed[k+j])
    BY <1>4, <2>2 DEF InListOrder
  <2> QED
    BY <1>3, <1>7, <2>3
<1> QED
  BY <1>3, <1>4, <1>5, <1>7, <1>8

\* Closing a round leaves the invariant, whoever closes it.
LEMMA CloseKeeps ==
  ASSUME MergeInv, WaitInv', LastVoteAhead', NEW s, Mergeable(s),
         Respects(s.list, precedes'), CloseRound(s)
  PROVE  MergeInv'
<1>1. SubList(s.list, list') /\ ToSet(list') \subseteq Ids(pending_interactions')
  BY ListExecuted DEF MergeInv, WaitInv
<1>2. vote_count' = 0 /\ index_block' = 0 /\ domain_count' = 0
  BY DEF CloseRound
<1>3. OrderKept'
  BY <1>1 DEF OrderKept, SubList, Respects
<1> QED
  BY <1>1, <1>2, <1>3 DEF MergeInv, SubList, ListedArePending, RoundOrdered, LabelsStart

\* A vote that is not the last leaves the round as it found it.
LEMMA KeepKeeps ==
  ASSUME MergeInv, WaitInv', LastVoteAhead', NEW s, Mergeable(s),
         Respects(s.list, precedes'), KeepRound(s)
  PROVE  MergeInv'
<1>1. /\ pending_interactions' = s.pending /\ list' = s.list
      /\ pending_domains' = s.flagged /\ vote_count' = vote_count + 1
  BY DEF KeepRound
<1>2. vote_count \in Nat
  BY DEF MergeInv, WaitInv, TypeOK
<1>3. OrderKept' /\ RoundOrdered'
  BY <1>1 DEF OrderKept, RoundOrdered, Respects
<1> QED
  BY <1>1, <1>2, <1>3 DEF MergeInv, Mergeable, ListedArePending, LabelsStart

\* A submission is made while nothing is labelled; what it adds is not listed
\* (ConsensusContract.sol:43-58).
LEMMA SubmitKeepsMerged ==
  ASSUME MergeInv, WaitInv', LastVoteAhead', NEW sender \in Addresses,
         NEW inst \in InstanceIds, NEW task \in Tasks,
         submit_interaction(sender, inst, task)
  PROVE  MergeInv'
<1>1. vote_count = 0
  BY NoVoteInTheWindow DEF MergeInv, WaitInv
<1>2. /\ UNCHANGED <<vote_count, domain_count, pending_domains, list>>
      /\ precedes' = IF index_block = 0 THEN {} ELSE precedes
  BY DEF submit_interaction
<1>3. ListedArePending'
  <2>1. /\ pending_interactions \in Seq(Interactions)
        /\ pending_interactions' \in Seq(Interactions)
    BY DEF MergeInv, WaitInv, TypeOK
  <2>2. PICK p : pending_interactions' = Append(pending_interactions, p)
    BY DEF submit_interaction
  <2>3. /\ Len(pending_interactions') = Len(pending_interactions) + 1
        /\ \A i \in 1..Len(pending_interactions) :
             pending_interactions'[i] = pending_interactions[i]
    BY <2>1, <2>2
  <2>4. ASSUME NEW a \in Ids(pending_interactions)
        PROVE  a \in Ids(pending_interactions')
    <3>1. PICK i \in 1..Len(pending_interactions) : pending_interactions[i].id = a
      BY <2>1, PendingAt
    <3>2. i \in 1..Len(pending_interactions') /\ pending_interactions'[i].id = a
      BY <2>1, <2>3, <3>1
    <3> QED
      BY <2>1, <3>2, PendingAt
  <2> QED
    BY <1>2, <2>4 DEF ListedArePending, MergeInv
<1>4. OrderKept' /\ RoundOrdered'
  BY <1>2 DEF MergeInv, OrderKept, RoundOrdered, Respects
<1> QED
  BY <1>1, <1>2, <1>3, <1>4 DEF MergeInv, LabelsStart

\* The invariant holds of the deployed contract.
LEMMA MergeInvInit == Init => MergeInv
<1> SUFFICES ASSUME Init PROVE MergeInv
  OBVIOUS
<1>1. WaitInv /\ LastVoteAhead
  BY WaitInvInit, RoundInvInit DEF RoundInv
<1>2. Len(list) = 0 /\ DOMAIN list = {}
  BY DEF Init
<1>3. ToSet(list) = {}
  BY <1>2 DEF ToSet
<1> QED
  BY <1>1, <1>2, <1>3 DEF Init, MergeInv, Distinct, ListedArePending, OrderKept, RoundOrdered,
                          Respects, LabelsStart

\* Every step of the contract keeps it.
LEMMA MergeInvNext == MergeInv /\ [Next]_vars => MergeInv'
<1> SUFFICES ASSUME MergeInv, [Next]_vars PROVE MergeInv'
  OBVIOUS
<1>1. WaitInv' /\ LastVoteAhead'
  BY WaitInvNext, RoundInvNext DEF MergeInv, WaitInv, RoundInv
<1>2. ASSUME NEW sender \in Addresses, NEW inst \in InstanceIds, NEW task \in Tasks,
             submit_interaction(sender, inst, task)
      PROVE  MergeInv'
  BY <1>1, <1>2, SubmitKeepsMerged
<1>3. ASSUME NEW orderer \in Addresses, NEW vote \in Votes, order_interactions(orderer, vote)
      PROVE  MergeInv'
  <2>1. PICK s : /\ Mergeable(s) /\ Respects(s.list, precedes')
                 /\ IF vote_count + 1 = orderers_count THEN CloseRound(s) ELSE KeepRound(s)
    BY <1>3, VoteTaken
  <2> QED
    BY <1>1, <2>1, CloseKeeps, KeepKeeps
<1>4. ASSUME release PROVE MergeInv'
  <2>1. /\ CloseRound(GenerateDomains(Storage)) /\ precedes' = precedes /\ index_block # 0
    BY <1>4 DEF release, isIsolate, WindowClosed
  <2>2. /\ Mergeable(GenerateDomains(Storage))
        /\ Respects(GenerateDomains(Storage).list, precedes')
    BY <2>1, LabelsGiven DEF MergeInv, RoundOrdered
  <2> QED
    BY <1>1, <2>1, <2>2, CloseKeeps
<1>5. CASE NextBlock \/ WorkflowCall \/ UNCHANGED vars
  <2>1. UNCHANGED contractVars
    BY <1>5 DEF NextBlock, WorkflowCall, vars
  <2> QED
    BY <1>1, <2>1 DEF contractVars, MergeInv, ListedArePending, OrderKept, RoundOrdered, LabelsStart
<1> QED
  BY <1>2, <1>3, <1>4, <1>5 DEF Next

-----------------------------------------------------------------------------
(* What follows.                                                            *)

\* Every id in the list is pending unless a conflict was flagged in the round, for
\* any rounds: execute_interactions cannot revert on an id that is gone
\* (ConsensusContract.sol:174) and block a round without conflict.
THEOREM OrderingListedPending == Spec => []ListedArePending
<1>1. MergeInv => ListedArePending
  BY DEF MergeInv
<1> QED
  BY <1>1, MergeInvInit, MergeInvNext, PTL DEF Spec

\* The merged list agrees with every vote accepted in the round on every pair that
\* no conflict withdrew, for any number of orderers and votes of any length
\* (ConsensusContract.sol:132-157).
THEOREM OrderingFollowsVotes == Spec => []ListFollowsVotes
<1>1. MergeInv => ListFollowsVotes
  <2> SUFFICES ASSUME MergeInv, NEW x \in precedes, Listed(list, x[1]), Listed(list, x[2])
               PROVE  Pos(list, x[1]) < Pos(list, x[2])
    BY DEF ListFollowsVotes
  <2>1. list \in Seq(ListIds) /\ HEAD \notin ListIds /\ Distinct(list)
    BY DEF MergeInv, WaitInv, TypeOK, ListIds, HEAD
  <2>2. Ahead(list, x[1], x[2])
    BY DEF MergeInv, OrderKept
  <2> QED
    BY <2>1, <2>2, AheadPos
<1> QED
  BY <1>1, MergeInvInit, MergeInvNext, PTL DEF Spec

\* What shares no party with another interaction needs no vote: it is in the list
\* from the first vote on, if there is no conflict (ConsensusContract.sol:92).
THEOREM OrderingListsIsolated == Spec => []IsolatedAreListed
<1>1. MergeInv => IsolatedAreListed
  <2> SUFFICES ASSUME MergeInv PROVE IsolatedAreListed
    OBVIOUS
  <2>1. DOMAIN pending_interactions = 1..Len(pending_interactions)
    BY WaitingTypes DEF MergeInv, WaitInv
  <2> QED
    BY <2>1 DEF MergeInv, LoneListed, IsolatedAreListed
<1> QED
  BY <1>1, MergeInvInit, MergeInvNext, PTL DEF Spec

\* What a step executes it executes in the order of the votes of its round, the
\* vote that closes the round included (ConsensusContract.sol:173-191).
THEOREM OrderingExecutesInOrder == Spec => BatchFollowsVotes
<1> DEFINE InOrder == \A i, j \in DOMAIN Batch : <<Batch[i], Batch[j]>> \in precedes' => i < j
<1>1. ASSUME MergeInv, executed' = executed PROVE InOrder
  <2>1. executed \in Seq(ListIds)
    BY <1>1 DEF MergeInv, WaitInv, TypeOK, ListIds
  <2>2. DOMAIN Batch = {}
    BY <1>1, <2>1 DEF Batch
  <2> QED
    BY <2>2
<1>2. ASSUME MergeInv, NEW s, Mergeable(s), Respects(s.list, precedes'), CloseRound(s)
      PROVE  InOrder
  <2> SUFFICES ASSUME NEW i \in DOMAIN Batch, NEW j \in DOMAIN Batch,
                      <<Batch[i], Batch[j]>> \in precedes', ~(i < j)
               PROVE  FALSE
    OBVIOUS
  <2>1. /\ \A p, q \in 1..Len(Batch) : p < q => Ahead(s.list, Batch[p], Batch[q])
        /\ DOMAIN Batch = 1..Len(Batch)
    BY <1>2, ListExecuted DEF MergeInv, WaitInv
  <2>2. Ahead(s.list, Batch[i], Batch[j])
    BY <1>2 DEF Respects
  <2>3. s.list \in Seq(ListIds) /\ Distinct(s.list)
    BY <1>2 DEF Mergeable, Storages
  <2>4. j < i \/ j = i
    BY <2>1
  <2>5. CASE j < i
    <3>1. Ahead(s.list, Batch[j], Batch[i])
      BY <2>1, <2>5
    <3> QED
      BY <2>2, <2>3, <3>1, AheadOrder
  <2>6. CASE j = i
    BY <2>2, <2>3, <2>6, AheadOrder
  <2> QED
    BY <2>4, <2>5, <2>6
<1> HIDE DEF InOrder
<1>3. ASSUME MergeInv, Next PROVE InOrder
  <2>1. CASE \E sender \in Addresses, inst \in InstanceIds, task \in Tasks :
               submit_interaction(sender, inst, task)
    BY <1>1, <1>3, <2>1 DEF submit_interaction
  <2>2. ASSUME NEW orderer \in Addresses, NEW vote \in Votes, order_interactions(orderer, vote)
        PROVE  InOrder
    <3>1. PICK s : /\ Mergeable(s) /\ Respects(s.list, precedes')
                   /\ IF vote_count + 1 = orderers_count THEN CloseRound(s) ELSE KeepRound(s)
      BY <1>3, <2>2, VoteTaken
    <3>2. CASE CloseRound(s)
      BY <1>2, <1>3, <3>1, <3>2
    <3>3. CASE KeepRound(s)
      BY <1>1, <1>3, <3>3 DEF KeepRound
    <3> QED
      BY <3>1, <3>2, <3>3
  <2>3. CASE release
    <3>1. /\ CloseRound(GenerateDomains(Storage)) /\ precedes' = precedes /\ index_block # 0
      BY <2>3 DEF release, isIsolate, WindowClosed
    <3>2. /\ Mergeable(GenerateDomains(Storage))
          /\ Respects(GenerateDomains(Storage).list, precedes')
      BY <1>3, <3>1, LabelsGiven DEF MergeInv, RoundOrdered
    <3> QED
      BY <1>2, <1>3, <3>1, <3>2
  <2>4. CASE NextBlock \/ WorkflowCall
    BY <1>1, <1>3, <2>4 DEF NextBlock, WorkflowCall, contractVars
  <2> QED
    BY <1>3, <2>1, <2>2, <2>3, <2>4 DEF Next
<1>4. MergeInv /\ [Next]_vars => [InOrder]_vars
  BY <1>3
<1> USE DEF InOrder
<1> QED
  BY <1>4, MergeInvInit, MergeInvNext, PTL DEF Spec, BatchFollowsVotes

-----------------------------------------------------------------------------
(* The labels of groups that share no party.                                *)

\* A group of interactions that shares no party with one outside it.
Closed(pending, group) == \A i \in group : Neighbours(pending, i) \subseteq group

\* The storage that i iterations of generate_domains may reach from s, of which
\* no label joins the group with the rest.
KeptApart(s, group, i) ==
  {t \in Storages :
     /\ SameParties(s.pending, t.pending)
     /\ \A j \in 1..Len(s.pending) : t.pending[j].domain \in -1..(t.domains - 1)
     /\ \A j \in 1..i : t.pending[j].domain # Unlabelled
     /\ \A j \in group, k \in (1..Len(s.pending)) \ group :
          t.pending[j].domain = t.pending[k].domain => t.pending[j].domain = Unlabelled}

\* Sharing a party is mutual.
LEMMA NeighboursMutual ==
  ASSUME NEW p \in Seq(Interactions), NEW i \in 1..Len(p), NEW j \in Neighbours(p, i)
  PROVE  j \in 1..Len(p) /\ i \in Neighbours(p, j)
<1>1. DOMAIN p = 1..Len(p)
  OBVIOUS
<1> QED
  BY <1>1 DEF Neighbours

\* An iteration hands a label on to one side only, be it new or already there
\* (ConsensusContract.sol:61-93).
LEMMA LabelStepKeepsApart ==
  ASSUME NEW s \in Storages, NEW group \in SUBSET (1..Len(s.pending)), Closed(s.pending, group),
         NEW i \in 1..Len(s.pending), NEW x \in KeptApart(s, group, i-1)
  PROVE  LabelStep(x, i) \in KeptApart(s, group, i)
<1> DEFINE t == LabelStep(x, i)
           near == Neighbours(s.pending, i)
           label == LabelOf(x, i)
           rest == (1..Len(s.pending)) \ group
<1>1. /\ x \in Storages /\ SameParties(s.pending, x.pending)
      /\ \A j \in 1..Len(s.pending) : x.pending[j].domain \in -1..(x.domains - 1)
      /\ \A j \in 1..(i-1) : x.pending[j].domain # Unlabelled
      /\ \A j \in group, k \in rest :
           x.pending[j].domain = x.pending[k].domain => x.pending[j].domain = Unlabelled
  BY DEF KeptApart
<1>2. /\ s.pending \in Seq(Interactions) /\ x.pending \in Seq(Interactions)
      /\ Len(x.pending) = Len(s.pending) /\ Len(s.pending) \in Nat /\ x.domains \in Nat
  BY <1>1 DEF Storages, SameParties
<1> HIDE DEF t, near, label, rest
<1>3. /\ t \in Storages /\ SameParties(x.pending, t.pending)
      /\ \A j \in 1..Len(s.pending) :
           t.pending[j].domain = IF j = i \/ j \in near THEN label ELSE x.pending[j].domain
      /\ t.domains = IF x.pending[i].domain = Unlabelled THEN x.domains + 1 ELSE x.domains
  <2>1. LabelsNear(x, i, t)
    BY <1>1, <1>2, LabelStepEffect DEF t
  <2>2. Neighbours(x.pending, i) = near
    BY <1>1, <1>2, SameNeighbours DEF near
  <2> QED
    BY <1>2, <2>1, <2>2 DEF LabelsNear, label
<1>4. SameParties(s.pending, t.pending)
  BY <1>1, <1>3 DEF SameParties
<1>5. /\ label \in 0..(t.domains - 1)
      /\ x.domains <= t.domains /\ t.domains \in Nat
  BY <1>1, <1>2, <1>3 DEF label, LabelOf, Unlabelled
<1>6. \A j \in 1..Len(s.pending) : t.pending[j].domain \in -1..(t.domains - 1)
  <2> SUFFICES ASSUME NEW j \in 1..Len(s.pending)
               PROVE  t.pending[j].domain \in -1..(t.domains - 1)
    OBVIOUS
  <2>1. x.pending[j].domain \in -1..(x.domains - 1)
    BY <1>1
  <2>2. x.pending[j].domain \in -1..(t.domains - 1) /\ label \in -1..(t.domains - 1)
    BY <1>2, <1>5, <2>1
  <2>3. t.pending[j].domain \in {x.pending[j].domain, label}
    BY <1>3
  <2> QED
    BY <2>2, <2>3
<1>7. \A j \in 1..i : t.pending[j].domain # Unlabelled
  <2> SUFFICES ASSUME NEW j \in 1..i PROVE t.pending[j].domain # Unlabelled
    OBVIOUS
  <2>1. j \in 1..Len(s.pending) /\ (j = i \/ j \in 1..(i-1))
    BY <1>2
  <2>2. label # Unlabelled
    BY <1>2, <1>5 DEF Unlabelled
  <2> QED
    BY <1>1, <1>3, <2>1, <2>2
\* Whatever has the label of iteration i before it is on the side of i ...
<1>8. /\ i \in group => \A k \in rest : x.pending[k].domain # label
      /\ i \in rest => \A j \in group : x.pending[j].domain # label
  <2>1. CASE x.pending[i].domain = Unlabelled
    <3>1. label = x.domains
      BY <2>1 DEF label, LabelOf
    <3>2. \A j \in 1..Len(s.pending) : x.pending[j].domain # label
      BY <1>1, <1>2, <3>1
    <3> QED
      BY <3>2 DEF rest
  <2>2. CASE x.pending[i].domain # Unlabelled
    <3>1. label = x.pending[i].domain
      BY <2>2 DEF label, LabelOf
    <3> QED
      BY <1>1, <2>2, <3>1
  <2> QED
    BY <2>1, <2>2
\* ... and so is whatever the iteration gives it to.
<1>9. /\ i \in group => near \subseteq group
      /\ i \in rest => near \cap group = {}
  <2>1. i \in group => near \subseteq group
    BY DEF Closed, near
  <2>2. ASSUME i \in rest, NEW j \in near, j \in group PROVE FALSE
    <3>1. i \in Neighbours(s.pending, j)
      BY <1>2, <2>2, NeighboursMutual DEF near
    <3> QED
      BY <2>2, <3>1 DEF Closed, rest
  <2> QED
    BY <2>1, <2>2
<1>10. i \in group \/ i \in rest
  BY DEF rest
<1>11. ASSUME NEW j \in group, NEW k \in rest, t.pending[j].domain = t.pending[k].domain
       PROVE  t.pending[j].domain = Unlabelled
  <2>0. j \in 1..Len(s.pending) /\ k \in 1..Len(s.pending) /\ k \notin group
    BY DEF rest
  <2>1. CASE i \in group
    <3>1. t.pending[k].domain = x.pending[k].domain /\ x.pending[k].domain # label
      BY <1>3, <1>8, <1>9, <2>0, <2>1
    <3>2. t.pending[j].domain = x.pending[j].domain
      BY <1>3, <1>11, <2>0, <3>1
    <3> QED
      BY <1>1, <1>11, <3>1, <3>2
  <2>2. CASE i \in rest
    <3>0. j # i
      BY <2>2 DEF rest
    <3>1. t.pending[j].domain = x.pending[j].domain /\ x.pending[j].domain # label
      BY <1>3, <1>8, <1>9, <2>0, <2>2, <3>0
    <3>2. t.pending[k].domain = x.pending[k].domain
      BY <1>3, <1>11, <2>0, <3>1
    <3> QED
      BY <1>1, <1>11, <3>1, <3>2
  <2> QED
    BY <1>10, <2>1, <2>2
<1> QED
  BY <1>3, <1>4, <1>6, <1>7, <1>11 DEF KeptApart, t, rest

\* generate_domains, from no label at all, gives two groups that share no party
\* different labels (ConsensusContract.sol:60-95).
LEMMA GroupsKeptApart ==
  ASSUME NEW s \in Storages, s.domains = 0,
         \A j \in 1..Len(s.pending) : s.pending[j].domain = Unlabelled,
         NEW group \in SUBSET (1..Len(s.pending)), Closed(s.pending, group)
  PROVE  GenerateDomains(s) \in KeptApart(s, group, Len(s.pending))
<1> DEFINE n == Len(s.pending)
           S == [i \in 0..n |-> KeptApart(s, group, i)]
<1>1. n \in Nat
  BY DEF Storages
<1>2. s \in KeptApart(s, group, 0)
  BY DEF KeptApart, SameParties, Unlabelled
<1>3. s \in S[0]
  BY <1>1, <1>2
<1>4. ASSUME NEW i \in 1..n, NEW x \in S[i-1]
      PROVE  LabelStep(x, i) \in S[i]
  <2>1. i \in 0..n /\ i - 1 \in 0..n
    BY <1>1
  <2>2. x \in KeptApart(s, group, i-1)
    BY <2>1
  <2>3. LabelStep(x, i) \in KeptApart(s, group, i)
    BY <2>2, LabelStepKeepsApart
  <2> QED
    BY <2>1, <2>3
<1> HIDE DEF S
<1>5. IF s.domains = 0 THEN GenerateDomains(s) \in S[n] ELSE GenerateDomains(s) = s
  BY <1>1, <1>3, <1>4, LabelLoop
<1> QED
  BY <1>1, <1>5 DEF S

\* In a round none of whose interactions was labelled in an earlier one, groups
\* that share no party get different labels, however many interactions there are
\* and whatever labels overwrite others (ConsensusContract.sol:60-96, 198).
THEOREM OrderingSeparatesDomains == Spec => []SeparateGroupsSeparateDomains
<1>1. MergeInv => SeparateGroupsSeparateDomains
  <2> DEFINE s == Storage
             g == GenerateDomains(s)
             n == Len(s.pending)
  <2> SUFFICES ASSUME MergeInv,
                      \A p \in ToSet(pending_interactions) : p.domain = Unlabelled,
                      NEW group \in SUBSET DOMAIN g.pending,
                      \A i \in group : Neighbours(g.pending, i) \subseteq group,
                      NEW i \in group, NEW j \in DOMAIN g.pending \ group
               PROVE  g.pending[i].domain # g.pending[j].domain
    BY DEF SeparateGroupsSeparateDomains
  <2>1. /\ s \in Storages /\ s.pending = pending_interactions /\ s.domains = domain_count
        /\ s.list = list /\ Distinct(s.list)
        /\ s.pending \in Seq(Interactions) /\ n \in Nat
    BY StorageType DEF MergeInv, WaitInv, Storage, TypeOK
  <2>2. \A k \in 1..n : s.pending[k].domain = Unlabelled
    BY <2>1 DEF ToSet
  <2> HIDE DEF s, g
  <2>3. g \in Storages /\ Len(g.pending) = n /\ DOMAIN g.pending = 1..n
    <3>1. IF s.domains = 0 THEN g \in Labelled(s, n) ELSE g = s
      BY <2>1, GenerateDomainsLabels DEF g
    <3>2. g \in Storages /\ Len(g.pending) = n
      BY <2>1, <3>1 DEF Labelled, SameParties
    <3> QED
      BY <3>2 DEF Storages
  <2>4. s.domains = 0
    <3>1. n # 0
      BY <2>3
    <3>2. ~AllLabelled(s.pending)
      BY <2>1, <2>2, <3>1 DEF AllLabelled
    <3>3. vote_count = 0
      BY <2>1, <3>2 DEF MergeInv, WaitInv, TypeOK
    <3> QED
      BY <2>1, <3>3 DEF MergeInv, LabelsStart
  <2>5. g.pending \in Seq(Interactions) /\ SameParties(s.pending, g.pending)
    <3>1. g \in Labelled(s, n)
      BY <2>1, <2>4, GenerateDomainsLabels DEF g
    <3> QED
      BY <3>1 DEF Labelled, Storages
  <2>6. Closed(s.pending, group)
    <3>1. \A k \in 1..n : Neighbours(g.pending, k) = Neighbours(s.pending, k)
      BY <2>1, <2>5, SameNeighbours
    <3> QED
      BY <2>3, <3>1 DEF Closed
  <2>7. g \in KeptApart(s, group, n)
    BY <2>1, <2>2, <2>3, <2>4, <2>6, GroupsKeptApart DEF g
  <2>8. i \in 1..n /\ j \in (1..n) \ group
    BY <2>3
  <2> QED
    BY <2>7, <2>8 DEF KeptApart
<1> QED
  BY <1>1, MergeInvInit, MergeInvNext, PTL DEF Spec

-----------------------------------------------------------------------------
(* A round without conflict, whose list holds all that is pending, executes *)
(* all of it.                                                               *)

\* The workflow as a storage has it.
WorkOf(s) == [tasks_state |-> s.tasks_state, supplies |-> s.supplies]

\* The storage that k iterations of the walk reach from o when nothing is flagged:
\* they have executed the first k entries of the list.
Emptied(o, k) ==
  {s \in Storages :
     /\ s.ok /\ s.flagged = {}
     /\ Numbered(s.pending) /\ FromPending(o.pending, s.pending)
     /\ \A a : a \in Ids(s.pending) <=> a \in Ids(o.pending) /\ \A m \in 1..k : a # o.list[m]
     /\ Distinct(s.list)
     /\ \A a : Listed(s.list, a) => Listed(o.list, a) /\ \A m \in 1..k : a # o.list[m]
     /\ Len(s.executed) = Len(o.executed) + k
     /\ \A m \in 1..Len(o.executed) : s.executed[m] = o.executed[m]
     /\ \A m \in 1..k : s.executed[Len(o.executed) + m] = o.list[m]}

\* An iteration of such a walk calls the task of its interaction
\* (ConsensusContract.sol:174-190).
LEMMA ExecuteStepEmpties ==
  ASSUME NEW o \in Storages, Distinct(o.list), Numbered(o.pending),
         ToSet(o.list) \subseteq Ids(o.pending),
         NEW k \in 1..Len(o.list), NEW s \in Emptied(o, k-1),
         NEW j \in 1..Len(o.pending), o.pending[j].id = o.list[k]
  PROVE  /\ ExecuteStep(s, o.list[k]) \in Emptied(o, k)
         /\ WorkOf(ExecuteStep(s, o.list[k]))
              = CallTask(WorkOf(s), o.pending[j].task, o.pending[j].instance)
<1> DEFINE id == o.list[k]
           i == IndexOf(s.pending, id)
           t == ExecuteStep(s, id)
           n == Len(o.executed)
<1>1. /\ s \in Storages /\ s.ok /\ s.flagged = {} /\ Numbered(s.pending)
      /\ FromPending(o.pending, s.pending) /\ Distinct(s.list)
      /\ \A a : a \in Ids(s.pending) <=> a \in Ids(o.pending) /\ \A m \in 1..(k-1) : a # o.list[m]
      /\ \A a : Listed(s.list, a) => Listed(o.list, a) /\ \A m \in 1..(k-1) : a # o.list[m]
      /\ Len(s.executed) = n + (k - 1)
      /\ \A m \in 1..n : s.executed[m] = o.executed[m]
      /\ \A m \in 1..(k-1) : s.executed[n + m] = o.list[m]
  BY DEF Emptied
<1>2. /\ id \in ListIds /\ k \in Nat \ {0} /\ k - 1 \in Nat /\ n \in Nat
      /\ s.pending \in Seq(Interactions) /\ o.pending \in Seq(Interactions)
      /\ s.list \in Seq(ListIds) /\ o.list \in Seq(ListIds) /\ s.executed \in Seq(ListIds)
  <2>1. /\ s.pending \in Seq(Interactions) /\ o.pending \in Seq(Interactions)
        /\ s.list \in Seq(ListIds) /\ o.list \in Seq(ListIds)
        /\ s.executed \in Seq(ListIds) /\ o.executed \in Seq(ListIds)
    BY <1>1 DEF Storages
  <2>2. Len(o.list) \in Nat /\ n \in Nat
    BY <2>1
  <2>3. id \in ListIds
    BY <2>1
  <2>4. k \in Nat \ {0} /\ k - 1 \in Nat
    BY <2>2
  <2> QED
    BY <2>1, <2>2, <2>3, <2>4
<1>3. \A m \in 1..k : m = k \/ m \in 1..(k-1)
  BY <1>2
<1>4. \A m \in 1..(k-1) : id # o.list[m]
  <2> SUFFICES ASSUME NEW m \in 1..(k-1) PROVE id # o.list[m]
    OBVIOUS
  <2>1. m \in 1..Len(o.list) /\ m # k
    BY <1>2
  <2> QED
    BY <2>1 DEF Distinct
<1>5. id \in Ids(s.pending)
  <2>1. id \in Ids(o.pending)
    BY <1>2, PendingAt
  <2> QED
    BY <1>1, <1>4, <2>1
<1>6. i \in 1..Len(s.pending) /\ s.pending[i].id = id
  BY <1>2, <1>5, IndexOfPending
<1>7. s.pending[i] = o.pending[j]
  <2>1. PICK l \in 1..Len(o.pending) : s.pending[i] = o.pending[l]
    BY <1>1, <1>6 DEF FromPending
  <2>2. o.pending[l].id = o.pending[j].id
    BY <1>6, <2>1
  <2>3. l = j
    BY <2>2 DEF Numbered
  <2> QED
    BY <2>1, <2>3
<1> HIDE DEF i, id
<1>8. t \in Storages
  BY <1>1, <1>2, ExecuteStepType DEF ListIds
<1> DEFINE w == CallTask([tasks_state |-> s.tasks_state, supplies |-> s.supplies],
                         s.pending[i].task, s.pending[i].instance)
<1>9. t = [s EXCEPT !.tasks_state = w.tasks_state,
                    !.supplies    = w.supplies,
                    !.list        = RemoveNode(s.list, id),
                    !.pending     = removeInteraction(s.pending, i),
                    !.executed    = Append(s.executed, id)]
  BY <1>1, <1>5 DEF ExecuteStep, i
<1> HIDE DEF t, w
<1>10. /\ t.ok /\ t.flagged = {}
       /\ t.tasks_state = w.tasks_state /\ t.supplies = w.supplies
       /\ t.pending = removeInteraction(s.pending, i)
       /\ t.executed = Append(s.executed, id)
       /\ t.list = RemoveNode(s.list, id)
  BY <1>1, <1>9 DEF Storages
<1>11. Numbered(t.pending) /\ FromPending(o.pending, t.pending)
  <2>1. Others(s.pending, i, t.pending)
    BY <1>1, <1>2, <1>6, <1>10, Removed
  <2> QED
    BY <1>1, <2>1 DEF Others, FromPending
<1>12. ASSUME NEW a
       PROVE  a \in Ids(t.pending) <=> a \in Ids(o.pending) /\ \A m \in 1..k : a # o.list[m]
  <2>1. a \in Ids(t.pending) <=> a \in Ids(s.pending) /\ a # id
    <3>1. ASSUME a \in Ids(s.pending), a # id
          PROVE  a \in Ids(t.pending)
      BY <1>2, <1>6, <1>10, <3>1, RemovedKeeps
    <3>2. ASSUME a \in Ids(t.pending)
          PROVE  a \in Ids(s.pending) /\ a # id
      <4>1. t.pending \in Seq(Interactions)
        BY <1>8 DEF Storages
      <4>2. PICK m \in 1..Len(t.pending) : t.pending[m].id = a
        BY <3>2, <4>1, PendingAt
      <4>3. Others(s.pending, i, t.pending)
        BY <1>1, <1>2, <1>6, <1>10, Removed
      <4>4. PICK l \in 1..Len(s.pending) : t.pending[m] = s.pending[l]
        BY <4>3 DEF Others
      <4>5. a # id
        BY <1>6, <4>2, <4>3 DEF Others
      <4> QED
        BY <1>2, <4>2, <4>4, <4>5, PendingAt
    <3> QED
      BY <3>1, <3>2
  <2>2. (\A m \in 1..k : a # o.list[m]) <=> a # id /\ \A m \in 1..(k-1) : a # o.list[m]
    <3>1. k \in 1..k /\ \A m \in 1..(k-1) : m \in 1..k
      BY <1>2
    <3> QED
      BY <1>3, <3>1 DEF id
  <2> QED
    BY <1>1, <2>1, <2>2
<1>13. /\ Distinct(t.list)
       /\ \A a : Listed(t.list, a) => Listed(o.list, a) /\ \A m \in 1..k : a # o.list[m]
  <2>1. HEAD \notin ListIds
    BY DEF HEAD, ListIds
  <2>2. /\ Distinct(t.list) /\ ~Listed(t.list, id)
        /\ \A x : Listed(t.list, x) => Listed(s.list, x)
    BY <1>1, <1>2, <1>10, <2>1, RemoveNodeOrder
  <2> QED
    BY <1>1, <1>3, <2>2 DEF id
<1>14. /\ Len(t.executed) = n + k
       /\ \A m \in 1..n : t.executed[m] = o.executed[m]
       /\ \A m \in 1..k : t.executed[n + m] = o.list[m]
  <2> DEFINE l == Len(s.executed)
  <2>1. /\ Len(t.executed) = l + 1 /\ t.executed[l + 1] = id
        /\ \A m \in 1..l : t.executed[m] = s.executed[m]
    BY <1>2, <1>10
  <2>2. l = n + (k - 1)
    BY <1>1
  <2> HIDE DEF l, n
  <2>3. l + 1 = n + k
    BY <1>2, <2>2
  <2>4. \A m \in 1..n : m \in 1..l
    BY <1>2, <2>2
  <2>5. \A m \in 1..(k-1) : n + m \in 1..l
    BY <1>2, <2>2
  <2>6. ASSUME NEW m \in 1..k PROVE t.executed[n + m] = o.list[m]
    <3>1. CASE m = k
      BY <2>1, <2>3, <3>1 DEF id
    <3>2. CASE m \in 1..(k-1)
      BY <1>1, <2>1, <2>5, <3>2
    <3> QED
      BY <1>3, <3>1, <3>2
  <2> QED
    BY <1>1, <2>1, <2>3, <2>4, <2>6
<1>15. t \in Emptied(o, k)
  BY <1>8, <1>10, <1>11, <1>12, <1>13, <1>14 DEF Emptied, n
<1>16. WorkOf(t) = w
  <2>1. w = [tasks_state |-> w.tasks_state, supplies |-> w.supplies]
    BY DEF w, CallTask
  <2> QED
    BY <1>10, <2>1 DEF WorkOf
<1> QED
  BY <1>7, <1>15, <1>16 DEF t, id, w, WorkOf

\* Nothing was executed yet.
LEMMA EmptiedStart ==
  ASSUME NEW o \in Storages, o.ok, o.flagged = {}, Distinct(o.list), Numbered(o.pending)
  PROVE  o \in Emptied(o, 0)
<1>1. FromPending(o.pending, o.pending)
  BY DEF FromPending
<1>2. Len(o.executed) \in Nat /\ 1..0 = {}
  BY DEF Storages
<1> QED
  BY <1>1, <1>2 DEF Emptied

\* A list of all that is pending is executed entry by entry, each a call of the task
\* of its interaction on the workflow that the one before left.
LEMMA ExecuteEmpties ==
  ASSUME NEW o \in Storages, o.ok, o.flagged = {}, Distinct(o.list), Numbered(o.pending),
         ToSet(o.list) \subseteq Ids(o.pending)
  PROVE  /\ Execute(o) \in Emptied(o, Len(o.list))
         /\ \E g : /\ g[0] = WorkOf(o)
                   /\ \A k \in 1..Len(o.list) : \A j \in 1..Len(o.pending) :
                        o.pending[j].id = o.list[k] =>
                          g[k] = CallTask(g[k-1], o.pending[j].task, o.pending[j].instance)
                   /\ WorkOf(Execute(o)) = g[Len(o.list)]
<1> DEFINE n == Len(o.list)
           S == [i \in 0..n |-> Emptied(o, i)]
<1>1. n \in Nat /\ o.list \in Seq(ListIds) /\ o.pending \in Seq(Interactions)
  BY DEF Storages
<1>2. o \in S[0]
  BY <1>1, EmptiedStart
<1>3. \A i \in 1..n : i \in 0..n /\ i - 1 \in 0..n
  BY <1>1
<1>4. ASSUME NEW k \in 1..n
      PROVE  \E j \in 1..Len(o.pending) : o.pending[j].id = o.list[k]
  <2>1. o.list[k] \in Ids(o.pending)
    BY <1>1 DEF ToSet
  <2> QED
    BY <1>1, <2>1, PendingAt
<1>5. ASSUME NEW i \in 1..n, NEW x \in S[i-1]
      PROVE  ExecuteStep(x, o.list[i]) \in S[i]
  <2>1. x \in Emptied(o, i-1)
    BY <1>3
  <2>2. ExecuteStep(x, o.list[i]) \in Emptied(o, i)
    BY <1>4, <2>1, ExecuteStepEmpties
  <2> QED
    BY <1>3, <2>2
<1>6. \A i \in 0..n : S[i] = Emptied(o, i)
  OBVIOUS
<1>13. \A i \in 0..n : S[i] \subseteq Storages
  BY <1>6 DEF Emptied
<1> HIDE DEF S
<1>7. PICK f : /\ f[0] = o
               /\ \A i \in 1..n : f[i] = ExecuteStep(f[i-1], o.list[i])
               /\ \A i \in 0..n : f[i] \in S[i]
               /\ Execute(o) = f[n]
  BY <1>2, <1>5, <1>13, ExecuteRun
<1>8. \A i \in 0..n : f[i] \in Emptied(o, i)
  BY <1>6, <1>7
<1> DEFINE g == [i \in 0..n |-> WorkOf(f[i])]
<1>9. 0 \in 0..n /\ n \in 0..n
  BY <1>1
<1>10. ASSUME NEW k \in 1..n, NEW j \in 1..Len(o.pending), o.pending[j].id = o.list[k]
       PROVE  g[k] = CallTask(g[k-1], o.pending[j].task, o.pending[j].instance)
  <2>1. f[k-1] \in Emptied(o, k-1)
    BY <1>3, <1>8
  <2>2. WorkOf(ExecuteStep(f[k-1], o.list[k]))
          = CallTask(WorkOf(f[k-1]), o.pending[j].task, o.pending[j].instance)
    BY <1>10, <2>1, ExecuteStepEmpties
  <2>3. g[k] = WorkOf(f[k]) /\ g[k-1] = WorkOf(f[k-1])
    BY <1>3
  <2> HIDE DEF g
  <2> QED
    BY <1>7, <2>2, <2>3
<1>11. g[0] = WorkOf(o) /\ WorkOf(Execute(o)) = g[n]
  BY <1>7, <1>9
<1>12. Execute(o) \in Emptied(o, n)
  BY <1>7, <1>8, <1>9
<1> HIDE DEF g
<1> QED
  BY <1>10, <1>11, <1>12 DEF n

\* Two sequences one after the other, entry by entry.
LEMMA IsConcatenation ==
  ASSUME NEW T, NEW s \in Seq(T), NEW t \in Seq(T), NEW u \in Seq(T),
         Len(u) = Len(s) + Len(t),
         \A k \in 1..Len(s) : u[k] = s[k],
         \A k \in 1..Len(t) : u[Len(s) + k] = t[k]
  PROVE  u = s \o t
<1> DEFINE c == s \o t
<1>1. /\ c \in Seq(T) /\ Len(c) = Len(s) + Len(t)
      /\ \A k \in 1..Len(s) : c[k] = s[k]
      /\ \A k \in 1..Len(t) : c[Len(s) + k] = t[k]
  OBVIOUS
<1> HIDE DEF c
<1>2. Len(s) \in Nat /\ Len(t) \in Nat
  OBVIOUS
<1>3. ASSUME NEW k \in 1..Len(u) PROVE u[k] = c[k]
  <2>1. CASE k <= Len(s)
    <3>1. k \in 1..Len(s)
      BY <1>2, <2>1
    <3> QED
      BY <1>1, <3>1
  <2>2. CASE ~(k <= Len(s))
    <3>1. k - Len(s) \in 1..Len(t) /\ Len(s) + (k - Len(s)) = k
      BY <1>2, <2>2
    <3> QED
      BY <1>1, <3>1
  <2> QED
    BY <2>1, <2>2
<1>4. u = [k \in 1..Len(u) |-> u[k]] /\ c = [k \in 1..Len(u) |-> c[k]]
  BY <1>1
<1>5. [k \in 1..Len(u) |-> u[k]] = [k \in 1..Len(u) |-> c[k]]
  BY <1>3
<1> QED
  BY <1>4, <1>5 DEF c

\* A list of nothing but pending interactions is executed to its end, in its order.
LEMMA ExecutesList ==
  ASSUME NEW o \in Storages, o.ok, o.flagged = {}, Distinct(o.list), Numbered(o.pending),
         ToSet(o.list) \subseteq Ids(o.pending)
  PROVE  LET done == Execute(o)
         IN  done.ok /\ done.list = <<>> /\ done.executed = o.executed \o o.list
<1> DEFINE n == Len(o.list)
           m == Len(o.executed)
           done == Execute(o)
<1>1. done \in Emptied(o, n)
  BY ExecuteEmpties
<1>2. /\ n \in Nat /\ m \in Nat
      /\ o.list \in Seq(ListIds) /\ o.executed \in Seq(ListIds)
  BY DEF Storages
<1> HIDE DEF done
<1>3. done.list \in Seq(ListIds) /\ done.executed \in Seq(ListIds) /\ done.ok
  BY <1>1 DEF Emptied, Storages
<1>4. done.list = <<>>
  <2>1. \A a : Listed(o.list, a) <=> \E k \in 1..n : a = o.list[k]
    BY <1>2, ListedAt
  <2>2. ASSUME NEW a PROVE ~Listed(done.list, a)
    BY <1>1, <2>1 DEF Emptied
  <2>3. \A i \in 1..Len(done.list) : Listed(done.list, done.list[i])
    BY <1>3, ListedAt
  <2>4. Len(done.list) = 0
    BY <1>3, <2>2, <2>3
  <2> QED
    BY <1>3, <2>4
<1>5. done.executed = o.executed \o o.list
  <2>1. /\ Len(done.executed) = m + n
        /\ \A k \in 1..m : done.executed[k] = o.executed[k]
        /\ \A k \in 1..n : done.executed[m + k] = o.list[k]
    BY <1>1 DEF Emptied
  <2> QED
    BY <1>2, <1>3, <2>1, IsConcatenation
<1> QED
  BY <1>3, <1>4, <1>5 DEF done

\* Labelling neither reverts nor flags (ConsensusContract.sol:60-95).
LEMMA LabelsOnly ==
  ASSUME NEW s \in Storages
  PROVE  GenerateDomains(s).ok = s.ok /\ GenerateDomains(s).flagged = s.flagged
<1> DEFINE n == Len(s.pending)
           Same == {t \in Storages : /\ Len(t.pending) = n
                                     /\ t.ok = s.ok /\ t.flagged = s.flagged}
           S == [i \in 0..n |-> Same]
<1>1. n \in Nat
  BY DEF Storages
<1>2. s \in S[0]
  BY <1>1
<1>3. ASSUME NEW i \in 1..n, NEW x \in S[i-1]
      PROVE  LabelStep(x, i) \in S[i]
  <2>1. i \in 0..n /\ i - 1 \in 0..n
    BY <1>1
  <2>2. x \in Storages /\ Len(x.pending) = n /\ x.ok = s.ok /\ x.flagged = s.flagged
    BY <2>1
  <2>3. LabelStep(x, i) \in Storages /\ Len(LabelStep(x, i).pending) = n
    BY <2>2, LabelStepType
  <2>4. LabelStep(x, i).ok = x.ok /\ LabelStep(x, i).flagged = x.flagged
    BY <2>2 DEF LabelStep, Storages
  <2> QED
    BY <2>1, <2>2, <2>3, <2>4
<1> HIDE DEF S
<1>4. GenerateDomains(s) = s \/ GenerateDomains(s) \in S[n]
  BY <1>1, <1>2, <1>3, LabelLoop
<1> QED
  BY <1>1, <1>4 DEF S

\* In a round without conflict the execution reverts nowhere, executes everything
\* listed in the order of the list and empties it, for any votes that made the
\* list, although each iteration unlinks the node that it stands on
\* (ConsensusContract.sol:172-190).
THEOREM OrderingExecutesList == Spec => []WholeListIsExecuted
<1>1. MergeInv => WholeListIsExecuted
  <2> SUFFICES ASSUME MergeInv, pending_domains = {}
               PROVE  LET s    == GenerateDomains(Storage)
                          done == Execute(s)
                      IN  /\ done.ok /\ done.list = <<>>
                          /\ done.executed = executed \o s.list
    BY DEF WholeListIsExecuted
  <2> DEFINE s == GenerateDomains(Storage)
  <2>1. Mergeable(s) /\ s.flagged = {} /\ s.ok
    <3>1. Storage \in Storages /\ Storage.ok /\ Storage.flagged = {}
      BY StorageType DEF MergeInv, WaitInv, Storage
    <3> QED
      BY <3>1, LabelsGiven, LabelsOnly
  <2> HIDE DEF s
  <2>2. /\ s \in Storages /\ Distinct(s.list) /\ Numbered(s.pending)
        /\ ToSet(s.list) \subseteq Ids(s.pending) /\ s.executed = executed
    BY <2>1 DEF Mergeable
  <2>3. /\ Execute(s).ok /\ Execute(s).list = <<>>
        /\ Execute(s).executed = s.executed \o s.list
    BY <2>1, <2>2, ExecutesList
  <2> QED
    BY <2>2, <2>3 DEF s
<1> QED
  BY <1>1, MergeInvInit, MergeInvNext, PTL DEF Spec

\* Closing a round whose list holds all that is pending leaves nothing behind; what
\* it executes is the list.
LEMMA RoundEmpties ==
  ASSUME TypeOK, NEW o \in Storages, o.flagged = {}, Distinct(o.list), Numbered(o.pending),
         ToSet(o.list) = Ids(o.pending), o.ok, o.executed = executed, CloseRound(o)
  PROVE  /\ pending_interactions' = <<>> /\ list' = <<>>
         /\ Batch = o.list
         /\ \E g : /\ g[0] = WorkOf(o)
                   /\ \A k \in 1..Len(o.list) : \A j \in 1..Len(o.pending) :
                        o.pending[j].id = o.list[k] =>
                          g[k] = CallTask(g[k-1], o.pending[j].task, o.pending[j].instance)
                   /\ [tasks_state |-> tasks_state', supplies |-> supplies'] = g[Len(o.list)]
<1> DEFINE n == Len(o.list)
           done == Execute(o)
           m == Len(executed)
<1>1. done \in Emptied(o, n)
  BY ExecuteEmpties
<1>2. /\ pending_interactions' = done.pending /\ list' = done.list
      /\ executed' = done.executed
      /\ tasks_state' = done.tasks_state /\ supplies' = done.supplies
  BY DEF CloseRound
<1>3. /\ n \in Nat /\ o.list \in Seq(ListIds) /\ o.pending \in Seq(Interactions)
      /\ m \in Nat /\ executed \in Seq(ListIds)
  BY DEF Storages, TypeOK, ListIds
<1> HIDE DEF done
<1>4. /\ done.pending \in Seq(Interactions) /\ done.list \in Seq(ListIds)
      /\ done.executed \in Seq(ListIds)
  BY <1>1 DEF Emptied, Storages
<1>5. \A a : Listed(o.list, a) <=> \E k \in 1..n : a = o.list[k]
  BY <1>3, ListedAt
<1>6. pending_interactions' = <<>>
  <2>1. ASSUME NEW a PROVE a \notin Ids(done.pending)
    BY <1>1, <1>5 DEF Emptied, Listed
  <2>2. \A i \in DOMAIN done.pending : done.pending[i].id \in Ids(done.pending)
    BY DEF Ids
  <2>3. DOMAIN done.pending = {}
    BY <2>1, <2>2
  <2>4. Len(done.pending) \in Nat /\ DOMAIN done.pending = 1..Len(done.pending)
    BY <1>4
  <2>5. Len(done.pending) # 0 => 1 \in DOMAIN done.pending
    BY <2>4
  <2> QED
    BY <1>2, <1>4, <2>3, <2>5
<1>7. list' = <<>>
  <2>1. ASSUME NEW a PROVE ~Listed(done.list, a)
    BY <1>1, <1>5 DEF Emptied
  <2>2. \A i \in 1..Len(done.list) : Listed(done.list, done.list[i])
    BY <1>4, ListedAt
  <2>3. Len(done.list) = 0
    BY <1>4, <2>1, <2>2
  <2> QED
    BY <1>2, <1>4, <2>3
<1>8. Batch = o.list
  <2>1. /\ Len(executed') = m + n
        /\ \A k \in 1..n : executed'[m + k] = o.list[k]
        /\ executed' \in Seq(ListIds)
    BY <1>1, <1>2, <1>4 DEF Emptied
  <2>2. /\ Batch = [k \in 1..((m + n) - (m + 1) + 1) |-> executed'[k + (m + 1) - 1]]
    BY <2>1 DEF Batch, m
  <2> HIDE DEF m, n
  <2>3. /\ (m + n) - (m + 1) + 1 = n /\ \A k \in 1..n : k + (m + 1) - 1 = m + k
    BY <1>3
  <2>4. Batch = [k \in 1..n |-> executed'[m + k]]
    BY <2>2, <2>3
  <2>5. o.list = [k \in 1..n |-> o.list[k]]
    BY <1>3 DEF n
  <2> QED
    BY <2>1, <2>4, <2>5
<1>9. WorkOf(done) = [tasks_state |-> tasks_state', supplies |-> supplies']
  BY <1>2 DEF WorkOf
<1>10. PICK g : /\ g[0] = WorkOf(o)
                /\ \A k \in 1..Len(o.list) : \A j \in 1..Len(o.pending) :
                     o.pending[j].id = o.list[k] =>
                       g[k] = CallTask(g[k-1], o.pending[j].task, o.pending[j].instance)
                /\ WorkOf(Execute(o)) = g[Len(o.list)]
  BY ExecuteEmpties
<1> QED
  BY <1>6, <1>7, <1>8, <1>9, <1>10 DEF done

-----------------------------------------------------------------------------
(* Labelling lists just the interactions that share no party.               *)

\* The same calls, entry by entry.
SameWork(p, q) ==
  /\ Len(q) = Len(p)
  /\ \A j \in 1..Len(p) : q[j].task = p[j].task /\ q[j].instance = p[j].instance

\* What generate_domains reaches from s when nothing is listed: s, but for labels and
\* the list of interactions without neighbours.
LoneLabelled(s) ==
  {t \in Storages :
     /\ SameParties(s.pending, t.pending) /\ SameWork(s.pending, t.pending)
     /\ t.ok = s.ok /\ t.flagged = s.flagged /\ t.executed = s.executed
     /\ WorkOf(t) = WorkOf(s)
     /\ Distinct(t.list)
     /\ \A a : Listed(t.list, a) =>
          \E j \in 1..Len(s.pending) : Neighbours(s.pending, j) = {} /\ a = s.pending[j].id}

\* An iteration of generate_domains leaves the calls alone (ConsensusContract.sol:61-93).
LEMMA LabelStepWork ==
  ASSUME NEW s \in Storages, NEW i \in 1..Len(s.pending)
  PROVE  LET t == LabelStep(s, i)
         IN  SameWork(s.pending, t.pending) /\ t.ok = s.ok /\ WorkOf(t) = WorkOf(s)
<1> DEFINE t == LabelStep(s, i)
           near == Neighbours(s.pending, i)
           label == LabelOf(s, i)
<1>1. /\ DOMAIN s.pending = 1..Len(s.pending)
      /\ \A j \in 1..Len(s.pending) : s.pending[j] \in Interactions
  BY DEF Storages
<1>2. t \in Storages /\ Len(t.pending) = Len(s.pending)
  BY LabelStepType
<1>3. /\ t.pending = [j \in DOMAIN s.pending |->
                        IF j = i \/ j \in near THEN [s.pending[j] EXCEPT !.domain = label]
                                               ELSE s.pending[j]]
      /\ t.ok = s.ok /\ t.tasks_state = s.tasks_state /\ t.supplies = s.supplies
  <2> HIDE DEF near, label
  <2> QED
    BY DEF LabelStep, LabelOf, Storages, near, label
<1> HIDE DEF t, near, label
<1>4. ASSUME NEW j \in 1..Len(s.pending)
      PROVE  /\ t.pending[j].task = s.pending[j].task
             /\ t.pending[j].instance = s.pending[j].instance
  BY <1>1, <1>3 DEF Interactions
<1> QED
  BY <1>2, <1>3, <1>4 DEF SameWork, WorkOf, t

\* And lists the interaction if it has no neighbours.
LEMMA LabelStepLone ==
  ASSUME NEW s \in Storages, NEW i \in 1..Len(s.pending), NEW x \in LoneLabelled(s)
  PROVE  LabelStep(x, i) \in LoneLabelled(s)
<1> DEFINE t == LabelStep(x, i)
           id == x.pending[i].id
<1>1. /\ x \in Storages
      /\ SameParties(s.pending, x.pending) /\ SameWork(s.pending, x.pending)
      /\ x.ok = s.ok /\ x.flagged = s.flagged /\ x.executed = s.executed
      /\ WorkOf(x) = WorkOf(s) /\ Distinct(x.list)
      /\ \A a : Listed(x.list, a) =>
           \E j \in 1..Len(s.pending) : Neighbours(s.pending, j) = {} /\ a = s.pending[j].id
  BY DEF LoneLabelled
<1>2. i \in 1..Len(x.pending) /\ s.pending \in Seq(Interactions)
      /\ x.pending \in Seq(Interactions) /\ x.list \in Seq(ListIds)
  BY <1>1 DEF SameParties, Storages
<1>3. LabelsNear(x, i, t)
  BY <1>1, <1>2, LabelStepEffect
<1>4. SameWork(x.pending, t.pending) /\ t.ok = x.ok /\ WorkOf(t) = WorkOf(x)
  BY <1>1, <1>2, LabelStepWork
<1>5. id = s.pending[i].id /\ Neighbours(x.pending, i) = Neighbours(s.pending, i)
  BY <1>1, <1>2, SameNeighbours DEF SameParties
<1>6. id \in ListIds
  <2>1. x.pending[i] \in Interactions
    BY <1>2
  <2> QED
    BY <2>1 DEF Interactions, ListIds
<1> HIDE DEF t, id
<1>7. SameParties(s.pending, t.pending) /\ SameWork(s.pending, t.pending)
  BY <1>1, <1>3, <1>4 DEF LabelsNear, SameParties, SameWork
<1>8. /\ Distinct(t.list)
      /\ \A a : Listed(t.list, a) =>
           \E j \in 1..Len(s.pending) : Neighbours(s.pending, j) = {} /\ a = s.pending[j].id
  <2>1. CASE Neighbours(x.pending, i) = {}
    <3>1. t.list = InsertAfter(x.list, HEAD, id)
      BY <1>3, <2>1 DEF LabelsNear, PushFront, id
    <3>2. Grown(x.list, t.list, {id})
      BY <1>1, <1>2, <1>6, <3>1, InsertGrows
    <3>3. \A a : Listed(t.list, a) => Listed(x.list, a) \/ a = id
      BY <3>2 DEF Grown
    <3> QED
      BY <1>1, <1>5, <2>1, <3>2, <3>3 DEF Grown
  <2>2. CASE Neighbours(x.pending, i) # {}
    <3>1. t.list = x.list
      BY <1>3, <2>2 DEF LabelsNear
    <3> QED
      BY <1>1, <3>1
  <2> QED
    BY <2>1, <2>2
<1>9. /\ t \in Storages /\ t.ok = s.ok /\ t.flagged = s.flagged /\ t.executed = s.executed
      /\ WorkOf(t) = WorkOf(s)
  BY <1>1, <1>3, <1>4 DEF LabelsNear
<1>10. t \in LoneLabelled(s)
  BY <1>7, <1>8, <1>9 DEF LoneLabelled
<1> QED
  BY <1>10 DEF t

\* All of generate_domains, on a round in which nobody voted.
LEMMA LabelsLone ==
  ASSUME NEW s \in Storages, s.list = <<>>, s.domains = 0
  PROVE  GenerateDomains(s) \in LoneLabelled(s)
<1> DEFINE n == Len(s.pending)
           S == [i \in 0..n |-> LoneLabelled(s)]
<1>1. n \in Nat
  BY DEF Storages
<1>2. s \in S[0]
  <2>1. \A a : ~Listed(s.list, a)
    BY DEF Listed, ToSet
  <2>2. Distinct(s.list)
    BY DEF Distinct
  <2>3. s \in LoneLabelled(s)
    BY <2>1, <2>2 DEF LoneLabelled, SameParties, SameWork
  <2> QED
    BY <1>1, <2>3
<1>3. \A i \in 1..n : i \in 0..n /\ i - 1 \in 0..n
  BY <1>1
<1>4. ASSUME NEW i \in 1..n, NEW x \in S[i-1]
      PROVE  LabelStep(x, i) \in S[i]
  BY <1>3, LabelStepLone
<1>5. S[n] = LoneLabelled(s)
  BY <1>1
<1> HIDE DEF S
<1> QED
  BY <1>1, <1>2, <1>4, <1>5, LabelLoop

-----------------------------------------------------------------------------
(* A vote without conflict is taken to its end.                             *)

\* What i iterations of the vote reach from s: the first i entries, and nothing
\* else, are added to the list.
Voted(s, vote, i) ==
  {b \in Merges :
     b.s.ok => /\ ~b.broken
               /\ Taking(s, {}, vote, i, b)
               /\ WorkOf(b.s) = WorkOf(s)
               /\ \A a : Listed(b.s.list, a) =>
                    Listed(s.list, a) \/ \E m \in 1..i : a = vote[m]
               /\ \A m \in 1..i : Listed(b.s.list, vote[m])}

\* An iteration of the vote, on an entry that is not in the list yet
\* (ConsensusContract.sol:129-157).
LEMMA VoteStepTakes ==
  ASSUME NEW s \in Storages, NEW orderer, NEW vote \in Seq(ListIds), Distinct(vote),
         \A m \in 1..Len(vote) : ~Listed(s.list, vote[m]),
         NEW i \in 1..Len(vote), NEW b \in Voted(s, vote, i-1)
  PROVE  VoteStep(b, orderer, vote, i) \in Voted(s, vote, i)
<1> DEFINE id == vote[i]
           p == b.s.pending[IndexOf(b.s.pending, id)]
           c == VoteStep(b, orderer, vote, i)
<1>1. /\ b \in Merges /\ b.s \in Storages
      /\ b.s.ok => /\ ~b.broken /\ Taking(s, {}, vote, i-1, b) /\ WorkOf(b.s) = WorkOf(s)
                   /\ \A a : Listed(b.s.list, a) =>
                        Listed(s.list, a) \/ \E m \in 1..(i-1) : a = vote[m]
                   /\ \A m \in 1..(i-1) : Listed(b.s.list, vote[m])
  BY DEF Voted, Merges
<1>2. c \in Merges
  BY <1>1, VoteStepType
<1>3. i \in Nat \ {0} /\ \A m \in 1..i : m = i \/ m \in 1..(i-1)
  OBVIOUS
<1> HIDE DEF id, p, c
<1>4. CASE ~b.s.ok
  <2>1. c = b
    BY <1>4 DEF VoteStep, c
  <2> QED
    BY <1>1, <1>4, <2>1 DEF Voted, c
<1>5. CASE b.s.ok /\ (id \notin Ids(b.s.pending) \/ orderer \notin Involved(p))
  <2>1. c = [b EXCEPT !.s.ok = FALSE]
    BY <1>1, <1>5 DEF VoteStep, c, id, p
  <2>2. ~c.s.ok
    BY <1>1, <2>1 DEF Merges, Storages
  <2> QED
    BY <1>2, <2>2 DEF Voted, c
<1>6. CASE b.s.ok /\ ~(id \notin Ids(b.s.pending) \/ orderer \notin Involved(p))
  <2>1. ~Listed(b.s.list, id)
    <3>1. \A m \in 1..(i-1) : m \in 1..Len(vote) /\ m # i
      BY <1>3
    <3>2. \A m \in 1..(i-1) : id # vote[m]
      BY <3>1 DEF Distinct, id
    <3> QED
      BY <1>1, <1>6, <3>2 DEF id
  <2>2. c = [b EXCEPT !.s.list = InsertAfter(b.s.list, b.anchor, id),
                      !.anchor = id, !.taken = i]
    BY <1>1, <1>6, <2>1 DEF VoteStep, c, id, p
  <2>3. /\ c.s.pending = b.s.pending /\ c.s.flagged = b.s.flagged
        /\ c.s.executed = b.s.executed /\ c.s.list = InsertAfter(b.s.list, b.anchor, id)
        /\ c.anchor = id /\ c.taken = i /\ c.broken = b.broken
        /\ WorkOf(c.s) = WorkOf(b.s)
    BY <1>1, <2>2 DEF Merges, Storages, WorkOf
  <2>4. id \in Ids(s.pending)
    BY <1>1, <1>6 DEF Taking
  <2>5. Taking(s, {}, vote, i, c)
    BY <1>1, <1>6, <2>1, <2>3, <2>4, TakeEntry DEF id
  <2>6. Grown(b.s.list, c.s.list, {id})
    <3>1. b.s.list \in Seq(ListIds) /\ id \in ListIds
      BY <1>1 DEF Storages, id
    <3>2. Distinct(b.s.list)
      BY <1>1, <1>6 DEF Taking, Grown
    <3> QED
      BY <2>3, <3>1, <3>2, InsertGrows
  <2>7. \A a : Listed(c.s.list, a) => Listed(s.list, a) \/ \E m \in 1..i : a = vote[m]
    <3> SUFFICES ASSUME NEW a, Listed(c.s.list, a), ~Listed(s.list, a)
                 PROVE  \E m \in 1..i : a = vote[m]
      OBVIOUS
    <3>1. Listed(b.s.list, a) \/ a = vote[i]
      BY <2>6 DEF Grown, id
    <3>2. i \in 1..i /\ \A m \in 1..(i-1) : m \in 1..i
      BY <1>3
    <3> QED
      BY <1>1, <1>6, <3>1, <3>2
  <2>8. ASSUME NEW m \in 1..i PROVE Listed(c.s.list, vote[m])
    <3>1. CASE m = i
      BY <1>3, <2>5, <3>1 DEF Taking
    <3>2. CASE m \in 1..(i-1)
      BY <1>1, <1>6, <2>6, <3>2 DEF Grown
    <3> QED
      BY <1>3, <3>1, <3>2
  <2> QED
    BY <1>1, <1>2, <1>6, <2>3, <2>5, <2>7, <2>8 DEF Voted, c
<1> QED
  BY <1>4, <1>5, <1>6

\* No entry was taken yet.
LEMMA VotedStart ==
  ASSUME NEW s \in Storages, Distinct(s.list), NEW vote
  PROVE  [s |-> s, anchor |-> HEAD, taken |-> 0, broken |-> FALSE] \in Voted(s, vote, 0)
<1> DEFINE start == [s |-> s, anchor |-> HEAD, taken |-> 0, broken |-> FALSE]
<1>1. start \in Merges
  BY DEF Merges, HEAD
<1>2. Taking(s, {}, vote, 0, start)
  <2>1. InVoteOrder(vote, 0) = {}
    BY DEF InVoteOrder
  <2>2. Grown(s.list, s.list, Ids(s.pending))
    BY DEF Grown
  <2> QED
    BY <2>1, <2>2 DEF Taking, Respects
<1> QED
  BY <1>1, <1>2 DEF Voted

\* A vote of each of its entries once, none of which is listed, ends without conflict.
LEMMA VoteUnbroken ==
  ASSUME NEW s \in Storages, Distinct(s.list), NEW orderer, NEW vote \in Seq(ListIds),
         Distinct(vote), \A m \in 1..Len(vote) : ~Listed(s.list, vote[m])
  PROVE  Vote(s, orderer, vote) \in Voted(s, vote, Len(vote))
<1> DEFINE n == Len(vote)
           S == [i \in 0..n |-> Voted(s, vote, i)]
           start == [s |-> s, anchor |-> HEAD, taken |-> 0, broken |-> FALSE]
<1>1. n \in Nat
  OBVIOUS
<1>2. start \in S[0]
  BY <1>1, VotedStart
<1>3. \A i \in 1..n : i \in 0..n /\ i - 1 \in 0..n
  BY <1>1
<1>4. ASSUME NEW i \in 1..n, NEW x \in S[i-1]
      PROVE  VoteStep(x, orderer, vote, i) \in S[i]
  BY <1>3, VoteStepTakes
<1>5. S[n] = Voted(s, vote, n)
  BY <1>1
<1> HIDE DEF S
<1> QED
  BY <1>1, <1>2, <1>4, <1>5, VoteLoop

-----------------------------------------------------------------------------
(* A round that nobody contends for but one orderer is executed as a whole. *)

\* Calling the tasks of the interactions of a batch, one after the other, leads the
\* workflow from where it is to where it is next, by way of g.
LeadsBy(g) ==
  /\ g[0] = WorkOf(Storage)
  /\ \A k \in 1..Len(Batch) : \A j \in 1..Len(pending_interactions) :
       pending_interactions[j].id = Batch[k] =>
         g[k] = CallTask(g[k-1], pending_interactions[j].task, pending_interactions[j].instance)
  /\ [tasks_state |-> tasks_state', supplies |-> supplies'] = g[Len(Batch)]

\* A step that executes all that is pending and starts afresh.
Clears ==
  /\ pending_interactions' = <<>> /\ list' = <<>>
  /\ index_block' = 0 /\ orderers' = {} /\ vote_count' = 0 /\ domain_count' = 0
  /\ pending_domains' = {}
  /\ DOMAIN Batch = 1..Len(Batch) /\ Len(Batch) \in Nat
  /\ \A k \in 1..Len(Batch) : Batch[k] \in Ids(pending_interactions)
  /\ \E g : LeadsBy(g)

\* Closing a round does so when all that is pending is listed.
LEMMA ListedAllClears ==
  ASSUME WaitInv, NEW o \in Storages, o.ok, o.flagged = {}, Distinct(o.list),
         SameParties(pending_interactions, o.pending), SameWork(pending_interactions, o.pending),
         \A a : Listed(o.list, a) <=> a \in Ids(pending_interactions),
         o.executed = executed, WorkOf(o) = WorkOf(Storage), CloseRound(o)
  PROVE  Clears
<1> DEFINE p == pending_interactions
           n == Len(o.list)
<1>1. /\ p \in Seq(Interactions) /\ o.pending \in Seq(Interactions)
      /\ o.list \in Seq(ListIds) /\ n \in Nat /\ TypeOK /\ Numbered(p)
  BY DEF WaitInv, TypeOK, Storages
<1>2. Ids(o.pending) = Ids(p)
  BY <1>1, SameNeighbours
<1>3. Numbered(o.pending)
  BY <1>1 DEF Numbered, SameParties
<1>4. ToSet(o.list) = Ids(o.pending)
  BY <1>2 DEF Listed
<1>5. /\ pending_interactions' = <<>> /\ list' = <<>> /\ Batch = o.list
      /\ \E g : /\ g[0] = WorkOf(o)
                /\ \A k \in 1..n : \A j \in 1..Len(o.pending) :
                     o.pending[j].id = o.list[k] =>
                       g[k] = CallTask(g[k-1], o.pending[j].task, o.pending[j].instance)
                /\ [tasks_state |-> tasks_state', supplies |-> supplies'] = g[n]
  BY <1>1, <1>3, <1>4, RoundEmpties
<1>6. PICK g : /\ g[0] = WorkOf(o)
               /\ \A k \in 1..n : \A j \in 1..Len(o.pending) :
                    o.pending[j].id = o.list[k] =>
                      g[k] = CallTask(g[k-1], o.pending[j].task, o.pending[j].instance)
               /\ [tasks_state |-> tasks_state', supplies |-> supplies'] = g[n]
  BY <1>5
<1> HIDE DEF n
<1>7. Len(Batch) = n
  BY <1>5 DEF n
<1>8. ASSUME NEW k \in 1..Len(Batch), NEW j \in 1..Len(p), p[j].id = Batch[k]
      PROVE  g[k] = CallTask(g[k-1], p[j].task, p[j].instance)
  <2>1. j \in 1..Len(o.pending) /\ o.pending[j].id = p[j].id
    BY DEF SameParties
  <2>2. o.pending[j].task = p[j].task /\ o.pending[j].instance = p[j].instance
    BY DEF SameWork
  <2>3. k \in 1..n /\ Batch[k] = o.list[k]
    BY <1>5, <1>7
  <2>4. g[k] = CallTask(g[k-1], o.pending[j].task, o.pending[j].instance)
    BY <1>6, <1>8, <2>1, <2>3
  <2> QED
    BY <2>2, <2>4
<1>9. LeadsBy(g)
  BY <1>6, <1>7, <1>8 DEF LeadsBy
<1>10. \A k \in 1..Len(Batch) : Batch[k] \in Ids(p)
  <2>1. \A k \in 1..n : Listed(o.list, o.list[k])
    BY <1>1, ListedAt DEF n
  <2> QED
    BY <1>5, <1>7, <2>1
<1>11. DOMAIN Batch = 1..Len(Batch) /\ Len(Batch) \in Nat
  BY <1>1, <1>5
<1>12. /\ index_block' = 0 /\ orderers' = {} /\ vote_count' = 0 /\ domain_count' = 0
       /\ pending_domains' = {}
  BY DEF CloseRound
<1> QED
  BY <1>5, <1>9, <1>10, <1>11, <1>12 DEF Clears

\* Labelling a round in which nobody voted lists its lone interactions.
LEMMA LoneInteractionsListed ==
  ASSUME MergeInv, list = <<>>, domain_count = 0, pending_domains = {}
  PROVE  LET o == GenerateDomains(Storage)
         IN  /\ o \in LoneLabelled(Storage)
             /\ o \in Storages /\ o.ok /\ o.flagged = {} /\ Distinct(o.list)
             /\ SameParties(pending_interactions, o.pending)
             /\ SameWork(pending_interactions, o.pending)
             /\ o.executed = executed /\ WorkOf(o) = WorkOf(Storage)
             /\ \A a : Listed(o.list, a) <=>
                  \E j \in 1..Len(pending_interactions) :
                    /\ Neighbours(pending_interactions, j) = {}
                    /\ a = pending_interactions[j].id
<1> DEFINE o == GenerateDomains(Storage)
           s == Storage
<1>1. /\ s \in Storages /\ s.list = <<>> /\ s.domains = 0 /\ s.flagged = {} /\ s.ok
      /\ s.pending = pending_interactions /\ s.executed = executed
  BY StorageType DEF MergeInv, WaitInv, Storage
<1>2. Distinct(s.list)
  BY <1>1 DEF Distinct
<1> HIDE DEF s
<1>3. o \in LoneLabelled(s)
  BY <1>1, LabelsLone DEF s
<1>4. o \in Labelled(s, Len(s.pending))
  BY <1>1, <1>2, GenerateDomainsLabels DEF s
<1> HIDE DEF o
<1>5. /\ o \in Storages /\ Distinct(o.list)
      /\ SameParties(s.pending, o.pending) /\ SameWork(s.pending, o.pending)
      /\ o.ok = s.ok /\ o.flagged = s.flagged /\ o.executed = s.executed
      /\ WorkOf(o) = WorkOf(s)
      /\ \A a : Listed(o.list, a) =>
           \E j \in 1..Len(s.pending) : Neighbours(s.pending, j) = {} /\ a = s.pending[j].id
  BY <1>3 DEF LoneLabelled
<1>6. \A j \in 1..Len(s.pending) : Neighbours(s.pending, j) = {} => Listed(o.list, s.pending[j].id)
  BY <1>4 DEF Labelled
<1>7. \A a : Listed(o.list, a) <=>
        \E j \in 1..Len(s.pending) : Neighbours(s.pending, j) = {} /\ a = s.pending[j].id
  BY <1>5, <1>6
<1>8. \A a : Listed(o.list, a) <=>
        \E j \in 1..Len(pending_interactions) :
          Neighbours(pending_interactions, j) = {} /\ a = pending_interactions[j].id
  BY <1>1, <1>7
<1> QED
  BY <1>1, <1>3, <1>5, <1>8 DEF o, s

\* A release executes everything when no interaction has a neighbour.
LEMMA ReleaseClears ==
  ASSUME MergeInv, list = <<>>, domain_count = 0, pending_domains = {}, release,
         \A j \in 1..Len(pending_interactions) : Neighbours(pending_interactions, j) = {}
  PROVE  Clears
<1> DEFINE o == GenerateDomains(Storage)
<1>1. /\ o \in Storages /\ o.ok /\ o.flagged = {} /\ Distinct(o.list)
      /\ SameParties(pending_interactions, o.pending)
      /\ SameWork(pending_interactions, o.pending)
      /\ o.executed = executed /\ WorkOf(o) = WorkOf(Storage)
      /\ \A a : Listed(o.list, a) <=>
           \E j \in 1..Len(pending_interactions) :
             Neighbours(pending_interactions, j) = {} /\ a = pending_interactions[j].id
  BY LoneInteractionsListed
<1>2. CloseRound(o)
  BY DEF release
<1> HIDE DEF o
<1>3. pending_interactions \in Seq(Interactions) /\ WaitInv
  BY DEF MergeInv, WaitInv, TypeOK
<1>4. \A a : Listed(o.list, a) <=> a \in Ids(pending_interactions)
  <2> SUFFICES ASSUME NEW a
               PROVE  Listed(o.list, a) <=> a \in Ids(pending_interactions)
    OBVIOUS
  <2>1. a \in Ids(pending_interactions)
          <=> \E j \in 1..Len(pending_interactions) : pending_interactions[j].id = a
    BY <1>3, PendingAt
  <2> QED
    BY <1>1, <2>1
<1> QED
  BY <1>1, <1>2, <1>3, <1>4, ListedAllClears

\* A vote that is on just the interactions that have neighbours, on each of them once.
VotesNeighbours(vote) ==
  /\ Distinct(vote)
  /\ \A j \in 1..Len(pending_interactions) :
       Neighbours(pending_interactions, j) # {}
         <=> \E m \in 1..Len(vote) : vote[m] = pending_interactions[j].id

\* What such a vote leaves to execute in a round in which nobody voted: a list of all
\* that is pending.
LEMMA VoteListsAll ==
  ASSUME MergeInv, list = <<>>, domain_count = 0, pending_domains = {},
         NEW orderer, NEW vote \in Seq(ListIds), VotesNeighbours(vote),
         Vote(GenerateDomains(Storage), orderer, vote).s.ok
  PROVE  LET t == Vote(GenerateDomains(Storage), orderer, vote).s
         IN  /\ t \in Storages /\ t.flagged = {} /\ Distinct(t.list)
             /\ SameParties(pending_interactions, t.pending)
             /\ SameWork(pending_interactions, t.pending)
             /\ \A a : Listed(t.list, a) <=> a \in Ids(pending_interactions)
             /\ t.executed = executed /\ WorkOf(t) = WorkOf(Storage)
<1> DEFINE o == GenerateDomains(Storage)
           b == Vote(o, orderer, vote)
           p == pending_interactions
<1>1. /\ o \in Storages /\ o.ok /\ o.flagged = {} /\ Distinct(o.list)
      /\ SameParties(p, o.pending) /\ SameWork(p, o.pending)
      /\ o.executed = executed /\ WorkOf(o) = WorkOf(Storage)
      /\ \A a : Listed(o.list, a) <=>
           \E j \in 1..Len(p) : Neighbours(p, j) = {} /\ a = p[j].id
  BY LoneInteractionsListed
<1>2. p \in Seq(Interactions) /\ b.s.ok
  BY DEF MergeInv, WaitInv, TypeOK
<1>3. /\ Distinct(vote)
      /\ \A j \in 1..Len(p) : Neighbours(p, j) # {} <=> \E m \in 1..Len(vote) : vote[m] = p[j].id
  BY DEF VotesNeighbours
<1> HIDE DEF o
<1>4. ASSUME NEW m \in 1..Len(vote) PROVE ~Listed(o.list, vote[m])
  <2> SUFFICES ASSUME NEW j \in 1..Len(p), Neighbours(p, j) = {}, vote[m] = p[j].id
               PROVE  FALSE
    BY <1>1
  <2> QED
    BY <1>3
<1>5. b \in Voted(o, vote, Len(vote))
  BY <1>1, <1>3, <1>4, VoteUnbroken
<1> HIDE DEF b
<1>6. /\ b \in Merges /\ Taking(o, {}, vote, Len(vote), b) /\ WorkOf(b.s) = WorkOf(o)
      /\ \A a : Listed(b.s.list, a) => Listed(o.list, a) \/ \E m \in 1..Len(vote) : a = vote[m]
      /\ \A m \in 1..Len(vote) : Listed(b.s.list, vote[m])
  BY <1>2, <1>5 DEF Voted
<1>7. /\ b.s \in Storages /\ b.s.pending = o.pending /\ b.s.flagged = {}
      /\ b.s.executed = executed /\ Distinct(b.s.list)
      /\ \A a : Listed(o.list, a) => Listed(b.s.list, a)
  BY <1>1, <1>6 DEF Merges, Taking, Grown
<1>8. ASSUME NEW a
      PROVE  Listed(b.s.list, a) <=> a \in Ids(p)
  <2>1. a \in Ids(p) <=> \E j \in 1..Len(p) : p[j].id = a
    BY <1>2, PendingAt
  <2>2. ASSUME NEW j \in 1..Len(p), p[j].id = a
        PROVE  Listed(b.s.list, a)
    <3>1. CASE Neighbours(p, j) = {}
      BY <1>1, <1>7, <2>2, <3>1
    <3>2. CASE Neighbours(p, j) # {}
      BY <1>3, <1>6, <2>2, <3>2
    <3> QED
      BY <3>1, <3>2
  <2>3. ASSUME Listed(b.s.list, a)
        PROVE  a \in Ids(p)
    <3>1. Grown(o.list, b.s.list, Ids(o.pending))
      BY <1>6 DEF Taking
    <3>2. Ids(o.pending) = Ids(p)
      <4>1. o.pending \in Seq(Interactions)
        BY <1>1 DEF Storages
      <4> QED
        BY <1>1, <1>2, <4>1, SameNeighbours
    <3> QED
      BY <1>1, <2>1, <2>3, <3>1, <3>2 DEF Grown
  <2> QED
    BY <2>1, <2>2, <2>3
<1>9. WorkOf(b.s) = WorkOf(Storage)
  BY <1>1, <1>6
<1>10. SameParties(p, b.s.pending) /\ SameWork(p, b.s.pending)
  BY <1>1, <1>7
<1> QED
  BY <1>7, <1>8, <1>9, <1>10 DEF b, o

\* The last vote of a round executes everything when it is such a vote.
LEMMA VoteClears ==
  ASSUME MergeInv, list = <<>>, domain_count = 0, pending_domains = {},
         NEW orderer \in Addresses, NEW vote \in Votes, order_interactions(orderer, vote),
         vote_count + 1 = orderers_count, VotesNeighbours(vote)
  PROVE  Clears
<1> DEFINE t == Vote(GenerateDomains(Storage), orderer, vote).s
<1>1. t.ok /\ CloseRound(t)
  BY DEF order_interactions
<1>2. WaitInv /\ vote \in Seq(ListIds)
  BY VotesType DEF MergeInv, WaitInv, TypeOK
<1>3. /\ t \in Storages /\ t.flagged = {} /\ Distinct(t.list)
      /\ SameParties(pending_interactions, t.pending)
      /\ SameWork(pending_interactions, t.pending)
      /\ \A a : Listed(t.list, a) <=> a \in Ids(pending_interactions)
      /\ t.executed = executed /\ WorkOf(t) = WorkOf(Storage)
  BY <1>1, <1>2, VoteListsAll
<1> HIDE DEF t
<1> QED
  BY <1>1, <1>2, <1>3, ListedAllClears

-----------------------------------------------------------------------------
(* And such a vote is not refused.                                          *)

\* The entries of a vote are pending, and the orderer is involved in each.
EntitledTo(orderer, vote, pending) ==
  \A m \in 1..Len(vote) : \E j \in 1..Len(pending) :
    pending[j].id = vote[m] /\ orderer \in Involved(pending[j])

\* No iteration of such a vote is refused (ConsensusContract.sol:129-157).
LEMMA VoteStepAccepts ==
  ASSUME NEW s \in Storages, NEW orderer, NEW vote \in Seq(ListIds), Distinct(vote),
         \A m \in 1..Len(vote) : ~Listed(s.list, vote[m]),
         Numbered(s.pending), EntitledTo(orderer, vote, s.pending),
         NEW i \in 1..Len(vote), NEW b \in Voted(s, vote, i-1), b.s.ok
  PROVE  VoteStep(b, orderer, vote, i).s.ok
<1> DEFINE id == vote[i]
           p == b.s.pending[IndexOf(b.s.pending, id)]
<1>1. /\ b \in Merges /\ b.s \in Storages /\ ~b.broken /\ Taking(s, {}, vote, i-1, b)
      /\ \A a : Listed(b.s.list, a) =>
           Listed(s.list, a) \/ \E m \in 1..(i-1) : a = vote[m]
  BY DEF Voted, Merges
<1>2. b.s.pending = s.pending /\ s.pending \in Seq(Interactions)
  BY <1>1 DEF Taking, Storages
<1>3. PICK j \in 1..Len(s.pending) : s.pending[j].id = id /\ orderer \in Involved(s.pending[j])
  BY DEF EntitledTo
<1>4. id \in Ids(s.pending)
  BY <1>2, <1>3, PendingAt
<1>5. p = s.pending[j]
  <2>1. /\ IndexOf(s.pending, id) \in 1..Len(s.pending)
        /\ s.pending[IndexOf(s.pending, id)].id = id
    BY <1>2, <1>4, IndexOfPending
  <2>2. IndexOf(s.pending, id) = j
    BY <1>3, <2>1 DEF Numbered
  <2> QED
    BY <1>2, <2>2
<1>6. ~Listed(b.s.list, id)
  <2>1. \A m \in 1..(i-1) : m \in 1..Len(vote) /\ m # i
    OBVIOUS
  <2>2. \A m \in 1..(i-1) : id # vote[m]
    BY <2>1 DEF Distinct
  <2> QED
    BY <1>1, <2>2
<1> HIDE DEF id, p
<1>7. VoteStep(b, orderer, vote, i)
        = [b EXCEPT !.s.list = InsertAfter(b.s.list, b.anchor, id),
                    !.anchor = id, !.taken = i]
  BY <1>1, <1>2, <1>3, <1>4, <1>5, <1>6 DEF VoteStep, id, p
<1> QED
  BY <1>1, <1>7 DEF Merges, Storages

\* Nor is the vote.
LEMMA VoteAccepted ==
  ASSUME NEW s \in Storages, s.ok, Distinct(s.list), NEW orderer, NEW vote \in Seq(ListIds),
         Distinct(vote), \A m \in 1..Len(vote) : ~Listed(s.list, vote[m]),
         Numbered(s.pending), EntitledTo(orderer, vote, s.pending)
  PROVE  Vote(s, orderer, vote).s.ok
<1> DEFINE n == Len(vote)
           S == [i \in 0..n |-> {b \in Voted(s, vote, i) : b.s.ok}]
           start == [s |-> s, anchor |-> HEAD, taken |-> 0, broken |-> FALSE]
<1>1. n \in Nat
  OBVIOUS
<1>2. start \in S[0]
  <2>1. start \in Voted(s, vote, 0)
    BY VotedStart
  <2> QED
    BY <1>1, <2>1
<1>3. \A i \in 1..n : i \in 0..n /\ i - 1 \in 0..n
  BY <1>1
<1>4. ASSUME NEW i \in 1..n, NEW x \in S[i-1]
      PROVE  VoteStep(x, orderer, vote, i) \in S[i]
  <2>1. x \in Voted(s, vote, i-1) /\ x.s.ok
    BY <1>3
  <2>2. VoteStep(x, orderer, vote, i) \in Voted(s, vote, i)
    BY <2>1, VoteStepTakes
  <2>3. VoteStep(x, orderer, vote, i).s.ok
    BY <2>1, VoteStepAccepts
  <2> QED
    BY <1>3, <2>2, <2>3
<1>5. S[n] = {b \in Voted(s, vote, n) : b.s.ok}
  BY <1>1
<1> HIDE DEF S
<1>6. Vote(s, orderer, vote) \in S[n]
  BY <1>1, <1>2, <1>4, VoteLoop
<1> QED
  BY <1>5, <1>6

\* A list of all that is pending, and of nothing else, can be executed.
LEMMA ListedAllExecutes ==
  ASSUME WaitInv, NEW o \in Storages, o.ok, o.flagged = {}, Distinct(o.list),
         SameParties(pending_interactions, o.pending),
         \A a : Listed(o.list, a) <=> a \in Ids(pending_interactions)
  PROVE  Execute(o).ok
<1> DEFINE p == pending_interactions
<1>1. p \in Seq(Interactions) /\ o.pending \in Seq(Interactions) /\ Numbered(p)
  BY DEF WaitInv, TypeOK, Storages
<1>2. Ids(o.pending) = Ids(p)
  BY <1>1, SameNeighbours
<1>3. Numbered(o.pending)
  BY <1>1 DEF Numbered, SameParties
<1>4. ToSet(o.list) \subseteq Ids(o.pending)
  BY <1>2 DEF Listed
<1>5. Execute(o) \in Emptied(o, Len(o.list))
  BY <1>3, <1>4, ExecuteEmpties
<1> QED
  BY <1>5 DEF Emptied

\* Neither the loops of a vote nor the execution behind it revert when it is on just the
\* interactions that have neighbours, all of which involve the orderer.
LEMMA VoteRevertsNowhere ==
  ASSUME MergeInv, list = <<>>, domain_count = 0, pending_domains = {},
         NEW orderer, NEW vote \in Seq(ListIds), VotesNeighbours(vote),
         EntitledTo(orderer, vote, pending_interactions)
  PROVE  LET t == Vote(GenerateDomains(Storage), orderer, vote).s
         IN  t.ok /\ Execute(t).ok
<1> DEFINE o == GenerateDomains(Storage)
           t == Vote(o, orderer, vote).s
           p == pending_interactions
<1>1. /\ o \in Storages /\ o.ok /\ Distinct(o.list) /\ SameParties(p, o.pending)
      /\ \A a : Listed(o.list, a) <=>
           \E j \in 1..Len(p) : Neighbours(p, j) = {} /\ a = p[j].id
  BY LoneInteractionsListed
<1>2. p \in Seq(Interactions) /\ Numbered(p) /\ WaitInv
  BY DEF MergeInv, WaitInv, TypeOK
<1> HIDE DEF o
<1>3. /\ Distinct(vote)
      /\ \A j \in 1..Len(p) : Neighbours(p, j) # {} <=> \E m \in 1..Len(vote) : vote[m] = p[j].id
  BY DEF VotesNeighbours
<1>4. ASSUME NEW m \in 1..Len(vote) PROVE ~Listed(o.list, vote[m])
  <2> SUFFICES ASSUME NEW j \in 1..Len(p), Neighbours(p, j) = {}, vote[m] = p[j].id
               PROVE  FALSE
    BY <1>1
  <2> QED
    BY <1>3
<1>5. Numbered(o.pending)
  BY <1>1, <1>2 DEF Numbered, SameParties
<1>6. EntitledTo(orderer, vote, o.pending)
  <2> SUFFICES ASSUME NEW m \in 1..Len(vote)
               PROVE  \E j \in 1..Len(o.pending) :
                        o.pending[j].id = vote[m] /\ orderer \in Involved(o.pending[j])
    BY DEF EntitledTo
  <2>1. PICK j \in 1..Len(p) : p[j].id = vote[m] /\ orderer \in Involved(p[j])
    BY DEF EntitledTo
  <2>2. j \in 1..Len(o.pending) /\ o.pending[j].id = p[j].id
        /\ Involved(o.pending[j]) = Involved(p[j])
    BY <1>1 DEF SameParties, Involved
  <2> QED
    BY <2>1, <2>2
<1>7. t.ok
  BY <1>1, <1>3, <1>4, <1>5, <1>6, VoteAccepted
<1>8. /\ t \in Storages /\ t.flagged = {} /\ Distinct(t.list) /\ SameParties(p, t.pending)
      /\ \A a : Listed(t.list, a) <=> a \in Ids(p)
  BY <1>7, VoteListsAll DEF o
<1> HIDE DEF t
<1>9. Execute(t).ok
  BY <1>2, <1>7, <1>8, ListedAllExecutes
<1> QED
  BY <1>7, <1>9 DEF t, o
=============================================================================
