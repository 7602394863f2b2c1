---------------------------- MODULE IdListProofs ----------------------------
(***************************************************************************)
(* What the operators of IdList return, for sequences over any set, and    *)
(* the induction on the iterations of a loop.                              *)
(***************************************************************************)
EXTENDS IdList, SequenceTheorems, WellFoundedInduction, TLAPS

\* A function on 1..n is a sequence of length n.
LEMMA FunctionIsSeq ==
  ASSUME NEW T, NEW n \in Nat, NEW f \in [1..n -> T]
  PROVE  f \in Seq(T) /\ Len(f) = n
<1>1. f \in Seq(T)
  BY SeqDef
<1>2. DOMAIN f = 1..Len(f) /\ Len(f) \in Nat
  BY <1>1, LenProperties
<1>3. DOMAIN f = 1..n
  OBVIOUS
<1> QED
  BY <1>1, <1>2, <1>3

\* Inserting an element in a sequence, at the end included, gives a sequence.
LEMMA InsertAtShape ==
  ASSUME NEW T, NEW l \in Seq(T), NEW p \in 1..(Len(l)+1), NEW x \in T
  PROVE  /\ InsertAt(l, p, x) \in Seq(T)
         /\ Len(InsertAt(l, p, x)) = Len(l) + 1
         /\ \A i \in 1..(Len(l)+1) :
              InsertAt(l, p, x)[i] = IF i < p THEN l[i] ELSE IF i = p THEN x ELSE l[i-1]
<1> DEFINE a == SubSeq(l, 1, p-1)
           b == <<x>>
           c == SubSeq(l, p, Len(l))
<1>1. /\ a \in Seq(T) /\ Len(a) = p - 1
      /\ \A i \in 1..(p-1) : a[i] = l[i]
  OBVIOUS
<1>2. /\ c \in Seq(T) /\ Len(c) = Len(l) - p + 1
      /\ \A i \in 1..(Len(l)-p+1) : c[i] = l[p+i-1]
  OBVIOUS
<1>3. b \in Seq(T) /\ Len(b) = 1 /\ b[1] = x
  OBVIOUS
<1> HIDE DEF a, b, c
<1> DEFINE ab == a \o b
<1>4. /\ ab \in Seq(T)
      /\ Len(ab) = Len(a) + Len(b)
      /\ \A i \in 1..(Len(a) + Len(b)) : ab[i] = IF i <= Len(a) THEN a[i] ELSE b[i - Len(a)]
  BY <1>1, <1>3, ConcatProperties
<1> HIDE DEF ab
<1>5. Len(ab) = p /\ \A i \in 1..p : ab[i] = IF i < p THEN l[i] ELSE x
  BY <1>1, <1>3, <1>4
<1>6. /\ ab \o c \in Seq(T)
      /\ Len(ab \o c) = Len(ab) + Len(c)
      /\ \A i \in 1..(Len(ab) + Len(c)) :
           (ab \o c)[i] = IF i <= Len(ab) THEN ab[i] ELSE c[i - Len(ab)]
  <2>1. ab \in Seq(T) /\ c \in Seq(T)
    BY <1>2, <1>4
  <2> QED
    BY <2>1, ConcatProperties
<1> DEFINE r == ab \o c
<1> HIDE DEF r
<1>7. /\ r \in Seq(T)
      /\ Len(r) = Len(l) + 1
      /\ \A i \in 1..(Len(l)+1) : r[i] = IF i <= p THEN ab[i] ELSE c[i - p]
  BY <1>2, <1>5, <1>6 DEF r
<1>8. ASSUME NEW i \in 1..(Len(l)+1)
      PROVE  r[i] = IF i < p THEN l[i] ELSE IF i = p THEN x ELSE l[i-1]
  <2>1. CASE i <= p
    BY <1>5, <1>7, <2>1
  <2>2. CASE i > p
    <3>1. i - p \in 1..(Len(l)-p+1) /\ p + (i-p) - 1 = i - 1
      BY <2>2
    <3>2. c[i-p] = l[i-1]
      BY <1>2, <3>1
    <3> QED
      BY <1>7, <2>2, <3>2
  <2> QED
    BY <2>1, <2>2
<1>9. InsertAt(l, p, x) = r
  BY DEF InsertAt, a, b, c, ab, r
<1> QED
  BY <1>7, <1>8, <1>9

\* Removing an element from a sequence gives a sequence that is one shorter.
LEMMA RemoveAtShape ==
  ASSUME NEW T, NEW l \in Seq(T), NEW p \in 1..Len(l)
  PROVE  /\ RemoveAt(l, p) \in Seq(T)
         /\ Len(RemoveAt(l, p)) = Len(l) - 1
         /\ \A i \in 1..(Len(l)-1) : RemoveAt(l, p)[i] = IF i < p THEN l[i] ELSE l[i+1]
<1> DEFINE a == SubSeq(l, 1, p-1)
           c == SubSeq(l, p+1, Len(l))
<1>1. /\ a \in Seq(T) /\ Len(a) = p - 1
      /\ \A i \in 1..(p-1) : a[i] = l[i]
  OBVIOUS
<1>2. /\ c \in Seq(T) /\ Len(c) = Len(l) - p
      /\ \A i \in 1..(Len(l)-p) : c[i] = l[p+i]
  OBVIOUS
<1> HIDE DEF a, c
<1>3. /\ a \o c \in Seq(T)
      /\ Len(a \o c) = Len(a) + Len(c)
      /\ \A i \in 1..(Len(a) + Len(c)) :
           (a \o c)[i] = IF i <= Len(a) THEN a[i] ELSE c[i - Len(a)]
  BY <1>1, <1>2, ConcatProperties
<1> DEFINE r == a \o c
<1> HIDE DEF r
<1>4. /\ r \in Seq(T)
      /\ Len(r) = Len(l) - 1
      /\ \A i \in 1..(Len(l)-1) : r[i] = IF i < p THEN a[i] ELSE c[i - (p-1)]
  BY <1>1, <1>2, <1>3 DEF r
<1>5. ASSUME NEW i \in 1..(Len(l)-1)
      PROVE  r[i] = IF i < p THEN l[i] ELSE l[i+1]
  <2>1. CASE i < p
    BY <1>1, <1>4, <2>1
  <2>2. CASE ~(i < p)
    <3>1. i - (p-1) \in 1..(Len(l)-p) /\ p + (i-(p-1)) = i + 1
      BY <2>2
    <3>2. c[i-(p-1)] = l[i+1]
      BY <1>2, <3>1
    <3> QED
      BY <1>4, <2>2, <3>2
  <2> QED
    BY <2>1, <2>2
<1>6. RemoveAt(l, p) = r
  BY DEF RemoveAt, a, c, r
<1> QED
  BY <1>4, <1>5, <1>6

\* The position of a listed id is one where it is found.
LEMMA PosOfListed ==
  ASSUME NEW T, NEW l \in Seq(T), NEW x, x # HEAD, Listed(l, x)
  PROVE  Pos(l, x) \in 1..Len(l) /\ l[Pos(l, x)] = x
<1>1. \E i \in DOMAIN l : l[i] = x
  BY DEF Listed, ToSet
<1>2. DOMAIN l = 1..Len(l)
  OBVIOUS
<1> QED
  BY <1>1, <1>2 DEF Pos

\* insertAfter keeps a list of ids one, refused or not
\* (StructuredLinkedList.sol:248-260).
LEMMA InsertAfterType ==
  ASSUME NEW T, NEW l \in Seq(T), NEW node, NEW new \in T
  PROVE  InsertAfter(l, node, new) \in Seq(T)
<1>1. ASSUME CanInsert(l, node, new)
      PROVE  Pos(l, node) + 1 \in 1..(Len(l)+1)
  <2>1. CASE node = HEAD
    BY <2>1 DEF Pos
  <2>2. CASE node # HEAD
    <3>1. Pos(l, node) \in 1..Len(l)
      BY <1>1, <2>2, PosOfListed DEF CanInsert, NodeExists
    <3> QED
      BY <3>1
  <2> QED
    BY <2>1, <2>2
<1> QED
  BY <1>1, InsertAtShape DEF InsertAfter

\* getNextNode returns an entry of the list or the head.
LEMMA NextNodeType ==
  ASSUME NEW l \in Seq(Nat \ {0}), NEW node
  PROVE  getNextNode(l, node) \in Nat
<1>1. CASE NodeExists(l, node) /\ Pos(l, node) < Len(l)
  <2>1. Pos(l, node) + 1 \in 1..Len(l)
    <3>1. CASE node = HEAD
      BY <1>1, <3>1 DEF Pos
    <3>2. CASE node # HEAD
      <4>1. Pos(l, node) \in 1..Len(l)
        BY <1>1, <3>2, PosOfListed DEF NodeExists
      <4> QED
        BY <1>1, <4>1
    <3> QED
      BY <3>1, <3>2
  <2> QED
    BY <1>1, <2>1 DEF getNextNode
<1>2. CASE ~(NodeExists(l, node) /\ Pos(l, node) < Len(l))
  BY <1>2 DEF getNextNode, HEAD
<1> QED
  BY <1>1, <1>2

\* remove keeps a list of ids one, refused or not
\* (StructuredLinkedList.sol:54-65).
LEMMA RemoveNodeType ==
  ASSUME NEW T, HEAD \notin T, NEW l \in Seq(T), NEW node
  PROVE  RemoveNode(l, node) \in Seq(T)
<1>1. ASSUME Listed(l, node)
      PROVE  Pos(l, node) \in 1..Len(l)
  <2>1. node # HEAD
    BY <1>1 DEF Listed, ToSet
  <2> QED
    BY <1>1, <2>1, PosOfListed
<1> QED
  BY <1>1, RemoveAtShape DEF RemoveNode
-----------------------------------------------------------------------------
(* The order of ids in a list.                                              *)

\* No id is in the list twice.
Distinct(l) == \A i, j \in 1..Len(l) : l[i] = l[j] => i = j

\* The list has a before b.
Ahead(l, a, b) == \E i, j \in 1..Len(l) : i < j /\ l[i] = a /\ l[j] = b

\* An id is listed when it is at some position.
LEMMA ListedAt ==
  ASSUME NEW T, NEW l \in Seq(T), NEW x
  PROVE  Listed(l, x) <=> \E i \in 1..Len(l) : l[i] = x
<1>1. DOMAIN l = 1..Len(l)
  OBVIOUS
<1> QED
  BY <1>1 DEF Listed, ToSet

\* Ahead is an order in which nothing precedes itself.
LEMMA AheadOrder ==
  ASSUME NEW T, NEW l \in Seq(T), Distinct(l)
  PROVE  /\ \A a, b, c : Ahead(l, a, b) /\ Ahead(l, b, c) => Ahead(l, a, c)
         /\ \A a : ~Ahead(l, a, a)
         /\ \A a, b : Ahead(l, a, b) => Listed(l, a) /\ Listed(l, b)
<1>1. ASSUME NEW a, NEW b, NEW c, Ahead(l, a, b), Ahead(l, b, c)
      PROVE  Ahead(l, a, c)
  <2>1. PICK i, j \in 1..Len(l) : i < j /\ l[i] = a /\ l[j] = b
    BY <1>1 DEF Ahead
  <2>2. PICK k, m \in 1..Len(l) : k < m /\ l[k] = b /\ l[m] = c
    BY <1>1 DEF Ahead
  <2>3. j = k
    BY <2>1, <2>2 DEF Distinct
  <2>4. i < m
    BY <2>1, <2>2, <2>3
  <2> QED
    BY <2>1, <2>2, <2>4 DEF Ahead
<1>2. ASSUME NEW a, Ahead(l, a, a)
      PROVE  FALSE
  <2>1. PICK i, j \in 1..Len(l) : i < j /\ l[i] = a /\ l[j] = a
    BY <1>2 DEF Ahead
  <2>2. i = j
    BY <2>1 DEF Distinct
  <2> QED
    BY <2>1, <2>2
<1>3. ASSUME NEW a, NEW b, Ahead(l, a, b)
      PROVE  Listed(l, a) /\ Listed(l, b)
  BY <1>3, ListedAt DEF Ahead
<1> QED
  BY <1>1, <1>2, <1>3

\* is_after compares positions.
LEMMA AheadPos ==
  ASSUME NEW T, HEAD \notin T, NEW l \in Seq(T), Distinct(l),
         NEW a, NEW b, Listed(l, a), Listed(l, b)
  PROVE  Ahead(l, a, b) <=> Pos(l, a) < Pos(l, b)
<1>1. a # HEAD /\ b # HEAD
  BY ListedAt
<1>2. /\ Pos(l, a) \in 1..Len(l) /\ l[Pos(l, a)] = a
      /\ Pos(l, b) \in 1..Len(l) /\ l[Pos(l, b)] = b
  BY <1>1, PosOfListed
<1> QED
  BY <1>2 DEF Ahead, Distinct

\* insertAfter leaves the others in their order, and puts the new id, if it was
\* not listed, behind the node (StructuredLinkedList.sol:248-260).
LEMMA InsertAfterOrder ==
  ASSUME NEW T, HEAD \notin T, NEW l \in Seq(T), Distinct(l), NEW node, NEW new \in T
  PROVE  LET m == InsertAfter(l, node, new)
         IN  /\ Distinct(m)
             /\ \A a, b : Ahead(l, a, b) => Ahead(m, a, b)
             /\ \A x : Listed(l, x) => Listed(m, x)
             /\ \A x : Listed(m, x) => Listed(l, x) \/ x = new
             /\ NodeExists(l, node) => Listed(m, new)
             /\ Listed(l, node) /\ ~Listed(l, new) => Ahead(m, node, new)
<1> DEFINE m == InsertAfter(l, node, new)
<1>1. CASE ~CanInsert(l, node, new)
  <2>1. m = l
    BY <1>1 DEF InsertAfter
  <2>2. NodeExists(l, node) => Listed(l, new)
    BY <1>1 DEF CanInsert, NodeExists
  <2>3. Listed(l, node) => NodeExists(l, node)
    BY DEF NodeExists
  <2> QED
    BY <2>1, <2>2, <2>3
<1>2. CASE CanInsert(l, node, new)
  <2> DEFINE p == Pos(l, node) + 1
             at == [i \in 1..Len(l) |-> IF i < p THEN i ELSE i + 1]
  <2>1. /\ Pos(l, node) \in 0..Len(l)
        /\ node # HEAD => Pos(l, node) \in 1..Len(l) /\ l[Pos(l, node)] = node
    <3>1. CASE node = HEAD
      BY <3>1 DEF Pos
    <3>2. CASE node # HEAD
      BY <1>2, <3>2, PosOfListed DEF CanInsert, NodeExists
    <3> QED
      BY <3>1, <3>2
  <2>2. p \in 1..(Len(l)+1) /\ Len(l) \in Nat
    BY <2>1
  <2>3. /\ m \in Seq(T) /\ Len(m) = Len(l) + 1
        /\ \A i \in 1..(Len(l)+1) : m[i] = IF i < p THEN l[i] ELSE IF i = p THEN new ELSE l[i-1]
    <3>1. m = InsertAt(l, p, new)
      BY <1>2 DEF InsertAfter
    <3> HIDE DEF m, p
    <3>2. /\ InsertAt(l, p, new) \in Seq(T)
          /\ Len(InsertAt(l, p, new)) = Len(l) + 1
          /\ \A i \in 1..(Len(l)+1) :
               InsertAt(l, p, new)[i] = IF i < p THEN l[i] ELSE IF i = p THEN new ELSE l[i-1]
      BY <2>2, InsertAtShape
    <3> QED
      BY <3>1, <3>2
  <2>4. \A i \in 1..Len(l) : l[i] # new
    BY <1>2, ListedAt DEF CanInsert, NodeExists
  <2> HIDE DEF m, p
  <2>5. /\ \A i \in 1..Len(l) : at[i] \in 1..Len(m) /\ m[at[i]] = l[i] /\ at[i] # p
        /\ \A i, j \in 1..Len(l) : i < j => at[i] < at[j]
        /\ \A k \in 1..Len(m) : k = p \/ \E i \in 1..Len(l) : k = at[i]
    <3>1. ASSUME NEW i \in 1..Len(l)
          PROVE  at[i] \in 1..Len(m) /\ m[at[i]] = l[i] /\ at[i] # p
      BY <2>2, <2>3
    <3>2. ASSUME NEW i \in 1..Len(l), NEW j \in 1..Len(l), i < j
          PROVE  at[i] < at[j]
      BY <2>2, <3>2
    <3>3. ASSUME NEW k \in 1..Len(m), k # p
          PROVE  \E i \in 1..Len(l) : k = at[i]
      <4>1. CASE k < p
        BY <2>2, <2>3, <4>1
      <4>2. CASE k > p
        <5>1. k - 1 \in 1..Len(l) /\ at[k-1] = k
          BY <2>2, <2>3, <4>2
        <5> QED
          BY <5>1
      <4> QED
        BY <2>2, <3>3, <4>1, <4>2
    <3> QED
      BY <3>1, <3>2, <3>3
  <2>6. m[p] = new /\ p \in 1..Len(m)
    BY <2>2, <2>3
  <2> HIDE DEF at
  <2>7. Distinct(m)
    <3> SUFFICES ASSUME NEW j \in 1..Len(m), NEW k \in 1..Len(m), m[j] = m[k]
                 PROVE  j = k
      BY DEF Distinct
    <3>1. ASSUME NEW i \in 1..Len(m), m[i] = new
          PROVE  i = p
      <4> SUFFICES ASSUME i # p PROVE FALSE
        OBVIOUS
      <4>1. PICK x \in 1..Len(l) : i = at[x]
        BY <2>5
      <4> QED
        BY <2>4, <2>5, <3>1, <4>1
    <3>3. CASE j = p \/ k = p
      BY <2>6, <3>1, <3>3
    <3>2. CASE j # p /\ k # p
      <4>1. PICK x, y \in 1..Len(l) : j = at[x] /\ k = at[y]
        BY <2>5, <3>2
      <4>2. l[x] = l[y]
        BY <2>5, <4>1
      <4> QED
        BY <4>1, <4>2 DEF Distinct
    <3> QED
      BY <3>2, <3>3
  <2>8. ASSUME NEW a, NEW b, Ahead(l, a, b)
        PROVE  Ahead(m, a, b)
    <3>1. PICK i, j \in 1..Len(l) : i < j /\ l[i] = a /\ l[j] = b
      BY <2>8 DEF Ahead
    <3> QED
      BY <2>5, <3>1 DEF Ahead
  <2>9. ASSUME NEW x
        PROVE  /\ Listed(l, x) => Listed(m, x)
               /\ Listed(m, x) => Listed(l, x) \/ x = new
               /\ Listed(m, new)
    <3>1. /\ Listed(m, x) <=> \E i \in 1..Len(m) : m[i] = x
          /\ Listed(l, x) <=> \E i \in 1..Len(l) : l[i] = x
          /\ Listed(m, new) <=> \E i \in 1..Len(m) : m[i] = new
      BY <2>3, ListedAt
    <3>2. Listed(m, new)
      BY <2>6, <3>1
    <3>3. Listed(l, x) => Listed(m, x)
      BY <2>5, <3>1
    <3>4. ASSUME Listed(m, x) PROVE Listed(l, x) \/ x = new
      <4>1. PICK k \in 1..Len(m) : m[k] = x
        BY <3>1, <3>4
      <4>2. CASE k = p
        BY <2>6, <4>1, <4>2
      <4>3. CASE k # p
        <5>1. PICK i \in 1..Len(l) : k = at[i]
          BY <2>5, <4>3
        <5> QED
          BY <2>5, <3>1, <4>1, <5>1
      <4> QED
        BY <4>2, <4>3
    <3> QED
      BY <3>2, <3>3, <3>4
  <2>10. Listed(l, node) => Ahead(m, node, new)
    <3> SUFFICES ASSUME Listed(l, node) PROVE Ahead(m, node, new)
      OBVIOUS
    <3>1. node # HEAD
      BY ListedAt
    <3>2. p - 1 \in 1..Len(m) /\ p - 1 < p /\ m[p-1] = node
      BY <2>1, <2>2, <2>3, <3>1 DEF p
    <3> QED
      BY <2>6, <3>2 DEF Ahead
  <2> QED
    BY <2>7, <2>8, <2>9, <2>10 DEF m
<1> QED
  BY <1>1, <1>2

\* remove takes the node out and leaves the others in their order
\* (StructuredLinkedList.sol:54-65).
LEMMA RemoveNodeOrder ==
  ASSUME NEW T, HEAD \notin T, NEW l \in Seq(T), Distinct(l), NEW node
  PROVE  LET m == RemoveNode(l, node)
         IN  /\ Distinct(m)
             /\ ~Listed(m, node)
             /\ \A x : Listed(m, x) => Listed(l, x)
             /\ \A x : Listed(l, x) /\ x # node => Listed(m, x)
             /\ \A a, b : Ahead(l, a, b) /\ a # node /\ b # node => Ahead(m, a, b)
<1> DEFINE m == RemoveNode(l, node)
<1>1. CASE ~Listed(l, node)
  BY <1>1 DEF RemoveNode
<1>2. CASE Listed(l, node)
  <2> DEFINE p == Pos(l, node)
             at == [i \in 1..(Len(l)-1) |-> IF i < p THEN i ELSE i + 1]
  <2>1. p \in 1..Len(l) /\ l[p] = node /\ Len(l) \in Nat
    <3>1. node # HEAD
      BY <1>2, ListedAt
    <3> QED
      BY <1>2, <3>1, PosOfListed
  <2>2. /\ m \in Seq(T) /\ Len(m) = Len(l) - 1
        /\ \A i \in 1..(Len(l)-1) : m[i] = IF i < p THEN l[i] ELSE l[i+1]
    <3>1. m = RemoveAt(l, p)
      BY <1>2 DEF RemoveNode
    <3> HIDE DEF m, p
    <3>2. /\ RemoveAt(l, p) \in Seq(T)
          /\ Len(RemoveAt(l, p)) = Len(l) - 1
          /\ \A i \in 1..(Len(l)-1) : RemoveAt(l, p)[i] = IF i < p THEN l[i] ELSE l[i+1]
      BY <2>1, RemoveAtShape
    <3> QED
      BY <3>1, <3>2
  <2> HIDE DEF m, p
  <2>3. /\ \A i \in 1..Len(m) : at[i] \in 1..Len(l) /\ m[i] = l[at[i]] /\ at[i] # p
        /\ \A i, j \in 1..Len(m) : at[i] < at[j] => i < j
        /\ \A i, j \in 1..Len(m) : at[i] = at[j] => i = j
        /\ \A k \in 1..Len(l) : k = p \/ \E i \in 1..Len(m) : k = at[i]
    <3>1. ASSUME NEW i \in 1..Len(m)
          PROVE  at[i] \in 1..Len(l) /\ m[i] = l[at[i]] /\ at[i] # p
      BY <2>1, <2>2
    <3>2. ASSUME NEW i \in 1..Len(m), NEW j \in 1..Len(m)
          PROVE  /\ at[i] < at[j] => i < j
                 /\ at[i] = at[j] => i = j
      BY <2>1, <2>2
    <3>3. ASSUME NEW k \in 1..Len(l), k # p
          PROVE  \E i \in 1..Len(m) : k = at[i]
      <4>1. CASE k < p
        <5>1. k \in 1..Len(m) /\ at[k] = k
          BY <2>1, <2>2, <4>1
        <5> QED
          BY <5>1
      <4>2. CASE k > p
        <5>1. k - 1 \in 1..Len(m) /\ at[k-1] = k
          BY <2>1, <2>2, <4>2
        <5> QED
          BY <5>1
      <4>3. k < p \/ k > p
        BY <2>1, <3>3
      <4> QED
        BY <4>1, <4>2, <4>3
    <3> QED
      BY <3>1, <3>2, <3>3
  <2> HIDE DEF at
  <2>4. Distinct(m)
    BY <2>3 DEF Distinct
  <2>5. ASSUME NEW x
        PROVE  /\ ~Listed(m, node)
               /\ Listed(m, x) => Listed(l, x)
               /\ Listed(l, x) /\ x # node => Listed(m, x)
    <3>1. /\ Listed(m, x) <=> \E i \in 1..Len(m) : m[i] = x
          /\ Listed(l, x) <=> \E i \in 1..Len(l) : l[i] = x
          /\ Listed(m, node) <=> \E i \in 1..Len(m) : m[i] = node
      BY <2>2, ListedAt
    <3>2. ~Listed(m, node)
      BY <2>1, <2>3, <3>1 DEF Distinct
    <3>3. ASSUME Listed(l, x), x # node
          PROVE  Listed(m, x)
      <4>1. PICK k \in 1..Len(l) : l[k] = x
        BY <3>1, <3>3
      <4>2. k # p
        BY <2>1, <3>3, <4>1
      <4>3. PICK i \in 1..Len(m) : k = at[i]
        BY <2>3, <4>2
      <4>4. m[i] = x
        BY <2>3, <4>1, <4>3
      <4> QED
        BY <3>1, <4>4
    <3>4. ASSUME Listed(m, x)
          PROVE  Listed(l, x)
      <4>1. PICK i \in 1..Len(m) : m[i] = x
        BY <3>1, <3>4
      <4>2. at[i] \in 1..Len(l) /\ m[i] = l[at[i]]
        BY <2>3
      <4> QED
        BY <3>1, <4>1, <4>2
    <3> QED
      BY <3>2, <3>3, <3>4
  <2>6. ASSUME NEW a, NEW b, Ahead(l, a, b), a # node, b # node
        PROVE  Ahead(m, a, b)
    <3>1. PICK i, j \in 1..Len(l) : i < j /\ l[i] = a /\ l[j] = b
      BY <2>6 DEF Ahead
    <3>2. PICK x, y \in 1..Len(m) : i = at[x] /\ j = at[y]
      BY <2>1, <2>3, <2>6, <3>1
    <3> QED
      BY <2>3, <3>1, <3>2 DEF Ahead
  <2> QED
    BY <2>4, <2>5, <2>6 DEF m
<1> QED
  BY <1>1, <1>2
-----------------------------------------------------------------------------
(* Loops.  A loop of n iterations is specified as a function run of the     *)
(* iteration number, run[i] being computed from run[i-1].  The lemmas say   *)
(* that such a function exists and what holds of it.  They are first-order  *)
(* (the step is a function, the invariant a family of sets), so that each   *)
(* loop can cite them with its own step and invariant.                      *)

\* f is the run of a loop of n iterations from init.
IsRun(f, init, step, n) ==
  /\ f = [i \in 0..n |-> f[i]]
  /\ f[0] = init
  /\ \A i \in 1..n : f[i] = step[<<f[i-1], i>>]

\* The loop's iterations lead through the family S of sets.
LeadsThrough(step, S, n) == \A i \in 1..n : \A x \in S[i-1] : step[<<x, i>>] \in S[i]

\* A non-empty set of natural numbers has a least element.
LEMMA NatMin ==
  ASSUME NEW T, T \subseteq Nat, T # {}
  PROVE  \E x \in T : \A y \in T : ~(y < x)
<1> DEFINE R == OpToRel(<, Nat)
<1>1. IsWellFoundedOn(R, Nat)
  BY NatLessThanWellFounded
<1>2. \E x \in T : \A y \in T : ~ (<<y, x>> \in R)
  <2> HIDE DEF R
  <2> QED
    BY <1>1, WFMin
<1>3. \A x, y \in T : y < x => <<y, x>> \in R
  BY DEF OpToRel
<1> QED
  BY <1>2, <1>3

\* Induction on the iteration number.
LEMMA LoopInvariant ==
  ASSUME NEW n \in Nat, NEW run, NEW S,
         run[0] \in S[0],
         \A i \in 1..n : run[i-1] \in S[i-1] => run[i] \in S[i]
  PROVE  \A i \in 0..n : run[i] \in S[i]
<1> DEFINE Bad == {i \in 0..n : run[i] \notin S[i]}
<1>1. SUFFICES ASSUME Bad # {} PROVE FALSE
  OBVIOUS
<1>2. PICK k \in Bad : \A y \in Bad : ~(y < k)
  <2>1. Bad \subseteq Nat
    OBVIOUS
  <2> HIDE DEF Bad
  <2> QED
    BY <1>1, <2>1, NatMin
<1>3. k \in 1..n
  BY <1>2
<1>4. k - 1 \in 0..n /\ k - 1 < k
  BY <1>3
<1>5. run[k-1] \in S[k-1]
  BY <1>2, <1>4
<1> QED
  BY <1>2, <1>3, <1>5

\* The function exists, and it runs through the family S.
LEMMA LoopExists ==
  ASSUME NEW n \in Nat, NEW S, NEW init \in S[0], NEW step, LeadsThrough(step, S, n)
  PROVE  \E f : IsRun(f, init, step, n) /\ \A i \in 0..n : f[i] \in S[i]
<1> DEFINE Run(f, k) == /\ f = [i \in 0..k |-> f[i]]
                        /\ f[0] = init
                        /\ \A i \in 1..k : f[i] = step[<<f[i-1], i>>]
<1>1. \E f : Run(f, 0)
  <2> DEFINE g == [i \in 0..0 |-> init]
  <2>1. g = [i \in 0..0 |-> g[i]]
    OBVIOUS
  <2>2. g[0] = init
    OBVIOUS
  <2>3. 1..0 = {}
    OBVIOUS
  <2> HIDE DEF g
  <2>4. Run(g, 0)
    BY <2>1, <2>2, <2>3
  <2> QED
    BY <2>4
<1>2. ASSUME NEW k \in 1..n, \E f : Run(f, k-1)
      PROVE  \E f : Run(f, k)
  <2>0. k \in Nat /\ k - 1 \in Nat
    OBVIOUS
  <2>1. PICK g : Run(g, k-1)
    BY <1>2
  <2> DEFINE h == [i \in 0..k |-> IF i = k THEN step[<<g[k-1], k>>] ELSE g[i]]
  <2>2. h = [i \in 0..k |-> h[i]]
    OBVIOUS
  <2>3. \A i \in 0..k : h[i] = IF i = k THEN step[<<g[k-1], k>>] ELSE g[i]
    OBVIOUS
  <2> HIDE DEF h
  <2>4. h[0] = init
    <3>1. 0 \in 0..k /\ 0 # k
      BY <2>0
    <3>2. h[0] = g[0]
      BY <2>3, <3>1
    <3> QED
      BY <2>1, <3>2
  <2>5. ASSUME NEW i \in 1..k PROVE h[i] = step[<<h[i-1], i>>]
    <3>1. i - 1 \in 0..k /\ i - 1 # k /\ i \in 0..k
      BY <2>0
    <3>2. h[i-1] = g[i-1]
      BY <2>3, <3>1
    <3>3. CASE i = k
      BY <2>3, <3>1, <3>2, <3>3
    <3>4. CASE i # k
      <4>1. i \in 1..(k-1)
        BY <2>0, <3>4
      <4>2. g[i] = step[<<g[i-1], i>>]
        BY <2>1, <4>1
      <4> QED
        BY <2>3, <3>1, <3>2, <3>4, <4>2
    <3> QED
      BY <3>3, <3>4
  <2>6. Run(h, k)
    BY <2>2, <2>4, <2>5
  <2> QED
    BY <2>6
<1> HIDE DEF Run
<1> DEFINE T == [k \in Nat |-> IF \E f : Run(f, k) THEN {TRUE} ELSE {}]
           all == [k \in Nat |-> TRUE]
<1>3. \A i \in 0..n : all[i] \in T[i]
  <2>1. all[0] \in T[0]
    BY <1>1
  <2>2. ASSUME NEW i \in 1..n, all[i-1] \in T[i-1]
        PROVE  all[i] \in T[i]
    <3>1. i \in Nat /\ i - 1 \in Nat
      OBVIOUS
    <3>2. \E f : Run(f, i-1)
      BY <2>2, <3>1
    <3>3. \E f : Run(f, i)
      BY <1>2, <3>2
    <3> QED
      BY <3>1, <3>3
  <2> HIDE DEF T, all
  <2> QED
    BY <2>1, <2>2, LoopInvariant
<1>4. PICK f : Run(f, n)
  <2>1. n \in 0..n
    OBVIOUS
  <2>2. all[n] \in T[n]
    <3> HIDE DEF all, T
    <3> QED
      BY <1>3, <2>1
  <2> QED
    BY <2>2
<1> USE DEF Run
<1>5. \A i \in 0..n : f[i] \in S[i]
  <2>1. f[0] \in S[0]
    BY <1>4
  <2>2. \A i \in 1..n : f[i-1] \in S[i-1] => f[i] \in S[i]
    BY <1>4 DEF LeadsThrough
  <2> QED
    BY <2>1, <2>2, LoopInvariant
<1>6. IsRun(f, init, step, n)
  BY <1>4 DEF IsRun
<1> QED
  BY <1>5, <1>6
=============================================================================
