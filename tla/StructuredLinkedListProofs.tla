--------------------- MODULE StructuredLinkedListProofs ---------------------
(***************************************************************************)
(* Theorems about StructuredLinkedList, for any number of nodes: the links *)
(* always form one circle through the head, and every call does to them    *)
(* what IdSequence says of the sequence of ids.                            *)
(***************************************************************************)
EXTENDS StructuredLinkedList, IdListProofs

\* self.list, for the nodes that calls are made with.
Links == [Nodes -> [BOOLEAN -> Nodes]]

\* The nodes that can be inserted.
Ids == Nodes \ {HEAD}

\* The node at place i of the circle of the sequence q, with the head before its
\* first node and again behind its last.
Spot(q, i) == IF i \in 1..Len(q) THEN q[i] ELSE HEAD

\* The links l are those of the circle of q, and no others.
Circle(l, q) ==
  /\ l \in Links
  /\ q \in Seq(Ids)
  /\ Distinct(q)
  /\ \A i \in 0..Len(q) : /\ l[Spot(q, i)][NEXT] = Spot(q, i+1)
                          /\ l[Spot(q, i+1)][PREV] = Spot(q, i)
  /\ \A n \in Ids : ~Listed(q, n) => l[n][NEXT] = HEAD /\ l[n][PREV] = HEAD

\* The places of a circle hold nodes, and only the two ends the head.
LEMMA SpotType ==
  ASSUME NEW q \in Seq(Ids), NEW i \in 0..(Len(q)+1)
  PROVE  /\ Spot(q, i) \in Nodes
         /\ Spot(q, i) = HEAD <=> i = 0 \/ i = Len(q) + 1
         /\ i \in 1..Len(q) => Spot(q, i) = q[i] /\ q[i] \in Ids
<1>1. HEAD \in Nodes /\ Len(q) \in Nat
  BY ListAssumption DEF HEAD, Nodes
<1>2. i \in 1..Len(q) <=> ~(i = 0 \/ i = Len(q) + 1)
  BY <1>1
<1> QED
  BY <1>1, <1>2 DEF Spot, Ids

\* No node is at two places, the head excepted.
LEMMA SpotOnce ==
  ASSUME NEW q \in Seq(Ids), Distinct(q)
  PROVE  /\ \A i, j \in 0..Len(q) : Spot(q, i) = Spot(q, j) => i = j
         /\ \A i, j \in 1..(Len(q)+1) : Spot(q, i) = Spot(q, j) => i = j
<1>1. Len(q) \in Nat
  OBVIOUS
<1>2. ASSUME NEW i \in 0..(Len(q)+1), NEW j \in 0..(Len(q)+1), Spot(q, i) = Spot(q, j)
      PROVE  i = j \/ (i = 0 /\ j = Len(q) + 1) \/ (j = 0 /\ i = Len(q) + 1)
  <2>1. CASE i \in 1..Len(q)
    <3>1. j \in 1..Len(q)
      BY <1>1, <1>2, <2>1, SpotType
    <3>2. q[i] = q[j]
      BY <1>2, <2>1, <3>1 DEF Spot
    <3> QED
      BY <2>1, <3>1, <3>2 DEF Distinct
  <2>2. CASE i \notin 1..Len(q)
    <3>1. (i = 0 \/ i = Len(q) + 1) /\ Spot(q, i) = HEAD
      BY <1>1, <2>2 DEF Spot
    <3>2. j = 0 \/ j = Len(q) + 1
      BY <1>2, <3>1, SpotType
    <3> QED
      BY <3>1, <3>2
  <2> QED
    BY <2>1, <2>2
<1> QED
  BY <1>1, <1>2

\* The head and the listed nodes are those with a place.
LEMMA SpotOfListed ==
  ASSUME NEW q \in Seq(Ids), Distinct(q), NEW n \in Nodes
  PROVE  /\ n = HEAD \/ Listed(q, n) <=> \E i \in 0..Len(q) : n = Spot(q, i)
         /\ Listed(q, n) => Pos(q, n) \in 1..Len(q) /\ Spot(q, Pos(q, n)) = n /\ n # HEAD
<1>1. Len(q) \in Nat
  OBVIOUS
<1>2. Listed(q, n) <=> \E i \in 1..Len(q) : q[i] = n
  BY ListedAt
<1>3. Spot(q, 0) = HEAD /\ 0 \in 0..Len(q)
  BY <1>1 DEF Spot
<1>4. \A i \in 1..Len(q) : Spot(q, i) = q[i] /\ i \in 0..Len(q)
  BY <1>1 DEF Spot
<1>5. ASSUME NEW i \in 0..Len(q), n = Spot(q, i) PROVE n = HEAD \/ Listed(q, n)
  BY <1>1, <1>2, <1>5 DEF Spot
<1>6. ASSUME Listed(q, n)
      PROVE  Pos(q, n) \in 1..Len(q) /\ Spot(q, Pos(q, n)) = n /\ n # HEAD
  <2>1. n # HEAD
    BY <1>2, <1>6 DEF Ids
  <2> QED
    BY <1>4, <1>6, <2>1, PosOfListed
<1> QED
  BY <1>2, <1>3, <1>4, <1>5, <1>6

-----------------------------------------------------------------------------
\* nodeExists, which looks at links only, finds the head and the nodes listed
\* (StructuredLinkedList.sol:125-135).
LEMMA ExistsIffListed ==
  ASSUME NEW l, NEW q, Circle(l, q), NEW n \in Nodes
  PROVE  nodeExists(l, n) <=> n = HEAD \/ Listed(q, n)
<1>1. /\ q \in Seq(Ids) /\ Distinct(q) /\ Len(q) \in Nat
      /\ \A i \in 0..Len(q) : /\ l[Spot(q, i)][NEXT] = Spot(q, i+1)
                              /\ l[Spot(q, i+1)][PREV] = Spot(q, i)
  BY DEF Circle
<1>2. Spot(q, 0) = HEAD /\ l[HEAD][NEXT] = Spot(q, 1)
  <2>1. 0 \in 0..Len(q) /\ 0 + 1 = 1
    BY <1>1
  <2>2. Spot(q, 0) = HEAD
    BY DEF Spot
  <2>3. l[Spot(q, 0)][NEXT] = Spot(q, 0+1)
    BY <1>1, <2>1
  <2> QED
    BY <2>1, <2>2, <2>3
<1>3. ASSUME n = HEAD PROVE nodeExists(l, n)
  <2>1. CASE Len(q) = 0
    BY <1>1, <1>2, <1>3, <2>1 DEF nodeExists, Spot
  <2>2. CASE Len(q) # 0
    <3>1. Spot(q, 1) # HEAD
      BY <1>1, <2>2, SpotType
    <3> QED
      BY <1>2, <1>3, <3>1 DEF nodeExists
  <2> QED
    BY <2>1, <2>2
<1>4. ASSUME Listed(q, n) PROVE nodeExists(l, n)
  <2>1. PICK i \in 1..Len(q) : Spot(q, i) = n
    BY <1>1, <1>4, SpotOfListed
  <2>2. l[n][NEXT] = Spot(q, i+1)
    BY <1>1, <2>1
  <2>3. CASE i = Len(q)
    <3>1. CASE i = 1
      BY <1>2, <2>1, <3>1 DEF nodeExists
    <3>2. CASE i # 1
      <4>1. i - 1 \in 0..Len(q) /\ (i-1) + 1 = i /\ i - 1 # 0 /\ i - 1 # Len(q) + 1
        BY <1>1, <2>1, <3>2
      <4>2. l[n][PREV] = Spot(q, i-1)
        BY <1>1, <2>1, <4>1
      <4>3. Spot(q, i-1) # HEAD
        BY <1>1, <4>1, SpotType
      <4> QED
        BY <4>2, <4>3 DEF nodeExists
    <3> QED
      BY <3>1, <3>2
  <2>4. CASE i # Len(q)
    <3>1. i + 1 \in 0..(Len(q)+1) /\ i + 1 # 0 /\ i + 1 # Len(q) + 1
      BY <1>1, <2>4
    <3>2. Spot(q, i+1) # HEAD
      BY <1>1, <3>1, SpotType
    <3> QED
      BY <2>2, <3>2 DEF nodeExists
  <2> QED
    BY <2>3, <2>4
<1>5. ASSUME n # HEAD, ~Listed(q, n) PROVE ~nodeExists(l, n)
  <2>1. l[n][NEXT] = HEAD /\ l[n][PREV] = HEAD
    BY <1>5 DEF Circle, Ids
  <2>2. l[HEAD][NEXT] # n
    <3>1. CASE Len(q) = 0
      BY <1>1, <1>2, <1>5, <3>1 DEF Spot
    <3>2. CASE Len(q) # 0
      <4>1. 1 \in 0..Len(q)
        BY <1>1, <3>2
      <4> QED
        BY <1>1, <1>2, <1>5, <4>1, SpotOfListed
    <3> QED
      BY <3>1, <3>2
  <2> QED
    BY <2>1, <2>2 DEF nodeExists
<1> QED
  BY <1>3, <1>4, <1>5

\* What linking two nodes writes, in either direction (StructuredLinkedList.sol:269-272).
LEMMA CreateLinkEffect ==
  ASSUME NEW l \in Links, NEW node \in Nodes, NEW link \in Nodes
  PROVE  /\ LET m == _createLink(l, node, link, NEXT)
            IN  /\ m \in Links
                /\ \A n \in Nodes : /\ m[n][NEXT] = IF n = node THEN link ELSE l[n][NEXT]
                                    /\ m[n][PREV] = IF n = link THEN node ELSE l[n][PREV]
         /\ LET m == _createLink(l, node, link, PREV)
            IN  /\ m \in Links
                /\ \A n \in Nodes : /\ m[n][PREV] = IF n = node THEN link ELSE l[n][PREV]
                                    /\ m[n][NEXT] = IF n = link THEN node ELSE l[n][NEXT]
BY DEF Links, _createLink, NEXT, PREV

-----------------------------------------------------------------------------
\* A new node linked between two neighbours is where it would be inserted in the
\* sequence (_insert, StructuredLinkedList.sol:248-260).
LEMMA SpliceIn ==
  ASSUME NEW l, NEW q, Circle(l, q), NEW p \in 0..Len(q),
         NEW new \in Ids, ~Listed(q, new), NEW m \in Links,
         \A n \in Nodes :
           /\ m[n][NEXT] = IF n = new THEN Spot(q, p+1)
                           ELSE IF n = Spot(q, p) THEN new ELSE l[n][NEXT]
           /\ m[n][PREV] = IF n = new THEN Spot(q, p)
                           ELSE IF n = Spot(q, p+1) THEN new ELSE l[n][PREV]
  PROVE  Circle(m, InsertAt(q, p+1, new))
<1> DEFINE r == InsertAt(q, p+1, new)
<1>1. /\ q \in Seq(Ids) /\ Distinct(q) /\ Len(q) \in Nat
      /\ \A i \in 0..Len(q) : /\ l[Spot(q, i)][NEXT] = Spot(q, i+1)
                              /\ l[Spot(q, i+1)][PREV] = Spot(q, i)
      /\ \A n \in Ids : ~Listed(q, n) => l[n][NEXT] = HEAD /\ l[n][PREV] = HEAD
  BY DEF Circle
<1>2. p + 1 \in 1..(Len(q)+1)
  BY <1>1
<1>3. /\ r \in Seq(Ids) /\ Len(r) = Len(q) + 1
      /\ \A i \in 1..(Len(q)+1) :
            r[i] = IF i < p+1 THEN q[i] ELSE IF i = p+1 THEN new ELSE q[i-1]
  <2> DEFINE k == p + 1
  <2>1. k \in 1..(Len(q)+1)
    BY <1>2
  <2> HIDE DEF k
  <2>2. /\ InsertAt(q, k, new) \in Seq(Ids) /\ Len(InsertAt(q, k, new)) = Len(q) + 1
        /\ \A i \in 1..(Len(q)+1) :
             InsertAt(q, k, new)[i] = IF i < k THEN q[i] ELSE IF i = k THEN new ELSE q[i-1]
    BY <1>1, <2>1, InsertAtShape
  <2> QED
    BY <2>2 DEF k
<1> HIDE DEF r
<1>4. \A i \in 0..(Len(q)+2) :
         Spot(r, i) = IF i < p+1 THEN Spot(q, i)
                      ELSE IF i = p+1 THEN new ELSE Spot(q, i-1)
  <2> SUFFICES ASSUME NEW i \in 0..(Len(q)+2)
               PROVE  Spot(r, i) = IF i < p+1 THEN Spot(q, i)
                                   ELSE IF i = p+1 THEN new ELSE Spot(q, i-1)
    OBVIOUS
  <2>1. CASE i = 0 \/ i = Len(q) + 2
    BY <1>1, <1>3, <2>1 DEF Spot
  <2>2. CASE i \in 1..(Len(q)+1)
    BY <1>1, <1>3, <2>2 DEF Spot
  <2> QED
    BY <1>1, <2>1, <2>2
<1>5. \A n \in Nodes : n = HEAD \/ Listed(q, n) => n # new
  BY DEF Ids
<1>6. \A i \in 0..(Len(q)+1) : Spot(q, i) \in Nodes /\ Spot(q, i) # new
  <2> SUFFICES ASSUME NEW i \in 0..(Len(q)+1)
               PROVE  Spot(q, i) \in Nodes /\ Spot(q, i) # new
    OBVIOUS
  <2>1. Spot(q, i) \in Nodes
    BY <1>1, SpotType
  <2>2. CASE i = Len(q) + 1
    <3>1. Spot(q, i) = HEAD
      BY <1>1, <2>2, SpotType
    <3> QED
      BY <1>5, <2>1, <3>1
  <2>3. CASE i \in 0..Len(q)
    <3>1. Spot(q, i) = HEAD \/ Listed(q, Spot(q, i))
      BY <1>1, <2>1, <2>3, SpotOfListed
    <3> QED
      BY <1>5, <2>1, <3>1
  <2> QED
    BY <1>1, <2>2, <2>3
<1>7. /\ \A i, j \in 0..Len(q) : Spot(q, i) = Spot(q, j) => i = j
      /\ \A i, j \in 1..(Len(q)+1) : Spot(q, i) = Spot(q, j) => i = j
  BY <1>1, SpotOnce
<1>8. new \in Nodes /\ new # HEAD
  BY DEF Ids
<1>9. Distinct(r)
  <2>1. \A i \in 1..Len(q) : q[i] # new
    BY <1>1, ListedAt
  <2> DEFINE at(i) == IF i < p+1 THEN i ELSE i - 1
  <2>2. \A i \in 1..(Len(q)+1) : i = p+1 => r[i] = new
    BY <1>1, <1>3
  <2>3. \A i \in 1..(Len(q)+1) : i # p+1 => at(i) \in 1..Len(q) /\ r[i] = q[at(i)]
    BY <1>1, <1>3
  <2>4. \A i, j \in 1..(Len(q)+1) : i # p+1 /\ j # p+1 /\ at(i) = at(j) => i = j
    BY <1>1
  <2> HIDE DEF at
  <2> SUFFICES ASSUME NEW i \in 1..(Len(q)+1), NEW j \in 1..(Len(q)+1), r[i] = r[j]
               PROVE  i = j
    BY <1>3 DEF Distinct
  <2>5. \A k \in 1..(Len(q)+1) : k # p+1 => r[k] # new
    BY <2>1, <2>3
  <2>6. CASE i = p+1 \/ j = p+1
    BY <2>2, <2>6, <2>5
  <2>7. CASE i # p+1 /\ j # p+1
    <3>1. at(i) = at(j)
      <4>1. \A a, b \in 1..Len(q) : q[a] = q[b] => a = b
        BY <1>1 DEF Distinct
      <4>2. at(i) \in 1..Len(q) /\ at(j) \in 1..Len(q) /\ q[at(i)] = q[at(j)]
        BY <2>3, <2>7
      <4> QED
        BY <4>1, <4>2
    <3> QED
      BY <2>4, <2>7, <3>1
  <2> QED
    BY <2>6, <2>7
<1>10. ASSUME NEW i \in 0..Len(r)
       PROVE  m[Spot(r, i)][NEXT] = Spot(r, i+1) /\ m[Spot(r, i+1)][PREV] = Spot(r, i)
  <2>1. CASE i < p
    <3>1. /\ Spot(r, i) = Spot(q, i) /\ Spot(r, i+1) = Spot(q, i+1)
          /\ i \in 0..Len(q) /\ i + 1 \in 1..(Len(q)+1) /\ i \in 0..(Len(q)+1)
          /\ i + 1 \in 0..(Len(q)+1) /\ p + 1 \in 1..(Len(q)+1) /\ i # p /\ i + 1 # p + 1
      BY <1>1, <1>3, <1>4, <2>1
    <3>2. Spot(q, i) # Spot(q, p) /\ Spot(q, i+1) # Spot(q, p+1)
      BY <1>7, <3>1
    <3>3. m[Spot(q, i)][NEXT] = l[Spot(q, i)][NEXT]
      BY <1>6, <3>1, <3>2
    <3>4. m[Spot(q, i+1)][PREV] = l[Spot(q, i+1)][PREV]
      BY <1>6, <3>1, <3>2
    <3> QED
      BY <1>1, <3>1, <3>3, <3>4
  <2>2. CASE i = p
    <3>1. Spot(r, i) = Spot(q, p) /\ Spot(r, i+1) = new /\ p \in 0..(Len(q)+1)
      BY <1>1, <1>3, <1>4, <2>2
    <3>2. Spot(q, p) \in Nodes /\ Spot(q, p) # new
      BY <1>6, <3>1
    <3> QED
      BY <1>8, <3>1, <3>2
  <2>3. CASE i = p + 1
    <3>1. /\ Spot(r, i) = new /\ Spot(r, i+1) = Spot(q, p+1)
          /\ p + 1 \in 0..(Len(q)+1)
      BY <1>1, <1>3, <1>4, <2>3
    <3>2. Spot(q, p+1) \in Nodes /\ Spot(q, p+1) # new
      BY <1>6, <3>1
    <3> QED
      BY <1>8, <3>1, <3>2
  <2>4. CASE i > p + 1
    <3> DEFINE k == i - 1
    <3>1. /\ Spot(r, i) = Spot(q, k) /\ Spot(r, i+1) = Spot(q, k+1)
          /\ k \in 0..Len(q) /\ k + 1 \in 1..(Len(q)+1) /\ k \in 0..(Len(q)+1)
          /\ k + 1 \in 0..(Len(q)+1) /\ p + 1 \in 1..(Len(q)+1) /\ k # p /\ k + 1 # p + 1
      <4>1. i - 1 + 1 = i /\ i + 1 - 1 = i /\ i \in 0..(Len(q)+2) /\ i + 1 \in 0..(Len(q)+2)
        BY <1>1, <1>3
      <4>2. Spot(r, i) = Spot(q, k)
        BY <1>4, <2>4, <4>1
      <4>3. Spot(r, i+1) = Spot(q, k+1)
        BY <1>1, <1>4, <2>4, <4>1
      <4> QED
        BY <1>1, <1>3, <2>4, <4>2, <4>3
    <3> HIDE DEF k
    <3>2. Spot(q, k) # Spot(q, p) /\ Spot(q, k+1) # Spot(q, p+1)
      BY <1>7, <3>1
    <3>3. m[Spot(q, k)][NEXT] = l[Spot(q, k)][NEXT]
      BY <1>6, <3>1, <3>2
    <3>4. m[Spot(q, k+1)][PREV] = l[Spot(q, k+1)][PREV]
      BY <1>6, <3>1, <3>2
    <3> QED
      BY <1>1, <3>1, <3>3, <3>4
  <2> QED
    BY <1>1, <1>3, <2>1, <2>2, <2>3, <2>4
<1>11. ASSUME NEW n \in Ids, ~Listed(r, n)
       PROVE  m[n][NEXT] = HEAD /\ m[n][PREV] = HEAD
  <2>1. \A i \in 1..(Len(q)+1) : r[i] # n
    BY <1>3, <1>11, ListedAt
  <2>2. n # new
    <3>1. r[p+1] = new
      BY <1>1, <1>2, <1>3
    <3> QED
      BY <1>2, <2>1, <3>1
  <2>3. ~Listed(q, n)
    <3> SUFFICES ASSUME NEW i \in 1..Len(q), q[i] = n PROVE FALSE
      BY <1>1, ListedAt
    <3>1. i \in 1..(Len(q)+1) /\ i + 1 \in 1..(Len(q)+1)
      BY <1>1
    <3>2. r[i] # n /\ r[i+1] # n
      BY <2>1, <3>1
    <3>3. CASE i < p + 1
      <4>1. r[i] = q[i]
        BY <1>3, <3>1, <3>3
      <4> QED
        BY <3>2, <4>1
    <3>4. CASE ~(i < p + 1)
      <4>1. ~(i + 1 < p + 1) /\ i + 1 # p + 1 /\ (i + 1) - 1 = i
        BY <1>1, <3>4
      <4>2. r[i+1] = q[i]
        BY <1>3, <3>1, <4>1
      <4> QED
        BY <3>2, <4>2
    <3> QED
      BY <3>3, <3>4
  <2>4. ASSUME NEW i \in 0..(Len(q)+1) PROVE Spot(q, i) # n
    BY <1>1, <2>3, ListedAt DEF Spot, Ids
  <2>5. n \in Nodes /\ Spot(q, p) # n /\ Spot(q, p+1) # n
    BY <1>1, <2>4 DEF Ids
  <2> QED
    BY <1>1, <2>2, <2>3, <2>5
<1> QED
  BY <1>3, <1>9, <1>10, <1>11 DEF Circle, r

\* A listed node whose neighbours are linked past it, and whose own links are
\* deleted, is removed from the sequence (remove, StructuredLinkedList.sol:54-65).
LEMMA SpliceOut ==
  ASSUME NEW l, NEW q, Circle(l, q), NEW p \in 1..Len(q), NEW m \in Links,
         \A n \in Nodes :
           /\ m[n][NEXT] = IF n = q[p] THEN HEAD
                           ELSE IF n = Spot(q, p-1) THEN Spot(q, p+1) ELSE l[n][NEXT]
           /\ m[n][PREV] = IF n = q[p] THEN HEAD
                           ELSE IF n = Spot(q, p+1) THEN Spot(q, p-1) ELSE l[n][PREV]
  PROVE  Circle(m, RemoveAt(q, p))
<1> DEFINE r == RemoveAt(q, p)
<1>1. /\ q \in Seq(Ids) /\ Distinct(q) /\ Len(q) \in Nat
      /\ \A i \in 0..Len(q) : /\ l[Spot(q, i)][NEXT] = Spot(q, i+1)
                              /\ l[Spot(q, i+1)][PREV] = Spot(q, i)
      /\ \A n \in Ids : ~Listed(q, n) => l[n][NEXT] = HEAD /\ l[n][PREV] = HEAD
  BY DEF Circle
<1>2. /\ r \in Seq(Ids) /\ Len(r) = Len(q) - 1
      /\ \A i \in 1..(Len(q)-1) : r[i] = IF i < p THEN q[i] ELSE q[i+1]
  BY <1>1, RemoveAtShape
<1> HIDE DEF r
<1>3. \A i \in 0..Len(q) : Spot(r, i) = IF i < p THEN Spot(q, i) ELSE Spot(q, i+1)
  BY <1>1, <1>2 DEF Spot
<1>4. \A i \in 0..(Len(q)+1) : Spot(q, i) \in Nodes
  BY <1>1, SpotType
<1>5. /\ \A i, j \in 0..Len(q) : Spot(q, i) = Spot(q, j) => i = j
      /\ \A i, j \in 1..(Len(q)+1) : Spot(q, i) = Spot(q, j) => i = j
  BY <1>1, SpotOnce
<1>6. q[p] = Spot(q, p)
  BY DEF Spot
<1>7. Distinct(r)
  <2> DEFINE at(i) == IF i < p THEN i ELSE i + 1
  <2>1. \A i \in 1..(Len(q)-1) : at(i) \in 1..Len(q) /\ r[i] = q[at(i)]
    BY <1>1, <1>2
  <2>2. \A i, j \in 1..(Len(q)-1) : at(i) = at(j) => i = j
    BY <1>1
  <2> HIDE DEF at
  <2> SUFFICES ASSUME NEW i \in 1..(Len(q)-1), NEW j \in 1..(Len(q)-1), r[i] = r[j]
               PROVE  i = j
    BY <1>2 DEF Distinct
  <2>3. \A a, b \in 1..Len(q) : q[a] = q[b] => a = b
    BY <1>1 DEF Distinct
  <2>4. at(i) \in 1..Len(q) /\ at(j) \in 1..Len(q) /\ q[at(i)] = q[at(j)]
    BY <2>1
  <2>5. at(i) = at(j)
    BY <2>3, <2>4
  <2> QED
    BY <2>2, <2>5
<1>8. ASSUME NEW i \in 0..Len(r)
      PROVE  m[Spot(r, i)][NEXT] = Spot(r, i+1) /\ m[Spot(r, i+1)][PREV] = Spot(r, i)
  <2>1. CASE i + 1 < p
    <3>1. /\ Spot(r, i) = Spot(q, i) /\ Spot(r, i+1) = Spot(q, i+1)
          /\ i \in 0..Len(q) /\ i + 1 \in 1..(Len(q)+1) /\ i + 1 \in 0..(Len(q)+1)
          /\ i \in 0..(Len(q)+1) /\ p \in 0..Len(q) /\ p \in 1..(Len(q)+1)
          /\ p - 1 \in 0..Len(q) /\ p + 1 \in 1..(Len(q)+1)
          /\ i # p /\ i # p - 1 /\ i + 1 # p /\ i + 1 # p + 1
      BY <1>1, <1>2, <1>3, <2>1
    <3>2. /\ Spot(q, i) # Spot(q, p-1) /\ Spot(q, i) # Spot(q, p)
          /\ Spot(q, i+1) # Spot(q, p+1) /\ Spot(q, i+1) # Spot(q, p)
      BY <1>5, <3>1
    <3>3. m[Spot(q, i)][NEXT] = l[Spot(q, i)][NEXT]
      BY <1>4, <1>6, <3>1, <3>2
    <3>4. m[Spot(q, i+1)][PREV] = l[Spot(q, i+1)][PREV]
      BY <1>4, <1>6, <3>1, <3>2
    <3> QED
      BY <1>1, <3>1, <3>3, <3>4
  <2>2. CASE i + 1 = p
    <3>1. /\ Spot(r, i) = Spot(q, p-1) /\ Spot(r, i+1) = Spot(q, p+1)
          /\ p \in 0..Len(q) /\ p \in 1..(Len(q)+1)
          /\ p - 1 \in 0..Len(q) /\ p + 1 \in 1..(Len(q)+1)
          /\ p - 1 \in 0..(Len(q)+1) /\ p + 1 \in 0..(Len(q)+1)
          /\ p - 1 # p /\ p + 1 # p
      <4>1. p - 1 = i /\ Spot(r, i+1) = Spot(q, i+1+1) /\ i + 1 + 1 = p + 1
        BY <1>1, <1>2, <1>3, <2>2
      <4> QED
        BY <1>1, <1>2, <1>3, <2>2, <4>1
    <3>2. Spot(q, p-1) # Spot(q, p) /\ Spot(q, p+1) # Spot(q, p)
      BY <1>5, <3>1
    <3> QED
      BY <1>4, <1>6, <3>1, <3>2
  <2>3. CASE i >= p
    <3> DEFINE k == i + 1
    <3>1. /\ Spot(r, i) = Spot(q, k) /\ Spot(r, i+1) = Spot(q, k+1)
          /\ k \in 0..Len(q) /\ k + 1 \in 1..(Len(q)+1) /\ k + 1 \in 0..(Len(q)+1)
          /\ k \in 0..(Len(q)+1) /\ p \in 0..Len(q) /\ p \in 1..(Len(q)+1)
          /\ p - 1 \in 0..Len(q) /\ p + 1 \in 1..(Len(q)+1)
          /\ k # p /\ k # p - 1 /\ k + 1 # p /\ k + 1 # p + 1
      BY <1>1, <1>2, <1>3, <2>3
    <3> HIDE DEF k
    <3>2. /\ Spot(q, k) # Spot(q, p-1) /\ Spot(q, k) # Spot(q, p)
          /\ Spot(q, k+1) # Spot(q, p+1) /\ Spot(q, k+1) # Spot(q, p)
      BY <1>5, <3>1
    <3>3. m[Spot(q, k)][NEXT] = l[Spot(q, k)][NEXT]
      BY <1>4, <1>6, <3>1, <3>2
    <3>4. m[Spot(q, k+1)][PREV] = l[Spot(q, k+1)][PREV]
      BY <1>4, <1>6, <3>1, <3>2
    <3> QED
      BY <1>1, <3>1, <3>3, <3>4
  <2> QED
    BY <1>1, <1>2, <2>1, <2>2, <2>3
<1>9. ASSUME NEW n \in Ids, ~Listed(r, n)
      PROVE  m[n][NEXT] = HEAD /\ m[n][PREV] = HEAD
  <2>1. n \in Nodes /\ n # HEAD
    BY DEF Ids
  <2>2. CASE n = q[p]
    BY <2>1, <2>2
  <2>3. CASE n # q[p]
    <3>1. \A i \in 1..(Len(q)-1) : r[i] # n
      BY <1>2, <1>9, ListedAt
    <3>2. ~Listed(q, n)
      <4> SUFFICES ASSUME NEW i \in 1..Len(q), q[i] = n PROVE FALSE
        BY <1>1, ListedAt
      <4>1. i < p => i \in 1..(Len(q)-1) /\ r[i] = q[i]
        BY <1>1, <1>2
      <4>2. i > p => i - 1 \in 1..(Len(q)-1) /\ r[i-1] = q[i]
        BY <1>1, <1>2
      <4> QED
        BY <1>1, <2>3, <3>1, <4>1, <4>2
    <3>3. ASSUME NEW i \in 0..(Len(q)+1) PROVE Spot(q, i) # n
      BY <1>1, <2>1, <3>2, ListedAt DEF Spot
    <3>4. Spot(q, p-1) # n /\ Spot(q, p+1) # n
      BY <1>1, <3>3
    <3> QED
      BY <1>1, <2>1, <2>3, <3>2, <3>4
  <2> QED
    BY <2>2, <2>3
<1> QED
  BY <1>2, <1>7, <1>8, <1>9 DEF Circle, r

\* The two calls of _createLink in _insert, towards the next node.
LEMMA InsertedNext ==
  ASSUME NEW l, NEW q, Circle(l, q), NEW p \in 0..Len(q), NEW new \in Ids, ~Listed(q, new)
  PROVE  Circle(_createLink(_createLink(l, Spot(q, p), new, NEXT), new, Spot(q, p+1), NEXT),
                InsertAt(q, p+1, new))
<1> DEFINE a  == Spot(q, p)
           c  == Spot(q, p+1)
           l1 == _createLink(l, a, new, NEXT)
           m  == _createLink(l1, new, c, NEXT)
<1>1. l \in Links /\ q \in Seq(Ids) /\ Distinct(q) /\ Len(q) \in Nat
  BY DEF Circle
<1>2. a \in Nodes /\ c \in Nodes /\ new \in Nodes /\ new # HEAD
  BY <1>1, SpotType DEF Ids
<1>3. c # new
  <2>1. c = HEAD \/ Listed(q, c)
    BY <1>1, ListedAt DEF Spot
  <2> QED
    BY <1>2, <2>1
<1> HIDE DEF a, c
<1>4. /\ l1 \in Links
      /\ \A n \in Nodes : /\ l1[n][NEXT] = IF n = a THEN new ELSE l[n][NEXT]
                          /\ l1[n][PREV] = IF n = new THEN a ELSE l[n][PREV]
  BY <1>1, <1>2, CreateLinkEffect
<1> HIDE DEF l1
<1>5. /\ m \in Links
      /\ \A n \in Nodes : /\ m[n][NEXT] = IF n = new THEN c ELSE l1[n][NEXT]
                          /\ m[n][PREV] = IF n = c THEN new ELSE l1[n][PREV]
  BY <1>2, <1>4, CreateLinkEffect
<1> HIDE DEF m
<1>6. \A n \in Nodes :
         /\ m[n][NEXT] = IF n = new THEN c ELSE IF n = a THEN new ELSE l[n][NEXT]
         /\ m[n][PREV] = IF n = new THEN a ELSE IF n = c THEN new ELSE l[n][PREV]
  BY <1>3, <1>4, <1>5
<1>7. Circle(m, InsertAt(q, p+1, new))
  BY <1>5, <1>6, SpliceIn DEF a, c
<1> QED
  BY <1>7 DEF m, l1, a, c

\* The same towards the previous node.
LEMMA InsertedPrev ==
  ASSUME NEW l, NEW q, Circle(l, q), NEW p \in 0..Len(q), NEW new \in Ids, ~Listed(q, new)
  PROVE  Circle(_createLink(_createLink(l, Spot(q, p+1), new, PREV), new, Spot(q, p), PREV),
                InsertAt(q, p+1, new))
<1> DEFINE a  == Spot(q, p)
           c  == Spot(q, p+1)
           l1 == _createLink(l, c, new, PREV)
           m  == _createLink(l1, new, a, PREV)
<1>1. l \in Links /\ q \in Seq(Ids) /\ Distinct(q) /\ Len(q) \in Nat
  BY DEF Circle
<1>2. a \in Nodes /\ c \in Nodes /\ new \in Nodes /\ new # HEAD
  BY <1>1, SpotType DEF Ids
<1>3. a # new
  <2>1. a = HEAD \/ Listed(q, a)
    BY <1>1, ListedAt DEF Spot
  <2> QED
    BY <1>2, <2>1
<1> HIDE DEF a, c
<1>4. /\ l1 \in Links
      /\ \A n \in Nodes : /\ l1[n][PREV] = IF n = c THEN new ELSE l[n][PREV]
                          /\ l1[n][NEXT] = IF n = new THEN c ELSE l[n][NEXT]
  BY <1>1, <1>2, CreateLinkEffect
<1> HIDE DEF l1
<1>5. /\ m \in Links
      /\ \A n \in Nodes : /\ m[n][PREV] = IF n = new THEN a ELSE l1[n][PREV]
                          /\ m[n][NEXT] = IF n = a THEN new ELSE l1[n][NEXT]
  BY <1>2, <1>4, CreateLinkEffect
<1> HIDE DEF m
<1>6. \A n \in Nodes :
         /\ m[n][NEXT] = IF n = new THEN c ELSE IF n = a THEN new ELSE l[n][NEXT]
         /\ m[n][PREV] = IF n = new THEN a ELSE IF n = c THEN new ELSE l[n][PREV]
  BY <1>3, <1>4, <1>5
<1>7. Circle(m, InsertAt(q, p+1, new))
  BY <1>5, <1>6, SpliceIn DEF a, c
<1> QED
  BY <1>7 DEF m, l1, a, c

\* What remove writes.
LEMMA Removed ==
  ASSUME NEW l, NEW q, Circle(l, q), NEW p \in 1..Len(q)
  PROVE  /\ l[q[p]][PREV] = Spot(q, p-1) /\ l[q[p]][NEXT] = Spot(q, p+1)
         /\ Circle([_createLink(l, Spot(q, p-1), Spot(q, p+1), NEXT)
                      EXCEPT ![q[p]] = [d \in BOOLEAN |-> 0]],
                   RemoveAt(q, p))
<1> DEFINE a  == Spot(q, p-1)
           c  == Spot(q, p+1)
           l1 == _createLink(l, a, c, NEXT)
           m  == [l1 EXCEPT ![q[p]] = [d \in BOOLEAN |-> 0]]
<1>1. /\ l \in Links /\ q \in Seq(Ids) /\ Len(q) \in Nat
      /\ \A i \in 0..Len(q) : /\ l[Spot(q, i)][NEXT] = Spot(q, i+1)
                              /\ l[Spot(q, i+1)][PREV] = Spot(q, i)
  BY DEF Circle
<1>2. p \in 0..Len(q) /\ p - 1 \in 0..Len(q) /\ p + 1 \in 0..(Len(q)+1)
      /\ p - 1 \in 0..(Len(q)+1) /\ (p-1) + 1 = p
  BY <1>1
<1>3. q[p] = Spot(q, p)
  BY DEF Spot
<1>4. l[q[p]][PREV] = a /\ l[q[p]][NEXT] = c
  <2>1. l[Spot(q, p-1+1)][PREV] = a
    BY <1>1, <1>2
  <2>2. l[Spot(q, p)][NEXT] = c
    BY <1>1, <1>2
  <2> QED
    BY <1>2, <1>3, <2>1, <2>2
<1>5. a \in Nodes /\ c \in Nodes /\ q[p] \in Nodes
  BY <1>1, <1>2, SpotType DEF Ids
<1> HIDE DEF a, c
<1>6. /\ l1 \in Links
      /\ \A n \in Nodes : /\ l1[n][NEXT] = IF n = a THEN c ELSE l[n][NEXT]
                          /\ l1[n][PREV] = IF n = c THEN a ELSE l[n][PREV]
  BY <1>1, <1>5, CreateLinkEffect
<1> HIDE DEF l1
<1>7. HEAD = 0 /\ 0 \in Nodes
  BY ListAssumption DEF HEAD, Nodes
<1>8. m \in Links
  BY <1>5, <1>6, <1>7 DEF Links
<1>9. \A n \in Nodes :
         /\ m[n][NEXT] = IF n = q[p] THEN HEAD ELSE IF n = a THEN c ELSE l[n][NEXT]
         /\ m[n][PREV] = IF n = q[p] THEN HEAD ELSE IF n = c THEN a ELSE l[n][PREV]
  BY <1>5, <1>6, <1>7 DEF Links, NEXT, PREV
<1> HIDE DEF m
<1>10. Circle(m, RemoveAt(q, p))
  BY <1>8, <1>9, SpliceOut DEF a, c
<1> QED
  BY <1>4, <1>10 DEF m, l1, a, c

-----------------------------------------------------------------------------
(* The sequence met from the head.                                          *)

\* The n nodes met from the head, following NEXT in the links l.
Walk(l, n) ==
  LET at[k \in 0..n] == IF k = 0 THEN HEAD ELSE l[at[k-1]][NEXT]
  IN  [k \in 1..n |-> at[k]]

\* A walk along a circle meets its sequence.
LEMMA WalkIsSequence ==
  ASSUME NEW l, NEW q, Circle(l, q)
  PROVE  Walk(l, Len(q)) = q
<1> DEFINE n  == Len(q)
           at == CHOOSE at : at = [k \in 0..n |-> IF k = 0 THEN HEAD ELSE l[at[k-1]][NEXT]]
           g  == [k \in 0..n |-> Spot(q, k)]
<1>1. /\ q \in Seq(Ids) /\ n \in Nat
      /\ \A i \in 0..n : l[Spot(q, i)][NEXT] = Spot(q, i+1)
  BY DEF Circle
<1>2. Walk(l, n) = [k \in 1..n |-> at[k]]
  BY DEF Walk
<1> HIDE DEF n
<1>3. Spot(q, 0) = HEAD
  BY DEF Spot
<1>4. g = [k \in 0..n |-> IF k = 0 THEN HEAD ELSE l[g[k-1]][NEXT]]
  <2>1. ASSUME NEW k \in 0..n
        PROVE  Spot(q, k) = IF k = 0 THEN HEAD ELSE l[g[k-1]][NEXT]
    <3>1. CASE k = 0
      BY <1>3, <3>1
    <3>2. CASE k # 0
      <4>1. k - 1 \in 0..n /\ (k-1) + 1 = k
        BY <1>1, <3>2
      <4>2. g[k-1] = Spot(q, k-1)
        BY <4>1
      <4>3. l[Spot(q, k-1)][NEXT] = Spot(q, k-1+1)
        BY <1>1, <4>1
      <4> QED
        BY <3>2, <4>1, <4>2, <4>3
    <3> QED
      BY <3>1, <3>2
  <2> HIDE DEF g
  <2>2. g = [k \in 0..n |-> Spot(q, k)]
    BY DEF g
  <2> QED
    BY <2>1, <2>2
<1> HIDE DEF g
<1>5. at = [k \in 0..n |-> IF k = 0 THEN HEAD ELSE l[at[k-1]][NEXT]]
  BY <1>4
<1> HIDE DEF at
<1> DEFINE S == [i \in 0..n |-> {Spot(q, i)}]
<1>6. at[0] \in S[0]
  BY <1>1, <1>3, <1>5
<1>7. ASSUME NEW i \in 1..n, at[i-1] \in S[i-1]
      PROVE  at[i] \in S[i]
  <2>1. i - 1 \in 0..n /\ i \in 0..n /\ (i-1) + 1 = i
    BY <1>1
  <2>2. at[i-1] = Spot(q, i-1)
    BY <1>7, <2>1
  <2>3. at[i] = l[at[i-1]][NEXT]
    BY <1>1, <1>5, <2>1
  <2>4. at[i] = Spot(q, i)
    BY <1>1, <2>1, <2>2, <2>3
  <2> QED
    BY <2>1, <2>4
<1>8. \A i \in 1..n : S[i] = {q[i]}
  BY <1>1 DEF Spot, n
<1> HIDE DEF S
<1>9. \A i \in 0..n : at[i] \in S[i]
  BY <1>1, <1>6, <1>7, LoopInvariant
<1>10. \A i \in 1..n : at[i] = q[i]
  BY <1>1, <1>8, <1>9
<1>11. q = [i \in 1..n |-> q[i]]
  BY <1>1 DEF n
<1>12. Walk(l, n) = q
  BY <1>2, <1>10, <1>11
<1> QED
  BY <1>12 DEF n

\* The walk of the module is that one.
LEMMA ForwardIsWalk == Forward = Walk(links, size)
BY DEF Forward, Walk

-----------------------------------------------------------------------------
(* Every call keeps the circle, and acts on its sequence as IdSequence says. *)

\* The links are the circle of the sequence met from the head, and size is its
\* length.
Inv ==
  /\ Circle(links, Forward)
  /\ size = Len(Forward)
  /\ ret \in Nodes \cup {0, 1}

\* A circle is that of the sequence met from the head.
LEMMA ForwardOfCircle ==
  /\ \A q : Circle(links, q) /\ size = Len(q) => Forward = q
  /\ \A q : Circle(links', q) /\ size' = Len(q) => Forward' = q
<1>1. Forward' = Walk(links', size')
  BY DEF Forward, Walk
<1> QED
  BY <1>1, ForwardIsWalk, WalkIsSequence

\* The abstract specification has its own copy of the operators on lists.
LEMMA SameLists ==
  ASSUME NEW l, NEW node, NEW new
  PROVE  /\ Abstract!CanInsert(l, node, new) = CanInsert(l, node, new)
         /\ Abstract!InsertAfter(l, node, new) = InsertAfter(l, node, new)
         /\ Abstract!InsertBefore(l, node, new) = InsertBefore(l, node, new)
         /\ Abstract!Listed(l, node) = Listed(l, node)
         /\ Abstract!RemoveNode(l, node) = RemoveNode(l, node)
<1>1. \A n : Abstract!Listed(l, n) = Listed(l, n)
  BY DEF Abstract!Listed, Listed, Abstract!ToSet, ToSet
<1>2. \A n : Abstract!NodeExists(l, n) = NodeExists(l, n)
  BY <1>1 DEF Abstract!NodeExists, NodeExists, Abstract!HEAD, HEAD
<1>3. Abstract!CanInsert(l, node, new) = CanInsert(l, node, new)
  BY <1>2 DEF Abstract!CanInsert, CanInsert
<1>4. Abstract!Pos(l, node) = Pos(l, node)
  BY DEF Abstract!Pos, Pos, Abstract!HEAD, HEAD
<1>5. \A i, x : Abstract!InsertAt(l, i, x) = InsertAt(l, i, x)
  BY DEF Abstract!InsertAt, InsertAt
<1>6. \A i : Abstract!RemoveAt(l, i) = RemoveAt(l, i)
  BY DEF Abstract!RemoveAt, RemoveAt
<1>7. Abstract!InsertAfter(l, node, new) = InsertAfter(l, node, new)
  BY <1>3, <1>4, <1>5 DEF Abstract!InsertAfter, InsertAfter
<1>8. Abstract!InsertBefore(l, node, new) = InsertBefore(l, node, new)
  BY <1>3, <1>4, <1>5 DEF Abstract!InsertBefore, InsertBefore, Abstract!HEAD, HEAD
<1>9. Abstract!RemoveNode(l, node) = RemoveNode(l, node)
  BY <1>1, <1>4, <1>6 DEF Abstract!RemoveNode, RemoveNode
<1> QED
  BY <1>1, <1>3, <1>7, <1>8, <1>9

\* A call that leaves the circle of another sequence has made it the sequence.
LEMMA NewCircle ==
  ASSUME NEW q, Circle(links', q), size' = Len(q), ret' \in Nodes \cup {0, 1}
  PROVE  Forward' = q /\ Inv'
<1>1. Forward' = q
  BY ForwardOfCircle
<1>2. Circle(links', Forward')
  BY <1>1
<1>3. Circle(links, Forward)' <=> Circle(links', Forward')
  BY DEF Circle, Spot
<1> QED
  BY <1>1, <1>2, <1>3 DEF Inv

\* What the guard of _insert tells of the sequence.
LEMMA InsertGuard ==
  ASSUME Inv, NEW node \in Nodes, NEW new \in Nodes
  PROVE  ~nodeExists(links, new) /\ nodeExists(links, node) <=> CanInsert(Forward, node, new)
BY ExistsIffListed DEF Inv, CanInsert, NodeExists

\* insertAfter, and pushFront when the node is the head
\* (StructuredLinkedList.sol:33-35, 73-75).
LEMMA InsertAfterKeeps ==
  ASSUME Inv, NEW node \in Nodes, NEW new \in Nodes, _insert(node, new, NEXT)
  PROVE  Inv' /\ Abstract!insertAfter(node, new)
<1> DEFINE q == Forward
<1>1. Circle(links, q) /\ q \in Seq(Ids) /\ Distinct(q) /\ Len(q) \in Nat /\ size = Len(q)
  BY DEF Inv, Circle
<1>2. CASE ~CanInsert(q, node, new)
  <2>1. ret' = 0 /\ size' = size /\ links' = links
    BY <1>2, InsertGuard DEF _insert
  <2>2. InsertAfter(q, node, new) = q
    BY <1>2 DEF InsertAfter
  <2>3. Circle(links', q) /\ size' = Len(q)
    BY <1>1, <2>1
  <2>4. Forward' = q /\ Inv'
    BY <2>1, <2>3, NewCircle
  <2> QED
    BY <1>2, <2>1, <2>2, <2>4, SameLists DEF Abstract!insertAfter
<1>3. CASE CanInsert(q, node, new)
  <2> DEFINE p == Pos(q, node)
  <2>1. new \in Ids /\ ~Listed(q, new) /\ (node = HEAD \/ Listed(q, node))
    BY <1>3 DEF CanInsert, NodeExists, Ids
  <2>2. p \in 0..Len(q) /\ Spot(q, p) = node
    <3>1. CASE node = HEAD
      BY <1>1, <3>1 DEF Pos, Spot
    <3>2. CASE node # HEAD
      BY <1>1, <2>1, <3>2, SpotOfListed
    <3> QED
      BY <3>1, <3>2
  <2>3. links[node][NEXT] = Spot(q, p+1)
    BY <1>1, <2>2 DEF Circle
  <2>4. /\ links' = _createLink(_createLink(links, node, new, NEXT), new, links[node][NEXT], NEXT)
        /\ size' = size + 1 /\ ret' = 1
    BY <1>3, InsertGuard DEF _insert
  <2> HIDE DEF p
  <2>5. Circle(links', InsertAt(q, p+1, new))
    BY <1>1, <2>1, <2>2, <2>3, <2>4, InsertedNext
  <2>6. Len(InsertAt(q, p+1, new)) = Len(q) + 1
    <3>1. p + 1 \in 1..(Len(q)+1)
      BY <1>1, <2>2
    <3> QED
      BY <1>1, <2>1, <3>1, InsertAtShape
  <2>7. Forward' = InsertAt(q, p+1, new) /\ Inv'
    BY <1>1, <2>4, <2>5, <2>6, NewCircle
  <2>8. InsertAfter(q, node, new) = InsertAt(q, p+1, new)
    BY <1>3 DEF InsertAfter, p
  <2> QED
    BY <1>3, <2>4, <2>7, <2>8, SameLists DEF Abstract!insertAfter
<1> QED
  BY <1>2, <1>3

\* insertBefore, and pushBack when the node is the head
\* (StructuredLinkedList.sol:44-46, 83-85).
LEMMA InsertBeforeKeeps ==
  ASSUME Inv, NEW node \in Nodes, NEW new \in Nodes, _insert(node, new, PREV)
  PROVE  Inv' /\ Abstract!insertBefore(node, new)
<1> DEFINE q == Forward
<1>1. Circle(links, q) /\ q \in Seq(Ids) /\ Distinct(q) /\ Len(q) \in Nat /\ size = Len(q)
  BY DEF Inv, Circle
<1>2. CASE ~CanInsert(q, node, new)
  <2>1. ret' = 0 /\ size' = size /\ links' = links
    BY <1>2, InsertGuard DEF _insert
  <2>2. InsertBefore(q, node, new) = q
    BY <1>2 DEF InsertBefore
  <2>3. Circle(links', q) /\ size' = Len(q)
    BY <1>1, <2>1
  <2>4. Forward' = q /\ Inv'
    BY <2>1, <2>3, NewCircle
  <2> QED
    BY <1>2, <2>1, <2>2, <2>4, SameLists DEF Abstract!insertBefore
<1>3. CASE CanInsert(q, node, new)
  <2> DEFINE p == IF node = HEAD THEN Len(q) ELSE Pos(q, node) - 1
  <2>1. new \in Ids /\ ~Listed(q, new) /\ (node = HEAD \/ Listed(q, node))
    BY <1>3 DEF CanInsert, NodeExists, Ids
  <2>2. /\ p \in 0..Len(q) /\ Spot(q, p+1) = node
        /\ p + 1 = IF node = HEAD THEN Len(q) + 1 ELSE Pos(q, node)
    <3>1. CASE node = HEAD
      BY <1>1, <3>1 DEF Spot
    <3>2. CASE node # HEAD
      <4>1. Pos(q, node) \in 1..Len(q) /\ Spot(q, Pos(q, node)) = node
        BY <1>1, <2>1, <3>2, SpotOfListed
      <4> QED
        BY <1>1, <3>2, <4>1
    <3> QED
      BY <3>1, <3>2
  <2>3. links[node][PREV] = Spot(q, p)
    BY <1>1, <2>2 DEF Circle
  <2>4. /\ links' = _createLink(_createLink(links, node, new, PREV), new, links[node][PREV], PREV)
        /\ size' = size + 1 /\ ret' = 1
    BY <1>3, InsertGuard DEF _insert
  <2> HIDE DEF p
  <2>5. Circle(links', InsertAt(q, p+1, new))
    BY <1>1, <2>1, <2>2, <2>3, <2>4, InsertedPrev
  <2>6. Len(InsertAt(q, p+1, new)) = Len(q) + 1
    <3>1. p + 1 \in 1..(Len(q)+1)
      BY <1>1, <2>2
    <3> QED
      BY <1>1, <2>1, <3>1, InsertAtShape
  <2>7. Forward' = InsertAt(q, p+1, new) /\ Inv'
    BY <1>1, <2>4, <2>5, <2>6, NewCircle
  <2>8. InsertBefore(q, node, new) = InsertAt(q, p+1, new)
    BY <1>3, <2>2 DEF InsertBefore
  <2> QED
    BY <1>3, <2>4, <2>7, <2>8, SameLists DEF Abstract!insertBefore
<1> QED
  BY <1>2, <1>3

\* remove (StructuredLinkedList.sol:54-65).
LEMMA RemoveKeeps ==
  ASSUME Inv, NEW node \in Nodes, remove(node)
  PROVE  Inv' /\ Abstract!remove(node)
<1> DEFINE q == Forward
<1>1. Circle(links, q) /\ q \in Seq(Ids) /\ Distinct(q) /\ Len(q) \in Nat /\ size = Len(q)
  BY DEF Inv, Circle
<1>2. (node = HEAD \/ ~nodeExists(links, node)) <=> ~Listed(q, node)
  <2>1. Listed(q, node) => node # HEAD
    BY <1>1, SpotOfListed
  <2>2. nodeExists(links, node) <=> node = HEAD \/ Listed(q, node)
    BY <1>1, ExistsIffListed
  <2> QED
    BY <2>1, <2>2
<1>3. CASE ~Listed(q, node)
  <2>1. ret' = 0 /\ size' = size /\ links' = links
    BY <1>2, <1>3 DEF remove
  <2>2. RemoveNode(q, node) = q
    BY <1>3 DEF RemoveNode
  <2>3. Circle(links', q) /\ size' = Len(q)
    BY <1>1, <2>1
  <2>4. Forward' = q /\ Inv'
    BY <2>1, <2>3, NewCircle
  <2> QED
    BY <1>3, <2>1, <2>2, <2>4, SameLists DEF Abstract!remove
<1>4. CASE Listed(q, node)
  <2> DEFINE p == Pos(q, node)
  <2>1. p \in 1..Len(q) /\ q[p] = node
    BY <1>1, <1>4, SpotOfListed DEF Spot
  <2>2. /\ links' = [_createLink(links, links[node][PREV], links[node][NEXT], NEXT)
                       EXCEPT ![node] = [d \in BOOLEAN |-> 0]]
        /\ size' = size - 1 /\ ret' = node
    BY <1>2, <1>4 DEF remove
  <2> HIDE DEF p
  <2>3. Circle(links', RemoveAt(q, p))
    BY <1>1, <2>1, <2>2, Removed
  <2>4. Len(RemoveAt(q, p)) = Len(q) - 1
    BY <1>1, <2>1, RemoveAtShape
  <2>5. Forward' = RemoveAt(q, p) /\ Inv'
    BY <1>1, <2>2, <2>3, <2>4, NewCircle
  <2>6. RemoveNode(q, node) = RemoveAt(q, p)
    BY <1>4 DEF RemoveNode, p
  <2> QED
    BY <1>4, <2>2, <2>5, <2>6, SameLists DEF Abstract!remove
<1> QED
  BY <1>3, <1>4

\* The pops remove the two ends, or nothing (StructuredLinkedList.sol:234-238).
LEMMA PopKeeps ==
  ASSUME Inv
  PROVE  /\ popFront => Inv' /\ Abstract!popFront
         /\ popBack => Inv' /\ Abstract!popBack
<1> DEFINE q == Forward
           n == Len(q)
<1>1. /\ q \in Seq(Ids) /\ n \in Nat /\ Circle(links, q)
      /\ \A i \in 0..n : /\ links[Spot(q, i)][NEXT] = Spot(q, i+1)
                         /\ links[Spot(q, i+1)][PREV] = Spot(q, i)
  BY DEF Inv, Circle
<1>2. HEAD \in Nodes
  BY ListAssumption DEF HEAD, Nodes
<1>3. nodeExists(links, HEAD)
  BY <1>1, <1>2, ExistsIffListed
<1>4. Spot(q, 0) = HEAD /\ Spot(q, n+1) = HEAD
  BY <1>1 DEF Spot
<1>5. /\ 0 \in 0..n /\ n \in 0..n /\ 0 + 1 = 1
      /\ 1 \in 0..(n+1) /\ n \in 0..(n+1)
  BY <1>1
<1>6. links[HEAD][NEXT] = Spot(q, 1) /\ links[HEAD][PREV] = Spot(q, n)
  BY <1>1, <1>4, <1>5
<1>7. Spot(q, 1) \in Nodes /\ Spot(q, n) \in Nodes
  BY <1>1, <1>5, SpotType
<1>8. /\ Spot(q, 1) = IF q = <<>> THEN HEAD ELSE q[1]
      /\ Spot(q, n) = IF q = <<>> THEN HEAD ELSE q[n]
  <2>1. q = <<>> <=> n = 0
    BY <1>1
  <2> QED
    BY <1>1, <2>1 DEF Spot
<1>9. ASSUME popFront PROVE Inv' /\ Abstract!popFront
  <2>1. remove(Spot(q, 1))
    BY <1>3, <1>6, <1>9 DEF popFront, _pop, getAdjacent
  <2>2. Inv' /\ Abstract!remove(Spot(q, 1))
    BY <1>7, <2>1, RemoveKeeps
  <2> QED
    BY <1>8, <2>2 DEF Abstract!popFront, Abstract!HEAD, HEAD
<1>10. ASSUME popBack PROVE Inv' /\ Abstract!popBack
  <2>1. remove(Spot(q, n))
    BY <1>3, <1>6, <1>10 DEF popBack, _pop, getAdjacent
  <2>2. Inv' /\ Abstract!remove(Spot(q, n))
    BY <1>7, <2>1, RemoveKeeps
  <2> QED
    BY <1>8, <2>2 DEF Abstract!popBack, Abstract!HEAD, HEAD
<1> QED
  BY <1>9, <1>10

\* No link is set at first, which is the circle of the empty sequence.
LEMMA InvInit ==
  ASSUME Init
  PROVE  Inv /\ Forward = <<>>
<1>1. 0 \in Nodes /\ HEAD = 0 /\ size = 0 /\ ret = 1
      /\ links = [n \in Nodes |-> [d \in BOOLEAN |-> 0]]
  BY ListAssumption DEF Init, HEAD, Nodes
<1>2. Circle(links, <<>>)
  <2>1. links \in Links
    BY <1>1 DEF Links
  <2>2. <<>> \in Seq(Ids) /\ Len(<<>>) = 0 /\ Distinct(<<>>)
    BY DEF Distinct
  <2>3. \A i \in 0..0 : Spot(<<>>, i) = HEAD /\ Spot(<<>>, i+1) = HEAD
    BY <2>2 DEF Spot
  <2>4. \A n \in Nodes : links[n][NEXT] = 0 /\ links[n][PREV] = 0
    BY <1>1 DEF NEXT, PREV
  <2> QED
    BY <1>1, <2>1, <2>2, <2>3, <2>4 DEF Circle, Ids
<1>3. size = Len(<<>>)
  BY <1>1
<1>4. Forward = <<>>
  BY <1>2, <1>3, ForwardOfCircle
<1> QED
  BY <1>1, <1>2, <1>3, <1>4 DEF Inv

\* Every step keeps the circle and is a step of the sequence, or leaves it alone.
LEMMA InvNext ==
  ASSUME Inv, [Next]_vars
  PROVE  Inv' /\ [Abstract!Next]_<<Forward, ret>>
<1>1. HEAD \in Nodes /\ Nodes = Abstract!Nodes
  BY ListAssumption DEF HEAD, Nodes, Abstract!Nodes, Abstract!HEAD
<1>2. ASSUME NEW node \in Nodes, NEW new \in Nodes, insertAfter(node, new)
      PROVE  Inv' /\ Abstract!Next
  BY <1>1, <1>2, InsertAfterKeeps DEF insertAfter, Abstract!Next
<1>3. ASSUME NEW node \in Nodes, NEW new \in Nodes, insertBefore(node, new)
      PROVE  Inv' /\ Abstract!Next
  BY <1>1, <1>3, InsertBeforeKeeps DEF insertBefore, Abstract!Next
<1>4. ASSUME NEW node \in Nodes, pushFront(node)
      PROVE  Inv' /\ Abstract!Next
  BY <1>1, <1>4, InsertAfterKeeps DEF pushFront, Abstract!Next
<1>5. ASSUME NEW node \in Nodes, pushBack(node)
      PROVE  Inv' /\ Abstract!Next
  BY <1>1, <1>5, InsertBeforeKeeps DEF pushBack, Abstract!Next
<1>6. ASSUME NEW node \in Nodes, remove(node)
      PROVE  Inv' /\ Abstract!Next
  BY <1>1, <1>6, RemoveKeeps DEF Abstract!Next
<1>7. ASSUME popFront \/ popBack
      PROVE  Inv' /\ Abstract!Next
  BY <1>7, PopKeeps DEF Abstract!Next
<1>8. ASSUME UNCHANGED vars
      PROVE  Inv' /\ UNCHANGED <<Forward, ret>>
  <2>1. links' = links /\ size' = size /\ ret' = ret
    BY <1>8 DEF vars
  <2>2. Circle(links', Forward) /\ size' = Len(Forward) /\ ret' \in Nodes \cup {0, 1}
    BY <2>1 DEF Inv
  <2>3. Forward' = Forward /\ Inv'
    BY <2>2, NewCircle
  <2> QED
    BY <2>1, <2>3
<1> QED
  BY <1>2, <1>3, <1>4, <1>5, <1>6, <1>7, <1>8 DEF Next

\* The list keeps its types: links lead to nodes, the size is never negative.
THEOREM ListTypeOK == Spec => []TypeOK
<1>1. Inv => TypeOK
  BY DEF Inv, Circle, Links, TypeOK
<1> QED
  BY <1>1, InvInit, InvNext, PTL DEF Spec

\* In a circle next and previous are inverse of each other, lead from listed nodes
\* to listed nodes, a walk meets each of them once, and nothing else has a link.
LEMMA CircleIsOne ==
  ASSUME Inv
  PROVE  LinksFormOneCircle
<1> DEFINE q == Forward
           n == Len(q)
<1>1. /\ q \in Seq(Ids) /\ Distinct(q) /\ n \in Nat
      /\ Circle(links, q) /\ links \in Links
      /\ \A i \in 0..n : /\ links[Spot(q, i)][NEXT] = Spot(q, i+1)
                         /\ links[Spot(q, i+1)][PREV] = Spot(q, i)
      /\ \A x \in Ids : ~Listed(q, x) => links[x][NEXT] = HEAD /\ links[x][PREV] = HEAD
  BY DEF Inv, Circle
<1>2. \A x \in Nodes : nodeExists(links, x) <=> x = HEAD \/ Listed(q, x)
  BY <1>1, ExistsIffListed
<1>3. \A x \in Nodes : x \in Present <=> \E i \in 0..n : x = Spot(q, i)
  BY <1>1, <1>2, SpotOfListed DEF Present
<1> HIDE DEF n
<1>4. \A i \in 0..(n+1) : Spot(q, i) \in Present
  <2> SUFFICES ASSUME NEW i \in 0..(n+1) PROVE Spot(q, i) \in Present
    OBVIOUS
  <2>1. Spot(q, i) \in Nodes
    BY <1>1, SpotType DEF n
  <2>2. \E j \in 0..n : Spot(q, i) = Spot(q, j)
    <3>1. CASE i \in 0..n
      BY <3>1
    <3>2. CASE i = n + 1
      <4>1. Spot(q, n+1) = HEAD /\ Spot(q, 0) = HEAD
        BY <1>1 DEF Spot, n
      <4> QED
        BY <1>1, <3>2, <4>1
    <3> QED
      BY <1>1, <3>1, <3>2
  <2> QED
    BY <1>3, <2>1, <2>2
<1>5. ASSUME NEW x \in Present
      PROVE  /\ links[x][NEXT] \in Present /\ links[links[x][NEXT]][PREV] = x
             /\ links[x][PREV] \in Present /\ links[links[x][PREV]][NEXT] = x
  <2>1. x \in Nodes
    BY DEF Present
  <2>2. PICK i \in 0..n : x = Spot(q, i)
    BY <1>3, <2>1
  <2>3. i + 1 \in 0..(n+1)
    BY <1>1, <2>2
  <2>4. links[x][NEXT] \in Present /\ links[links[x][NEXT]][PREV] = x
    BY <1>1, <1>4, <2>2, <2>3
  <2>5. PICK j \in 0..n : x = Spot(q, j+1)
    <3>1. CASE i = 0
      <4>1. Spot(q, n+1) = HEAD /\ Spot(q, 0) = HEAD /\ n \in 0..n
        BY <1>1 DEF Spot, n
      <4> QED
        BY <2>2, <3>1, <4>1
    <3>2. CASE i # 0
      <4>1. i - 1 \in 0..n /\ (i-1) + 1 = i
        BY <1>1, <3>2
      <4> QED
        BY <2>2, <4>1
    <3> QED
      BY <3>1, <3>2
  <2>6. j \in 0..(n+1)
    BY <1>1, <2>5
  <2>7. links[x][PREV] \in Present /\ links[links[x][PREV]][NEXT] = x
    BY <1>1, <1>4, <2>5, <2>6
  <2> QED
    BY <2>4, <2>7
<1>6. ASSUME NEW x \in Nodes \ Present
      PROVE  links[x] = [d \in BOOLEAN |-> 0]
  <2>1. x \in Ids /\ ~Listed(q, x)
    BY <1>2 DEF Present, Ids
  <2>2. links[x][NEXT] = 0 /\ links[x][PREV] = 0
    BY <1>1, <2>1 DEF HEAD
  <2>3. links[x] \in [BOOLEAN -> Nodes]
    BY <1>1 DEF Links
  <2> QED
    BY <2>2, <2>3 DEF NEXT, PREV
<1>7. ASSUME NEW x \in Present, NEW d \in BOOLEAN
      PROVE  links[x][d] \in Present /\ links[links[x][d]][~d] = x
  <2>1. CASE d = NEXT
    BY <1>5, <2>1 DEF NEXT, PREV
  <2>2. CASE d = PREV
    BY <1>5, <2>2 DEF NEXT, PREV
  <2> QED
    BY <2>1, <2>2 DEF NEXT, PREV
<1>8. ToSet(Forward) = Present \ {HEAD}
  <2>1. \A x \in Nodes \ {HEAD} : x \in Present <=> x \in ToSet(Forward)
    BY <1>2 DEF Listed, Present
  <2>2. Forward \in Seq(Ids)
    BY DEF Inv, Circle
  <2>3. ToSet(Forward) \subseteq Nodes \ {HEAD}
    BY <2>2 DEF Ids, ToSet
  <2>4. HEAD \notin ToSet(Forward)
    BY <2>3
  <2> QED
    BY <2>1, <2>3, <2>4 DEF Present
<1>9. \A j, k \in 1..size : Forward[j] = Forward[k] => j = k
  BY DEF Inv, Circle, Distinct
<1> QED
  BY <1>6, <1>7, <1>8, <1>9 DEF LinksFormOneCircle

\* After any calls the links form one circle in both directions, through all the
\* nodes that size counts, and no removed or never inserted node has a link
\* (StructuredLinkedList.sol:54-65, 248-272).
THEOREM ListOneCircle == Spec => []LinksFormOneCircle
<1>1. Inv => LinksFormOneCircle
  BY CircleIsOne
<1> QED
  BY <1>1, InvInit, InvNext, PTL DEF Spec

\* The list is the sequence of ids that its callers take it for, call by call and
\* result by result (ConsensusContract.sol uses it so).
THEOREM ListImplementsSequence == Spec => ImplementsSequence
<1>1. Init => Inv /\ Abstract!Init
  BY InvInit DEF Init, Abstract!Init
<1>2. Inv /\ [Next]_vars => Inv' /\ [Abstract!Next]_<<Forward, ret>>
  BY InvNext
<1> QED
  BY <1>1, <1>2, PTL DEF Spec, ImplementsSequence, Abstract!Spec
=============================================================================
