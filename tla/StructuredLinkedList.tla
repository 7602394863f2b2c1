------------------------ MODULE StructuredLinkedList ------------------------
(***************************************************************************)
(* truffle/contracts/StructuredLinkedList.sol: a doubly linked circular    *)
(* list in a mapping(node => mapping(direction => node)), closed by the    *)
(* sentinel HEAD = 0.  An unset link reads 0, so a node that is absent     *)
(* looks like a node alone between the head and itself; nodeExists tells   *)
(* them apart by the head's own link.  getSortedSpot is not modelled: it   *)
(* changes nothing and nothing calls it.                                   *)
(***************************************************************************)
EXTENDS IdList   \* HEAD, and the sequences of ids that such lists stand for

CONSTANT MaxNode   \* the nodes that calls are made with: 0..MaxNode

ASSUME ListAssumption == MaxNode \in Nat

VARIABLES size, links, ret   \* self.size, self.list, the word the last call
                           \* returned (a bool is 0 or 1)

vars == <<size, links, ret>>

PREV == FALSE
NEXT == TRUE
Nodes == HEAD..MaxNode

\* Mutant of nodeExists: a node alone in the list is taken for absent.
nodeExistsByLinks(l, node) == l[node][PREV] # HEAD \/ l[node][NEXT] # HEAD \/ node = HEAD

nodeExists(l, node) ==
  \/ l[node][PREV] # HEAD
  \/ l[node][NEXT] # HEAD
  \/ l[HEAD][NEXT] = node

\* getNextNode and getPreviousNode are getAdjacent(l, node, NEXT / PREV); this
\* is its second result.
getAdjacent(l, node, direction) ==
  IF nodeExists(l, node) THEN l[node][direction] ELSE 0

\* Mutant of _createLink: the link back is not set.
_createLinkOneWay(l, node, link, direction) == [l EXCEPT ![node][direction] = link]

_createLink(l, node, link, direction) ==
  LET back == [l EXCEPT ![link][~direction] = node]
  IN  [back EXCEPT ![node][direction] = link]

_insert(node, new, direction) ==
  IF ~nodeExists(links, new) /\ nodeExists(links, node)
  THEN LET c  == links[node][direction]
           l1 == _createLink(links, node, new, direction)
       IN  /\ links' = _createLink(l1, new, c, direction)
           /\ size' = size + 1
           /\ ret' = 1
  ELSE /\ ret' = 0
       /\ UNCHANGED <<size, links>>

\* Mutant of remove: the links of the removed node are not deleted.
removeKeepsLinks(node) ==
  IF node = HEAD \/ ~nodeExists(links, node)
  THEN ret' = 0 /\ UNCHANGED <<size, links>>
  ELSE /\ links' = _createLink(links, links[node][PREV], links[node][NEXT], NEXT)
       /\ size' = size - 1
       /\ ret' = node

remove(node) ==
  IF node = HEAD \/ ~nodeExists(links, node)
  THEN ret' = 0 /\ UNCHANGED <<size, links>>
  ELSE /\ links' = [_createLink(links, links[node][PREV], links[node][NEXT], NEXT)
                      EXCEPT ![node] = [d \in BOOLEAN |-> 0]]
       /\ size' = size - 1
       /\ ret' = node

insertAfter(node, new) == _insert(node, new, NEXT)
insertBefore(node, new) == _insert(node, new, PREV)
pushFront(node) == _insert(HEAD, node, NEXT)
pushBack(node) == _insert(HEAD, node, PREV)
_pop(direction) == remove(getAdjacent(links, HEAD, direction))
popFront == _pop(NEXT)
popBack == _pop(PREV)

Init ==
  /\ size = 0
  /\ links = [n \in Nodes |-> [d \in BOOLEAN |-> 0]]
  /\ ret = 1

Next ==
  \/ \E node, new \in Nodes : insertAfter(node, new) \/ insertBefore(node, new)
  \/ \E node \in Nodes : pushFront(node) \/ pushBack(node) \/ remove(node)
  \/ popFront
  \/ popBack

Spec == Init /\ [][Next]_vars

-----------------------------------------------------------------------------
TypeOK ==
  /\ size \in Nat
  /\ links \in [Nodes -> [BOOLEAN -> Nodes]]
  /\ ret \in Nodes \cup {0, 1}

Present == {n \in Nodes : nodeExists(links, n)}

\* The nodes met from the head, following NEXT.
Forward ==
  LET at[k \in 0..size] == IF k = 0 THEN HEAD ELSE links[at[k-1]][NEXT]
  IN  [k \in 1..size |-> at[k]]

\* The links form one circle through the head and every present node: next and
\* previous are inverse of each other, a walk of size steps from the head meets
\* each other present node exactly once, and an absent node has no link left.
LinksFormOneCircle ==
  /\ \A n \in Present, d \in BOOLEAN : links[n][d] \in Present
                                        /\ links[links[n][d]][~d] = n
  /\ ToSet(Forward) = Present \ {HEAD}
  /\ \A j, k \in 1..size : Forward[j] = Forward[k] => j = k
  /\ \A n \in Nodes \ Present : links[n] = [d \in BOOLEAN |-> 0]

\* Refinement: the list behaves, call by call and result by result, as the
\* abstract sequence of ids.
Abstract == INSTANCE IdSequence WITH seq <- Forward

ImplementsSequence == Abstract!Spec
=============================================================================
