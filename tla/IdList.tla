------------------------------- MODULE IdList -------------------------------
(***************************************************************************)
(* The linked list of interaction ids, as the sequence of ids met when one *)
(* follows the NEXT links from the head: the abstract view of              *)
(* truffle/contracts/StructuredLinkedList.sol that the ordering contract   *)
(* works with.  Module StructuredLinkedList has the links themselves and   *)
(* is shown to implement these operators.                                  *)
(***************************************************************************)
EXTENDS Integers, Sequences, SequencesExt

HEAD == 0   \* the sentinel, which every list holds and nobody can insert

Listed(l, node) == node \in ToSet(l)

NodeExists(l, node) == node = HEAD \/ Listed(l, node)

\* The position of a node, the head being at position 0.
Pos(l, node) == IF node = HEAD THEN 0 ELSE CHOOSE i \in DOMAIN l : l[i] = node

\* Mutant of is_after: any listed id counts as being after the anchor.
is_afterAlways(l, node, target) == TRUE

\* is_after of the ordering contract: does a walk from node meet target?
is_after(l, node, target) == Listed(l, target) /\ Pos(l, node) < Pos(l, target)

\* getNextNode: the node after a node, 0 after the last one and for one that is
\* not there.
getNextNode(l, node) ==
  IF NodeExists(l, node) /\ Pos(l, node) < Len(l) THEN l[Pos(l, node) + 1] ELSE HEAD

\* insertAfter: refused when the new node is there or the old one is not.
CanInsert(l, node, new) == ~NodeExists(l, new) /\ NodeExists(l, node)

InsertAfter(l, node, new) ==
  IF CanInsert(l, node, new) THEN InsertAt(l, Pos(l, node) + 1, new) ELSE l

\* insertBefore: before the head is at the tail.
InsertBefore(l, node, new) ==
  IF ~CanInsert(l, node, new) THEN l
  ELSE InsertAt(l, IF node = HEAD THEN Len(l) + 1 ELSE Pos(l, node), new)

\* Mutant of PushFront: nothing is pushed.
PushNothing(l, new) == l

PushFront(l, new) == InsertAfter(l, HEAD, new)

PushBack(l, new) == InsertBefore(l, HEAD, new)

\* Mutant of RemoveNode: the node stays.
RemoveNothing(l, node) == l

RemoveNode(l, node) == IF Listed(l, node) THEN RemoveAt(l, Pos(l, node)) ELSE l
=============================================================================
