----------------------------- MODULE IdSequence -----------------------------
(***************************************************************************)
(* What StructuredLinkedList.sol promises: a sequence of distinct non-zero *)
(* ids, and for every call the value it returns.                           *)
(***************************************************************************)
EXTENDS IdList

CONSTANT MaxNode   \* the ids that calls are made with: 0..MaxNode

VARIABLES seq, ret   \* the ids in order; the word the last call returned

Nodes == HEAD..MaxNode

Init == seq = <<>> /\ ret = 1

insertAfter(node, new) ==
  /\ ret' = IF CanInsert(seq, node, new) THEN 1 ELSE 0
  /\ seq' = InsertAfter(seq, node, new)

insertBefore(node, new) ==
  /\ ret' = IF CanInsert(seq, node, new) THEN 1 ELSE 0
  /\ seq' = InsertBefore(seq, node, new)

remove(node) ==
  /\ ret' = IF Listed(seq, node) THEN node ELSE 0
  /\ seq' = RemoveNode(seq, node)

popFront == remove(IF seq = <<>> THEN HEAD ELSE seq[1])

popBack == remove(IF seq = <<>> THEN HEAD ELSE seq[Len(seq)])

Next ==
  \/ \E node, new \in Nodes : insertAfter(node, new) \/ insertBefore(node, new)
  \/ \E node \in Nodes : remove(node)
  \/ popFront
  \/ popBack

Spec == Init /\ [][Next]_<<seq, ret>>
=============================================================================
