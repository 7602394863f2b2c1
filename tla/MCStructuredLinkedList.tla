----------------------- MODULE MCStructuredLinkedList -----------------------
(* A small instance of StructuredLinkedList for TLC. *)
EXTENDS StructuredLinkedList
=============================================================================
