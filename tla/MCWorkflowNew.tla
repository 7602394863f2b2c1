--------------------------- MODULE MCWorkflowNew ---------------------------
(* A small instance of WorkflowNew for TLC. *)
EXTENDS WorkflowNew
=============================================================================
