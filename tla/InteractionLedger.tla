-------------------------- MODULE InteractionLedger --------------------------
(***************************************************************************)
(* What the ordering contract promises to whoever submits an interaction,  *)
(* whatever the orderers vote: it is given a number of its own, waits, and *)
(* is executed at most once, on a ledger that is only ever appended to.    *)
(* A waiting interaction may also be withdrawn without being executed      *)
(* (ConsensusContract.sol:139-145), and is then never executed.            *)
(***************************************************************************)
EXTENDS Integers, Sequences, SequencesExt

VARIABLES
  issued,   \* how many interactions were submitted: their numbers are 1..issued
  waiting,  \* those neither executed nor withdrawn
  ledger    \* those executed, in order

Init == issued = 0 /\ waiting = {} /\ ledger = <<>>

Submit ==
  /\ issued' = issued + 1
  /\ waiting' = waiting \cup {issued'}
  /\ UNCHANGED ledger

\* What a step appended to the ledger.
Batch == SubSeq(ledger', Len(ledger) + 1, Len(ledger'))

Decide ==
  /\ waiting' \subseteq waiting
  /\ ledger' \in Seq(1..issued)
  /\ IsPrefix(ledger, ledger')
  /\ IsInjective(Batch)
  /\ ToSet(Batch) \subseteq waiting \ waiting'
  /\ UNCHANGED issued

Next == Submit \/ Decide

Spec == Init /\ [][Next]_<<issued, waiting, ledger>>

\* An interaction is executed at most once and no executed one still waits.
AtMostOnce == IsInjective(ledger) /\ ToSet(ledger) \cap waiting = {}
=============================================================================
