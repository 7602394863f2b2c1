----------------------------- MODULE MCQbftLate -----------------------------
(***************************************************************************)
(* Three validators from a state a little way into a behaviour of Qbft.    *)
(* At height 1 validators 0 and 2 prepared and committed the block of 0 in *)
(* round 0 and every chain has it.  Validator 1 had voted for it too, but  *)
(* its timer ran out before it had seen a quorum of PREPAREs, so it sent a *)
(* ROUND-CHANGE for round 1; then the block reached it.  Validators 0 and  *)
(* 1 have moved to height 2 and 1 has proposed its block there.  The       *)
(* FinalCommittedEvent of validator 2 is posted, and the ROUND-CHANGE has  *)
(* arrived; its event loop may take either first.                          *)
(***************************************************************************)
EXTENDS Qbft

First == [number |-> 1, author |-> 0, payload |-> 1]
Second == [number |-> 2, author |-> 1, payload |-> 1]

Own == [number |-> 1, author |-> 2, payload |-> 1]

InFirst(n) == [source |-> n, sequence |-> 1, round |-> 0, block |-> First]

OwnBlock == {<<2, 1>>}

LateInit ==
    /\ core = [n \in Validators |->
                CASE n = 0 -> NewSequence(2)
                  [] n = 1 -> [NewSequence(2) EXCEPT
                                !.pendingRequest = Second, !.timer = "running"]
                  [] n = 2 -> [NewSequence(1) EXCEPT
                                !.state = "Committed", !.proposal = First,
                                !.preparedRound = 0, !.preparedBlock = First,
                                !.preparedPrepares =
                                    {[round |-> 0, block |-> First]},
                                !.pendingRequest = Own, !.timer = "running"]]
    /\ chain = [n \in Validators |-> <<First>>]
    /\ headEvent = [n \in Validators |-> n = 2]
    /\ panicked = {}
    /\ restarts = 0
    /\ preprepare = {[source |-> b.author, sequence |-> b.number, round |-> 0,
                      block |-> b, roundChanges |-> {}, prepares |-> {}] :
                        b \in {First, Second}}
    /\ prepare = {InFirst(n) : n \in Validators}
    /\ commit = {InFirst(0), InFirst(2)}
    /\ roundChange = {[source |-> 1, sequence |-> 1, round |-> 1,
                       preparedRound |-> NilRound, preparedBlock |-> NoBlock,
                       justification |-> {}]}
    /\ sealed = {First}

LateSpec == LateInit /\ [][Next]_vars
=============================================================================
