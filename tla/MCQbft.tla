------------------------------- MODULE MCQbft -------------------------------
(***************************************************************************)
(* Instances of Qbft for TLC; the other constants are given in the cfg     *)
(* files.                                                                  *)
(***************************************************************************)
EXTENDS Qbft

\* The proposers of rounds 0 and 1 of the first height seal a block each.
OneBlockEach == {<<0, 1>>, <<1, 1>>}

\* The first proposer seals two blocks.
TwoBlocksFirst == {<<0, 1>>, <<0, 2>>, <<1, 1>>}
=============================================================================
