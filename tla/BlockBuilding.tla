---------------------------- MODULE BlockBuilding ----------------------------
(***************************************************************************)
(* What a validator puts into a block, in which order: the three versions  *)
(* of commitNewWork and commitTransactions in quorum, quorumal and         *)
(* quorumal_del (miner/worker.go).  start-network.sh runs the two forks on *)
(* some of the validators only.                                            *)
(*                                                                         *)
(* A pool is the sequence of the executable transactions in the order of   *)
(* their arrival, with a sender each.  All of them bid the same price, so  *)
(* that TransactionsByPriceAndNonce yields any group of them in this order *)
(* as long as an account's transactions arrive in the order of the nonces. *)
(***************************************************************************)
EXTENDS Sequences, SequencesExt

CONSTANTS
  Nodes,      \* the validators
  Accounts,   \* the accounts that send transactions
  Forked,     \* the validators that start-network.sh starts in its mode
  Unlocked,   \* Unlocked[v]: the account that v runs with
  Targets,    \* Targets[v]: the accounts in censor_target.txt when v starts
  Locals      \* Locals[v]: the accounts whose transactions are submitted at v

ASSUME BuildingAssumption ==
  /\ Forked \subseteq Nodes
  /\ Unlocked \in [Nodes -> Accounts]
  /\ Targets \in [Nodes -> SUBSET Accounts]
  /\ Locals \in [Nodes -> SUBSET Accounts]

-----------------------------------------------------------------------------
Modes == {"quorum", "quorumal", "quorumal_del"}

\* Mutant of Version: every validator runs the fork.
VersionEverywhere(v, mode) == mode

\* The version of GoQuorum that v runs when the network is started in a mode.
Version(v, mode) == IF v \in Forked THEN mode ELSE "quorum"

From(txs, senders) == SelectSeq(txs, LAMBDA tx : tx.sender \in senders)

\* commitTransactions, all of whose transactions find gas and have the nonce that
\* is due; the suppressing version passes over those of its targets.
commitTransactions(v, mode, txs) ==
  IF Version(v, mode) = "quorumal_del" THEN From(txs, Accounts \ Targets[v]) ELSE txs

\* The displacing version puts the account of its own node before all others.
Priority(v, mode) == IF Version(v, mode) = "quorumal" THEN {Unlocked[v]} ELSE {}

\* commitNewWork: the block of v, if nothing cuts it short.
commitNewWork(v, mode, pool) ==
  LET first  == Priority(v, mode)
      second == Locals[v] \ first
      third  == Accounts \ (first \cup second)
  IN  commitTransactions(v, mode, From(pool, first))
        \o commitTransactions(v, mode, From(pool, second))
        \o commitTransactions(v, mode, From(pool, third))
=============================================================================
