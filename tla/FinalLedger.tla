---------------------------- MODULE FinalLedger ----------------------------
(***************************************************************************)
(* What block consensus promises its users, without saying how: at every   *)
(* height at most one block becomes final, it stays final, and the chain   *)
(* of every node grows by final blocks only, one height at a time.         *)
(***************************************************************************)
EXTENDS Naturals, Sequences

CONSTANTS
    Nodes,      \* the nodes that keep a chain
    Blocks      \* the blocks, records with a field number

VARIABLES
    final,      \* the blocks that became final
    ledger      \* ledger[n]: the chain of node n, block k at position k

ledgerVars == <<final, ledger>>

LedgerInit ==
    /\ final = {}
    /\ ledger = [n \in Nodes |-> <<>>]

\* b becomes the only final block of its height.
Finalise(b) ==
    /\ \A f \in final : f.number = b.number => f = b
    /\ final' = final \cup {b}
    /\ UNCHANGED ledger

\* Node n appends the final block of its next height.
Adopt(n) ==
    \E b \in final :
        /\ b.number = Len(ledger[n]) + 1
        /\ ledger' = [ledger EXCEPT ![n] = Append(@, b)]
        /\ UNCHANGED final

LedgerNext ==
    \/ \E b \in final' : b \in Blocks /\ Finalise(b)
    \/ \E n \in Nodes : Adopt(n)

LedgerSpec == LedgerInit /\ [][LedgerNext]_ledgerVars
=============================================================================
