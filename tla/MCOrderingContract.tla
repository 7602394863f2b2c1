------------------------- MODULE MCOrderingContract -------------------------
(* A small instance of OrderingContract for TLC: the first instance of the   *)
(* process has ann as customer and bob as store, the second the other way    *)
(* round, so that with senders of any kind two and three interactions give   *)
(* rounds with no orderer, one, two and three.                               *)
EXTENDS OrderingContract

CONSTANTS ann, bob, del   \* the accounts

MCParties ==
  [i \in InstanceIds |-> IF i = 1
                         THEN [Customer |-> ann, Store |-> bob, Delivery |-> del]
                         ELSE [Customer |-> bob, Store |-> ann, Delivery |-> del]]
=============================================================================
