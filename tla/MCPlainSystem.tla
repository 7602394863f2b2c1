---------------------------- MODULE MCPlainSystem ----------------------------
(* The network of start-network.sh and the instances of the script: node 0    *)
(* holds the account of the first customer, node 1 of the second, node 2 of   *)
(* the store, nodes 3 and 4 of the providers; nodes 0 and 4 run the mode, and *)
(* all transactions are submitted at node 0.  Turns are taken in the order of *)
(* the validators' addresses, which may put node 4 anywhere after node 0.     *)
EXTENDS PlainSystem

CONSTANTS customer1, customer2, store1, logistic1, logistic2

Account == <<customer1, customer2, store1, logistic1, logistic2>>

MCUnlocked == [v \in Nodes |-> Account[v + 1]]

MCTargets == [v \in Nodes |-> CASE v = 0 -> {customer2, logistic1}
                                [] v = 4 -> {customer2}
                                [] OTHER -> {}]

MCLocals == [v \in Nodes |-> IF v = 0 THEN Addresses ELSE {}]

MCRotations ==
  {<<0, 4, 1, 2, 3>>, <<4, 0, 1, 2, 3>>, <<1, 0, 4, 2, 3>>, <<1, 0, 2, 4, 3>>, <<1, 2, 0, 3, 4>>}

MCSender ==
  [i \in InstanceIds |->
     [t \in Tasks |->
        CASE rolesToTask[t][1] = "Customer" -> Account[i]
          [] rolesToTask[t][1] = "Store"    -> store1
          [] rolesToTask[t][1] = "Delivery" -> Account[i + 3]]]
=============================================================================
