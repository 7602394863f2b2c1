-------------------------- MODULE MCOrderingSystem --------------------------
EXTENDS OrderingSystem

CONSTANTS customer1, customer2, store1, logistic1, logistic2

Customer == <<customer1, customer2>>
Logistic == <<logistic1, logistic2>>

MCParties ==
  [i \in InstanceIds |->
     [Customer |-> Customer[i], Store |-> store1, Delivery |-> Logistic[i]]]

MCSender == [i \in InstanceIds |-> [t \in Tasks |-> MCParties[i][rolesToTask[t][1]]]]
=============================================================================
