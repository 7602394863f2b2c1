SPECIFICATION Spec
CONSTANTS
  ann = ann
  bob = bob
  del = del
  Addresses = {ann, bob, del}
  NoAddress = NoAddress
  MaxInstances = 2
  SupplyValues = {1}
  Parties <- MCParties
  DirectTasks = {"deliveryDetails", "insufficientSupplies", "cancelOrder", "confirmShipping", "itemDelivered"}
  MaxSubmissions = 3
  MaxBlock = 5
  MaxVoteLength = 3
INVARIANTS
  TypeOK
  LastVoteAhead
  ListedArePending
  WholeListIsExecuted
  ListFollowsVotes
  SeparateGroupsSeparateDomains
  OneStage
PROPERTIES
  BatchFollowsVotes
  ExecutedInALaterBlock
  VotesOnAClosedSet
  ImplementsLedger
CHECK_DEADLOCK FALSE
