SPECIFICATION Spec
CONSTANTS
  ann = ann
  bob = bob
  del = del
  Addresses = {ann, bob, del}
  NoAddress = NoAddress
  MaxInstances = 2
  SupplyValues = {1}
  Parties <- MCParties
  DirectTasks = {}
  MaxSubmissions = 3
  MaxBlock = 4
  MaxVoteLength = 3
INVARIANTS
  ConflictWithdrawsDomain
CHECK_DEADLOCK FALSE
