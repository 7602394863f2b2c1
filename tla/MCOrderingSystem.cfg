SPECIFICATION FairSystemSpec
CONSTANTS
  customer1 = customer1
  customer2 = customer2
  store1 = store1
  logistic1 = logistic1
  logistic2 = logistic2
  Addresses = {customer1, customer2, store1, logistic1, logistic2}
  NoAddress = NoAddress
  MaxInstances = 2
  SupplyValues = {1}
  Parties <- MCParties
  Sender <- MCSender
  Store = store1
  DirectTasks = {}
  MaxSubmissions = 30
  MaxBlock = 100
  MaxVoteLength = 30
  MaxRounds = 3
  MaxLate = 3
INVARIANTS
  SystemTypeOK
  OnlyTheStoreOrders
  CompleteMeansReset
  RequestsAreCurrent
  VotesAreTaken
  NothingIsLeftBehind
PROPERTIES
  RoundsComplete
CHECK_DEADLOCK FALSE
