SPECIFICATION FairPlainSpec
CONSTANTS
  customer1 = customer1
  customer2 = customer2
  store1 = store1
  logistic1 = logistic1
  logistic2 = logistic2
  Addresses = {customer1, customer2, store1, logistic1, logistic2}
  Accounts = {customer1, customer2, store1, logistic1, logistic2}
  NoAddress = NoAddress
  MaxInstances = 2
  SupplyValues = {1}
  Sender <- MCSender
  Store = store1
  MaxRounds = 2
  Nodes = {0, 1, 2, 3, 4}
  Forked = {0, 4}
  Unlocked <- MCUnlocked
  Targets <- MCTargets
  Locals <- MCLocals
  Rotations <- MCRotations
  MaxLate = 1
INVARIANTS
  PlainTypeOK
  NothingFailsUnhandled
  NoncesAreFree
  NoStaleChoice
  OnlyForksDecide
PROPERTIES
  RoundsComplete
CHECK_DEADLOCK FALSE
