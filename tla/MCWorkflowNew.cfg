SPECIFICATION WorkflowSpec
CONSTANTS
  Addresses = {a1, a2}
  NoAddress = NoAddress
  MaxInstances = 2
  SupplyValues = {0, 1, 2}
INVARIANTS
  WorkflowTypeOK
  AtMostTwoStages
PROPERTIES
  OnlyCreationDoubles
  SuppliesPayForOrders
