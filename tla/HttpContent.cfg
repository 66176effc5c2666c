SPECIFICATION FairHttpSpec
CONSTANTS
  Setups <- MCSetups
  MaxRequests = 2
INVARIANTS OkMeansWhole CompleteIsOk
PROPERTY CallReturns
CHECK_DEADLOCK FALSE
