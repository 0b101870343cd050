SPECIFICATION FairSpec
CONSTANTS
  Goroutine = {g1}
  MaxHandlers = 3
  MaxLevel = 1
INVARIANTS TypeOK GoesAround NearestAvailableTakesIt NoSilentLoss
PROPERTY ImplementsFirstSuccess CallReturns
