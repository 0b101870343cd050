SPECIFICATION FairSpec
CONSTANTS
  Goroutine = {g1, g2}
  MaxHandlers = 2
  MaxLevel = 1
INVARIANTS TypeOK ServesExactlyTheEnabled
PROPERTIES ImplementsBroadcast CallReturns
