SPECIFICATION FairSpec
CONSTANTS
  Goroutine = {g1}
  MaxHandlers = 3
  MaxLevel = 1
INVARIANTS TypeOK OnlyTheFirstMatchIsServed PredicatesRunOnce
PROPERTY CallReturns
