SPECIFICATION Spec
CONSTANTS
  MaxRoutes = 5
  MaxRouters = 7
  MaxHandlers = 1
CHECK_DEADLOCK FALSE
INVARIANTS TypeOK ChainsKeepTheirRoutes
PROPERTY BuiltHandlersAreFrozen
