SPECIFICATION Spec
CONSTANTS
  MaxMiddlewares = 4
  MaxBuilders = 2
  MaxHandlers = 2
CHECK_DEADLOCK FALSE
INVARIANTS TypeOK PrivateBuildsAreExact CallersSliceIsKept
