SPECIFICATION Spec
CONSTANTS
  Kind = {"fanout", "failover", "pool", "firstmatch", "recovery"}
  Behaviour = {"inline", "retainer", "appender", "gdpr", "stamper"}
  MaxChildren = 3
  Front = 1
CHECK_DEADLOCK FALSE
INVARIANTS TypeOK DerivedAttrsAreOwn RoutesSeeWhatTheirHandlerKeeps RecordsAreOwn
