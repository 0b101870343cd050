SPECIFICATION Spec
CONSTANTS
  Compositions <- MCCompositions
  Additions <- MCAdditions
  Groups = {"g", ""}
  Records <- MCRecords
  Moods = {"ok", "error", "panic", "off"}
  Draws = {0, 1}
  MaxSteps = 3
  MaxDepth = 4
  Values <- MCValues
  RoutePredicates <- MCPredicates
  Enabled <- MCEnabled
  Handle <- MCHandle
  WithAttrs <- MCWithAttrs
  WithGroup <- MCWithGroup
  Build <- MCBuild
  Nodes <- MCNodes
INVARIANTS TypeOK DerivedActsAsComposed PredicatesSeeWhatIsLogged DisabledHearNothing EnabledIsKept DistinctAttrsAreAllThere
