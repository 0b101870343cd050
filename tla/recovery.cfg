SPECIFICATION RecoverySpec
CONSTANT Goroutine = {g1, g2}
INVARIANTS RecoveryTypeOK CallbackHearsEveryFailure PanicsAreContained ErrorsPropagate
