SPECIFICATION RecoverySpec
CONSTANT Goroutine = {g1}
INVARIANT NeverNilIfErrorOccurred
