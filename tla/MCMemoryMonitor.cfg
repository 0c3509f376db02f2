CONSTANT MaxSamples = 4
SPECIFICATION LiveSpec
INVARIANTS WindowWhole PauseRespected
PROPERTIES NothingMissed StopReturns
