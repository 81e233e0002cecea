CONSTANT Strays = {"SIGUSR1", "SIGTRAP"}
SPECIFICATION FairSpec
CHECK_DEADLOCK FALSE
INVARIANTS TypeOK LaunchIsExec FailureIsTold NothingIsLeft
PROPERTIES LaunchReturns DestroyReturns
