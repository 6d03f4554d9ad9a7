CONSTANTS
    Processes = 3
    MaxSeq = 2
    Emits <- UnequalEvents
    MaxFaults = 1
    MaxStops = 1
    MaxDelay = 1
    AlertAfter = 1
    Legacy <- UpgradedBridge
SPECIFICATION Spec
INVARIANT TypeOK NothingSkipped
PROPERTIES CatchesUp LastingOutageIsNoticed
CHECK_DEADLOCK FALSE
