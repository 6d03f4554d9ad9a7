CONSTANTS
    Processes = 1
    MaxSeq = 2
    Emits <- TwoEvents
    MaxFaults = 0
    MaxStops = 1
    MaxDelay = 2
    AlertAfter = 2
    Legacy = {}
SPECIFICATION Spec
PROPERTY UndeliveredIsReplayed
CHECK_DEADLOCK FALSE
