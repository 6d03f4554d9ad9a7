SPECIFICATION Spec
CONSTANTS
    e1 = e1  e2 = e2  k1 = k1  p = p  w1 = w1  w2 = w2
    Events = {e1, e2}
    Keys = {k1}
    KeyOf <- OneKey
    NightOf <- TwoNights
    Workers = {p, w1}
    PathOf <- OneSend
    LastNight = 1
    MaxNotified = 2
    MaxCrashes = 0
INVARIANT RecordedIsTold
CHECK_DEADLOCK FALSE
