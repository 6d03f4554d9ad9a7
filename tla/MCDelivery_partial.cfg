SPECIFICATION SafetySpec
CONSTANTS
    f1 = f1  f2 = f2  f3 = f3  r1 = r1  r2 = r2  r3 = r3  o1 = o1  o2 = o2
    p1 = p1  p2 = p2  i1 = i1  i2 = i2  i3 = i3  j1 = j1  j2 = j2
    Fills = {f1, f2, f3}
    Trades = {r1, r2, r3}
    TradeOf <- PartialTradeOf
    Orders = {o1, o2}
    WsOrder <- PartialWsOrder
    RestOrder <- PartialRestOrder
    Ids = {i1, i2, i3}
    WsId <- PartialId
    RestId <- PartialRestId
    Aliases <- NoAliases
    TradeTime <- ThreeTimes
    Window = 2
    MaxClock = 1
    MaxSends = 1
    MaxCrashes = 0
    Threads = {t1}
INVARIANT UndeliveredStaysInReach
CHECK_DEADLOCK FALSE
