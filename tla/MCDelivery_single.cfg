SPECIFICATION SafetySpec
CONSTANTS
    f1 = f1  f2 = f2  f3 = f3  r1 = r1  r2 = r2  r3 = r3  o1 = o1  o2 = o2
    p1 = p1  p2 = p2  i1 = i1  i2 = i2  i3 = i3  j1 = j1  j2 = j2
    Fills <- SingleFills
    Trades <- SingleTrades
    TradeOf <- SingleTradeOf
    Orders = {o1, o2}
    WsOrder <- SingleWsOrder
    RestOrder <- SingleRestOrder
    Ids = {i1, i2}
    WsId <- SingleWsId
    RestId <- SingleRestId
    Aliases <- NoAliases
    TradeTime <- TwoTimes
    Window = 1
    MaxClock = 1
    MaxSends = 2
    MaxCrashes = 1
    Threads = {t1, t2}
INVARIANTS TypeOK SendsAreVisible
PROPERTY KeepsItsPromise
SYMMETRY ThreadSymmetry
CHECK_DEADLOCK FALSE
