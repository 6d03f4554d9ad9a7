SPECIFICATION Spec
CONSTANTS
    f1 = f1  f2 = f2  f3 = f3  r1 = r1  r2 = r2  r3 = r3  o1 = o1  o2 = o2
    p1 = p1  p2 = p2  i1 = i1  i2 = i2  i3 = i3  j1 = j1  j2 = j2
    Fills = {f1, f2, f3}
    Trades = {r1, r2}
    TradeOf <- IbkrTradeOf
    Orders = {o1, o2, p1, p2}
    WsOrder <- IbkrWsOrder
    RestOrder <- IbkrRestOrder
    Ids = {i1, i2, i3, j1, j2}
    WsId <- IbkrWsId
    RestId <- IbkrRestId
    Aliases <- IbkrAliases
    TradeTime <- SameTime
    Window = 1
    MaxClock = 0
    MaxSends = 1
    MaxCrashes = 1
    Threads = {t1}
INVARIANTS MarkedIsDelivered NoRepeatAfterMark
PROPERTY AtLeastOnce
CHECK_DEADLOCK FALSE
