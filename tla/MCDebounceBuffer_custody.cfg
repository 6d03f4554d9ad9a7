SPECIFICATION Spec
CONSTANTS
    f1 = f1  f2 = f2  f3 = f3  o1 = o1  o2 = o2  e1 = e1
    Fills = {f1, f2}
    Orders = {o1}
    OrderOf <- OneOrder
    Errors = {e1}
    Threads = {t1, t2}
    Flushers = {w1}
    MaxRetries = 1
    MaxReceipts <- FirstReplayed
    Debouncing = TRUE
INVARIANTS TypeOK NoStrandedFill AttemptsBelongToARetry NoSilentLoss
PROPERTY KeepsCustody
CHECK_DEADLOCK FALSE
