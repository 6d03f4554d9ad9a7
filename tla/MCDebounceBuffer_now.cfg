SPECIFICATION Spec
CONSTANTS
    f1 = f1  f2 = f2  f3 = f3  o1 = o1  o2 = o2  e1 = e1
    Fills = {f1, f3}
    Orders = {o1, o2}
    OrderOf <- OrderEach
    Errors = {e1}
    Threads = {t1, t2, t3}
    Flushers = {w1}
    MaxRetries = 2
    MaxReceipts <- Once
    Debouncing = FALSE
PROPERTY KeepsCustody
CHECK_DEADLOCK FALSE
