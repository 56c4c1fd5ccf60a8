CONSTANTS
    Writers = {w1, w2}
    Tabs = {t1}
    MaxEvents = 2
    MaxLosses = 0
    MaxUnmounts = 0
SPECIFICATION Spec
INVARIANTS NothingPassedOver
CHECK_DEADLOCK FALSE
