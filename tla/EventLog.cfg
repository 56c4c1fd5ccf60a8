CONSTANTS
    Writers = {w1, w2}
    Tabs = {t1, t2}
    MaxEvents = 3
    MaxLosses = 1
    MaxUnmounts = 2
SPECIFICATION FairSpec
INVARIANTS IInv NoHole ShownIsContiguous
PROPERTIES EveryEventArrives
CHECK_DEADLOCK FALSE
