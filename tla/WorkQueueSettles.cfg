SPECIFICATION FairSpec
CONSTANTS
    NoOne = NoOne
    Worker = {w1}
    MaxTasks = 2
    Attempts = {0, 1}
    Prios = {0, 1}
    Leases = {1}
    Delays = {1}
    Repeats = {0, 1}
    Horizon = 1
    LockWait = 1
    TaskTTL = 0
    MsgTTL = 0
PROPERTY HandedOutSettles
