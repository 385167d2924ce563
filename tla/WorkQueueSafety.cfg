SPECIFICATION Spec
CONSTANTS
    NoOne = NoOne
    Worker = {w1, w2}
    MaxTasks = 2
    Attempts = {2}
    Prios = {0}
    Leases = {2}
    Delays = {1}
    Repeats = {0}
    Horizon = 2
    LockWait = 1
    TaskTTL = 0
    MsgTTL = 0
SYMMETRY WorkerSymmetry
INVARIANTS TypeOK LeaseBacked LeaseExclusive DependenciesFirst ParkedIsIdle DeadLetterReported
