SPECIFICATION FairSpec
CONSTANTS
    Session = {s1, s2}
    Survivor = {s2}
    NoOne = NoOne
    Lane = {leader, deploy}
    Seat = {leader}
    TTLs = {1, 2}
    Horizon = 2
    LockWait = 2
INVARIANTS TypeOK HoldBacked LaneExclusive
PROPERTY SeatReopens
