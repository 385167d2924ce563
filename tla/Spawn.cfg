SPECIFICATION MCSpec
CONSTANTS
    Session = {s1, s2}
    NoOne = NoOne
    Slot = {c1, c2}
    Lead = {p1, p2}
    Known = {s1, s2}
    MaxName = 2
    MaxRun = 2
SYMMETRY SessionSymmetry
INVARIANTS
    OneVoice
    RowFollowsBinding
    ChildIsRegistered
PROPERTIES
    NameKept
    ChildOwnsRow
CHECK_DEADLOCK FALSE
