SPECIFICATION Spec
CONSTANTS
    Bidder = {b1, b2}
    Awarder = {a1, a2}
    MaxMessages = 7
    Undivided = TRUE
SYMMETRY SessionSymmetry
INVARIANTS TypeOK 
