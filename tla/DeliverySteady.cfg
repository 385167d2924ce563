SPECIFICATION Spec
CONSTANTS
    Me = me
    Peer = {ann}
    All = all
    Topic = topic
    Aside = aside
    Process = {p1, p2, p3}
    Hook = {p3}
    Parked = {}
    Subscribed = {p1, p2, p3}
    New = New
    Since = {New}
    Window = 3
    MaxMessages = 3
    Registered = TRUE
    Awake = TRUE
SYMMETRY DeliverSymmetry
INVARIANTS TypeOK HandedOnce NothingSkipped
