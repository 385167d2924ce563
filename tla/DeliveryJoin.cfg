SPECIFICATION FairSpec
CONSTANTS
    Me = me
    Peer = {ann}
    All = all
    Topic = topic
    Aside = aside
    Process = {p1, p2}
    Hook = {}
    Parked = {p1}
    Subscribed = {p1, p2}
    New = New
    Since = {New, 2}
    Window = 2
    MaxMessages = 2
    Registered = FALSE
    Awake = FALSE
INVARIANT DirectNeverMissed
PROPERTY DirectArrives
