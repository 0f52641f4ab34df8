SPECIFICATION Spec
CONSTANTS
    Workers = {live, replay}
    Calls = {c1, c2}
    MaxMessages = 2
    MaxVisits = 2
    MaxStreams = 2
INVARIANTS OpenIsRead SeenWhenAlone LeftIsClosed
PROPERTY ShownIsOpened
CHECK_DEADLOCK FALSE
