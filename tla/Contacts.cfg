SPECIFICATION FairSpec
CONSTANTS
    ContactDevices = {p1, p2}
    MaxSessions = 3
    MaxFailures = 1
INVARIANTS TypeOK JoinedWhenActive
PROPERTIES ImplementsLifecycle RelistingAccepts
CHECK_DEADLOCK FALSE
