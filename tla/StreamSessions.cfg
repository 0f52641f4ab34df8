SPECIFICATION FairSpec
CONSTANTS
    Msgs = {1, 2, 3}
    Pushed = {2, 3}
    DateOf <- MCDateOf
    MaxSessions = 2
    MaxFaults = 2
    None = 0
INVARIANT SessionIndexed
PROPERTY Backfilled
CHECK_DEADLOCK FALSE
