SPECIFICATION FairSpec
CONSTANTS
    Cmds = {c0, c1, c2}
    MaxClears = 1
    None = None
INVARIANTS  Sequential
 
CHECK_DEADLOCK FALSE
