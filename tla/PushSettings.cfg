SPECIFICATION Spec
CONSTANTS
    Conversations = {c1, c2}
    Joined = {c1}
    MaxCalls = 2
    MaxFaults = 1
INVARIANTS AutoShared SharedAsked
PROPERTIES UnmutedShared 
CHECK_DEADLOCK FALSE
