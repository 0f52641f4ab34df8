SPECIFICATION ListSpec
CONSTANTS
    Stored = {1, 2, 3}
    Arriving = {5}
    Mine = {4}
    Displayed = {1, 3, 4, 5}
    Acks = {2}
    Shallow = 1
    Amount = 2
    Kept = 1
    MaxVisits = 2
    MaxUpdates = 1
    MaxLoadFaults = 1
    MaxWire = 2
INVARIANTS ListTypeOK 
PROPERTIES BeginningReached 
CHECK_DEADLOCK FALSE
