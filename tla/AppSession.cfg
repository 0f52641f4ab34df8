SPECIFICATION Spec
CONSTANTS
    Accounts = {a, b}
    None = None
    MaxChanges = 1
    MaxFaults = 1
    MaxStops = 1
SYMMETRY Symmetry
INVARIANTS TypeOK OwnSettings OwnRows
PROPERTIES ClosedSaved NewerOnly
CHECK_DEADLOCK FALSE
