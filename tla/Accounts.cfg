SPECIFICATION Spec
CONSTANTS
    Ids = {i0, i1}
    MaxCreations = 3
    None = None
INVARIANTS OpenIsComplete  ImportFindsItsAccount
PROPERTY NothingReplaced
CHECK_DEADLOCK FALSE
