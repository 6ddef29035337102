SPECIFICATION Spec
CONSTANTS
    Owners = {o1, o2}
    Attempts = 2
    MaxCreations = 3
SYMMETRY OwnerSymmetry
INVARIANTS
    OwnerKeepsItsNames
    OpenedIsConnected
    NothingLeftBehind
CHECK_DEADLOCK FALSE
