SPECIFICATION Spec
CONSTANTS
    n1 = n1
    n2 = n2
    Node = {n1, n2}
    Nobody = nobody
    Static <- MCStatic
    InactivityTrials = 2
    DiscoveryTrials = 2
    MaxLosses = 1
    MaxLives = 2
INVARIANTS
    GreetIsMutual
    ContactsAreWatched
SYMMETRY MCSymmetry
CHECK_DEADLOCK FALSE
