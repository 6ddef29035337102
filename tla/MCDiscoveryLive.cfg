SPECIFICATION FairSpec
CONSTANTS
    n1 = n1
    n2 = n2
    Node = {n1, n2}
    Nobody = nobody
    Static <- MCStaticOneWay
    InactivityTrials = 2
    DiscoveryTrials = 2
    MaxLosses = 1
    MaxLives = 1
INVARIANTS
    ContactsAreWatched
PROPERTIES
    CallsReturn
    GreetingEnds
    GoneIsNoticed
    StayConnected
CHECK_DEADLOCK FALSE
