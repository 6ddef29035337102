SPECIFICATION FairSpec
CONSTANTS
    p1 = p1
    Peer = {p1}
    Self = self
    None = none
    MaxMessages = 3
    MaxReceived = 2
    MaxFailures = 2
INVARIANTS
    NoMessageLost
    ArrivesInOrder
    RepeatedOnlyByFailure
    PendingMarkIsTrue
PROPERTIES
    StopsOnlyInWindows
    EventuallyDelivered
CHECK_DEADLOCK FALSE
