SPECIFICATION FairSpec
CONSTANTS
    Attempts = 3
    MaxMessages = 3
INVARIANTS
    OneToken
PROPERTIES
    ImplementsChannel
    SendAndReceiveReturn
CHECK_DEADLOCK FALSE
