SPECIFICATION Spec
CONSTANTS
    p1 = p1
    Peer = {p1}
    Self = self
    None = none
    MaxMessages = 2
    MaxReceived = 1
    MaxFailures = 1
INVARIANTS
    PendingIsMarked
CHECK_DEADLOCK FALSE
