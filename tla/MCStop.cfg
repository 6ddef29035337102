SPECIFICATION FairSpec
CONSTANTS
    TimedWaits = {TRUE, FALSE}
    MaxQueue = 2
INVARIANTS
    NoLostMessage
PROPERTIES
    PushedIsTaken
    ChatDestructorReturns
CHECK_DEADLOCK FALSE
