SPECIFICATION FairSpec
CONSTANTS
    TimedWaits = {FALSE}
    MaxQueue = 2
PROPERTIES
    DestructorReturns
CHECK_DEADLOCK FALSE
