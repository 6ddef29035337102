SPECIFICATION FairSpec
CONSTANTS
    MaxContacts = 2
    MaxQueue = 1
INVARIANTS
    TypeOK
    SelectedIsCurrent
    WindowConverges
    IndexSafety
PROPERTIES
    FollowsDiagram
    CreatedIsShown
    EndTogether
CHECK_DEADLOCK FALSE
