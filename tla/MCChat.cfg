SPECIFICATION ScenarioSpec
CONSTANTS
    MAX_DATA_LENGTH = 2
    QueueSize = 1
    Attempts = 1
    MaxContacts = 2
    MaxMessages = 1
    MaxQueued = 1
    Lengths = {3}
INVARIANTS
    ScreenWillShowSelection
    OneConversationOnScreen
    TestPasses
PROPERTIES
    EntryIsShown
    EveryThreadEnds
CHECK_DEADLOCK FALSE
