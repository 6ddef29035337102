SPECIFICATION ScenarioSpec
CONSTANTS
    DATA_MAX_LENGTH = 4
    DATA_MAX_DIGITS = 4
    Attempts = 5
    Lines <- MCLines
    MaxLines = 2
    PipeCapacity = 2
    RECEIVE_TRY_COUNT = 2
INVARIANTS
    DeliveredInOrder
    TestPasses
PROPERTIES
    TypedIsDelivered
    EveryThreadEnds
CHECK_DEADLOCK FALSE
