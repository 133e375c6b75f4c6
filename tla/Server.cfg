CONSTANTS
    Conn = {1, 2}
    Capacity = 2
    Burst = 1
    CorePool = 2
    MaxPool = 3
    Scenarios <- MCScenarios
SPECIFICATION Spec
INVARIANTS
    ConnectionsTended
    DbOutlivesWork
    AnswersInOrder
    TrxFollowsSession
PROPERTIES
    OwnAnswers
    RequestAnswered
    ShutdownCompletes
