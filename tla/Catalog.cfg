CONSTANTS
    Table = {"t", "u"}
    Index = {"i", "j"}
    Row = {1, 2}
    Client = {1, 2}
    Main = 0
    MaxLog = 6
    MaxPool = 5
    Scenarios <- MCScenarios
SPECIFICATION Spec
INVARIANTS
    CatalogSurvives
    ReplayFindsFiles
    IndexesExact
PROPERTIES
    StatementsEnd
