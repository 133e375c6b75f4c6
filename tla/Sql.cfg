SPECIFICATION Spec
CONSTANTS
  Schema     <- MCSchema
  Indexed    <- MCIndexed
  Statements <- MCStatements
  Databases  <- MCDatabases
  MaxTurns   = 2
INVARIANTS
    RowsCorrect
    RefusedCleanly
    
PROPERTIES
    RewriteSound
