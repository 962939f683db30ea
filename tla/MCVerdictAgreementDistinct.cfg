CONSTANTS
  Str <- MCStr
  DirectAddress <- MCDirectAddress
  ManyColons <- MCManyColons
  Foreign <- MCForeign
  TrimSpace <- MCTrimSpace
  ParseDirectAddress <- MCParseDirectAddress
  Configs <- AllFiles
  Addressed <- Typed
SPECIFICATION Spec
INVARIANTS
  SameVerdict
PROPERTIES
  ImplementsJumpGraph
