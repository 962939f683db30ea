CONSTANTS
  Str <- MCStr
  DirectAddress <- MCDirectAddress
  ManyColons <- MCManyColons
  Foreign <- MCForeign
  TrimSpace <- MCTrimSpace
  ParseDirectAddress <- MCParseDirectAddress
  Configs <- Shared
  Addressed <- Typed
SPECIFICATION Spec
INVARIANTS
  SameVerdict
