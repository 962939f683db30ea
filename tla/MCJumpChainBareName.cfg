CONSTANTS
  Str <- MCStr
  DirectAddress <- MCDirectAddress
  ManyColons <- MCManyColons
  Foreign <- MCForeign
  TrimSpace <- MCTrimSpace
  ParseDirectAddress <- MCParseDirectAddress
  Configs <- AllFiles
  Addressed <- NamesAndAlias
SPECIFICATION QuietSpec
INVARIANTS
  BareNameIsDeclared
