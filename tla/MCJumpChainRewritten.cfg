CONSTANTS
  Str <- MCStr
  DirectAddress <- MCDirectAddress
  ManyColons <- MCManyColons
  Foreign <- MCForeign
  TrimSpace <- MCTrimSpace
  ParseDirectAddress <- MCParseDirectAddress
  Configs <- Shapes
  Addressed <- Names
SPECIFICATION FairSpec
INVARIANTS
  TypeOK
  NoHostTwice
  ChainLinked
  LoopPathIsCycle
PROPERTIES
  ChosenIsTarget
  Termination
