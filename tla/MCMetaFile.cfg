CONSTANTS
  Str <- MCStr
  DirectAddress <- MCDirectAddress
  ManyColons <- MCManyColons
  Foreign <- MCForeign
  TrimSpace <- MCTrimSpace
  ParseDirectAddress <- MCParseDirectAddress
  SshConfigs <- MCSshConfigs
  Patterns <- MCPatterns
  Start <- MCStart
  Invocations <- Two
  Commands <- AllCommands
SPECIFICATION Spec
INVARIANTS
  TypeOK
  ReadableUnlessSpoilt
  UntouchedSurvives
  ProvenanceKept
PROPERTIES
  BrokenFileIsLeftAlone
  ImplementsRegistry
