CONSTANTS
  SudoKey <- MCSudoKey
  Names <- MCNames
  Masters <- MCMasters
  Start <- MCStart
  Invocations <- One
  Commands <- Execs
SPECIFICATION Spec
INVARIANTS
  ExecNeverAsks
