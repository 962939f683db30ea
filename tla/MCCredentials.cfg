CONSTANTS
  SudoKey <- MCSudoKey
  Names <- MCNames
  Masters <- MCMasters
  Start <- MCStart
  Invocations <- Two
  Commands <- AllCommands
SPECIFICATION Spec
INVARIANTS
  TypeOK
  OneMasterOpensAll
  UntouchedPasswordsSurvive
  AskedOnce
  NeverTheSudoPassword
PROPERTIES
  BrokenStoreIsLeftAlone
  ImplementsVault
