CONSTANTS
  MaxHosts <- MCMaxHosts
SPECIFICATION FairSpec
INVARIANTS
  TypeOK
  NothingLeft
  TunnelsAreCarried
  HeldOnlyWhileUsed
  BlamesTheRightHost
  ZeroMeansItRan
  SudoReadsWhatIsFed
PROPERTIES
  EndsIfAnswered
  CleanupCompletes
