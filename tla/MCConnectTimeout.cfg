CONSTANTS
  MaxHosts <- MCMaxHosts
SPECIFICATION FairSpec
PROPERTIES
  DialIsBounded
