CONSTANTS
  Releases <- AllReleases
  Builds <- AllBuilds
SPECIFICATION FairSpec
INVARIANTS
  TypeOK
  ReportIsTrue
  NoFileLeft
  UpToDateMeansNewest
PROPERTIES
  NeverDowngrades
  EndsIfServed
