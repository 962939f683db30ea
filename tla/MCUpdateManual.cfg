CONSTANTS
  Releases <- AllReleases
  Builds <- AllBuilds
SPECIFICATION Spec
INVARIANTS
  ManualFileIsThere
