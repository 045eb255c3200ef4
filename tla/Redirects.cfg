\* All sites, every short path.
SPECIFICATION Spec
CONSTANTS
  Starts <- AllStarts
  Files <- AllFiles
  CrateVersions <- AllVersions
  Spellings <- AllSpellings
CHECK_DEADLOCK FALSE
INVARIANTS
  RedirectsEnd
  SameFileOnBothCdns
  PublishedIsFound
