\* Two requests for a crate file, failing buckets, uploads and a purge.
SPECIFICATION FairSpec
CONSTANTS
  r1 = r1
  r2 = r2
  Requests = {r1, r2}
  Methods = {"GET", "PURGE", "POST"}
  Urls <- AllUrls
  Keys <- AllKeys
  Replicated <- AllKeys
  TagsOf <- CrateTag
  MaxVersion = 2
  MaxErrors = 2
  MaxPurges = 1
INVARIANTS
  TypeOK
  FallbackIsReached
  PurgeLeavesNothing
PROPERTIES
  MissingIsForgotten
