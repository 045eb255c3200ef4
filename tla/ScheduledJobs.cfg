\* Each job on its own: two overlapping team_login runs, two architectures of
\* machine images, two services with a certificate, three playground binaries,
\* one role's port in the firewall, three Crater images, two backup plans, two
\* homes with two checkouts each, two containers with an image each, two uploads
\* next to a rollback.
SPECIFICATION FairSpec
CONSTANTS
  Users = {u1, u2}
  Unaddable = {}
  Crons = {c1, c2}
  MaxChanges = 3
  MaxDeaths = 1
  Arches = {x86_64, aarch64}
  None = None
  MaxAge = 1
  MaxBuildFailures = 3
  Hooks <- TwoHooks
  Validity = 13
  RenewWithin = 4
  MaxBadWeeks = 3
  MaxVersion = 3
  MaxCuts = 2
  Roles = {nginx}
  MaxFaults = 3
  MaxImages = 3
  MaxRollbacks = 1
  MaxAccidents = 2
  Plans = {home, postgresql}
  Dumped = {postgresql}
  KeepDaily = 2
  MaxDays = 4
  MaxErrors = 3
  Homes = {alice, bob}
  Quoted = {bob}
  MaxUses = 2
  web = web
  worker = worker
  i1 = i1
  i2 = i2
  Containers = {web, worker}
  ImageNames = {i1, i2}
  ImageOf <- OwnImage
  Order <- BothInTurn
  MaxTags = 2
  MaxAttempts = 2
  MaxPullFailures = 2
  MaxEnded = 1
  MaxReboots = 1
  Jobs = {j1, j2}
  Redeploys = {j1, j2}
  Tasks = {t1}
  KeepUntagged = 1
  MaxCallErrors = 1
INVARIANTS
  TypeOK
  NeverExpired
  EnabledIsExact
  CleanRunSucceeds
  SshStaysOpen
  OthersAreBackedUp
  NamedIsRegistered
  OutdatedIsRestarted
  PreviousIsKept
PROPERTIES
  RevokedLoseKeys
  MembersGetIn
  PublishedDaily
  NewestIsServed
  AgentIsCurrent
  InUseIsKept
  UnusedIsDeleted
  NewestRuns
  UploadIsServed
