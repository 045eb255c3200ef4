\* One host: everything may fail, secrets rotate, an operator runs the script again.
SPECIFICATION FairSpec
CONSTANTS
  Hosts = {h1}
  Secrets <- TwoSecrets
  MaxFailures = 3
  MaxRotations = 1
  MaxReruns = 1
CHECK_DEADLOCK FALSE
INVARIANTS
  TypeOK
  EverySecretIsFresh
  AdmittedAfterTwoLooks
PROPERTIES
  FleetRecovers
