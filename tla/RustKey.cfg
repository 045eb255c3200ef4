\* Three runs on one machine, killed or interrupted anywhere.
SPECIFICATION Spec
CONSTANTS
  Runs = {r1, r2, r3}
  Keys = {public, secret, subkey}
INVARIANTS
  TypeOK
  CommandHasTheKeys
  NoTraces
PROPERTIES
  IsAVault
