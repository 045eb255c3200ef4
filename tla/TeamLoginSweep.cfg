\* One run after the other; the account of one member can never be created.
SPECIFICATION FairSpec
CONSTANTS
  Users = {u1, u2}
  Unaddable = {u2}
  Crons = {c1}
  MaxChanges = 3
  MaxFailures = 0
PROPERTIES
  RevokedLoseKeys
