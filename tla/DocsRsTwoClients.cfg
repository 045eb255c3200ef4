\* Two requests of two clients sharing the POPs' caches, before and during an edit.
SPECIFICATION Spec
CONSTANTS
  None = None
  Forged = Forged
  TrueHost = TrueHost
  Unset = Unset
  Typo = Typo
  Origin = Origin
  edge = edge
  shield1 = shield1
  shield2 = shield2
  Forgeries <- AllOrNothing
  Configs <- OneShield
  Pops = {edge, shield1}
  Requests = {r1, r2}
  Clients = {alice, bob}
  Secrets = {k1}
  MaxHops = 3
  MaxChanges = 1
INVARIANTS
  IdentityIsPreserved
  ClientsGetHsts
SYMMETRY Alike
CHECK_DEADLOCK FALSE
