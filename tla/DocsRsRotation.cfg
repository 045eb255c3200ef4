\* One request, while the origin-auth secret is replaced and the POPs catch up.
SPECIFICATION Spec
CONSTANTS
  None = None
  Forged = Forged
  TrueHost = TrueHost
  Unset = Unset
  Typo = Typo
  Origin = Origin
  edge = edge
  shield1 = shield1
  shield2 = shield2
  Forgeries <- AllOrNothing
  Configs <- RotationOnly
  Pops = {edge, shield1, shield2}
  Requests = {r1}
  Clients = {alice}
  Secrets = {k1, k2}
  MaxHops = 3
  MaxChanges = 1
INVARIANTS
  ShieldKeepsRequestId
CHECK_DEADLOCK FALSE
