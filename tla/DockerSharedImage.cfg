\* Two containers of one image, no failure at all.
SPECIFICATION Spec
CONSTANTS
  web = web
  agent = agent
  i1 = i1
  Containers = {web, agent}
  Images = {i1}
  ImageOf <- SharedImage
  Order <- BothInTurn
  MaxVersion = 2
  MaxAttempts = 2
  MaxFailures = 0
  MaxEnded = 0
  MaxReboots = 1
INVARIANTS
  NoneOutdatedAfterUpdate
