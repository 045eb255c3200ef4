\* One upload and one rollback, no failures.
SPECIFICATION Spec
CONSTANTS
  Jobs = {j1}
  Redeploys = {j1}
  Tasks = {t1}
  KeepUntagged = 3
  MaxErrors = 0
INVARIANTS
  RollbackRedeploys
