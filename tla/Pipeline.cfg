SPECIFICATION FairSpec
CONSTANTS
  Requests = {r1, r2}
  PoolSize = 1
  Methods = {"GET", "POST", "PATCH", "DELETE"}
INVARIANTS
  IInv
  OutcomesAreTrue
PROPERTIES
  PoolServes
