SPECIFICATION Spec
CONSTANTS
  Requests = {r1, r2}
  Users = {a, b}
  Seeded = {a}
  Roles = {"ADMIN", "EMPLOYEE"}
  Null = Null
SYMMETRY RequestSymmetry
INVARIANT
  IInv
PROPERTIES
  RemovalStopsNewRequests
  LockoutIsFinal
  OfficeEmptiedByOwnHand
  EachCommitItsColumn
