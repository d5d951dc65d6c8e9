SPECIFICATION Spec
CONSTANTS
  Requests = {r1, r2}
  Tables = {"users", "departments", "employees"}
  Ids = {i1, i2, i3}
  Values = {a, b}
  Null = Null
SYMMETRY MCSymmetry
INVARIANTS
  IInv
PROPERTIES
  LateErrorNeedsARival
  DeactivationIsFinal
