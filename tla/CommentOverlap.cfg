SPECIFICATION Spec
CONSTANTS
  Requests = {r1, r2}
  Tasks = {t1, t2}
  Users = {admin, worker}
  Employees = {e1, e2}
  Comments = {k1}
  Contents = {short, long}
  Excerpts = {short, cut}
  Null = Null
  cut = cut
  admin = admin
  worker = worker
  e1 = e1
  e2 = e2
  short = short
  long = long
  Excerpt <- MCExcerpt
  RoleOf <- MCRoleOf
  ProfileOf <- MCProfileOf
SYMMETRY RequestSymmetry
INVARIANTS
  IInv
  EditsLand
  EmployeesCommentAsHolders
PROPERTIES
  DeletionClosesComments
  LifeSpec
