SPECIFICATION Spec
CONSTANTS
  Requests = {r1, r2}
  Tasks = {t1}
  Users = {admin, worker}
  Employees = {e1, e2}
  Contents = {c1}
  Null = Null
  MaxTicks = 3
  admin = admin
  worker = worker
  e1 = e1
  e2 = e2
  Fields <- MCFields
  RoleOf <- MCRoleOf
  ProfileOf <- MCProfileOf
INVARIANTS
  EmployeesMoveTheirOwn
