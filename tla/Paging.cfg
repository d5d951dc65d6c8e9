SPECIFICATION Spec
CONSTANTS
  Tasks = {1, 2, 3}
  e1 = e1
  e2 = e2
  d1 = d1
  admin = admin
  manager = manager
  worker = worker
  newcomer = newcomer
  Employees = {e1, e2}
  Departments = {d1}
  Users = {admin, manager, worker, newcomer}
  RoleOf <- MCRoleOf
  ProfileOf <- MCProfileOf
  Names = {1, 2}
  Dates = {1, 2}
  Now = 2
  Tables <- MCTables
  Staff <- MCStaff
  Queries <- MCQueries
  MaxCommits = 2
  Null = Null
CHECK_DEADLOCK FALSE
INVARIANTS
  IInv
  ReadsAgree
  NothingMissed
  UndisturbedWalkIsExact
