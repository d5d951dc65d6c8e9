SPECIFICATION Spec
CONSTANTS
  Requests = {r1, r2}
  Users = {u1}
  Passwords = {p1, p2}
  Tokens = {1}
  Null = Null
SYMMETRY PasswordSymmetry
INVARIANTS
  PasswordChangeForcesLogin
