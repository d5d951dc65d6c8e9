SPECIFICATION Spec
CONSTANTS
  Requests = {r1, r2}
  Users = {u1}
  Passwords = {p1}
  Tokens = {1}
  Null = Null
INVARIANTS
  ExchangedOnce
