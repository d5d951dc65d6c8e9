SPECIFICATION FairSpec
CONSTANTS
  Requests = {r1, r2}
  Users = {u1}
  Passwords = {p1}
  Tokens = {1, 2}
  Null = Null
INVARIANTS
  IInv
  ExchangesBounded
  ChangeRevokesEarlierTokens
PROPERTIES
  RevocationIsFinal
  DeactivationShutsOut
  EveryRequestEnds
