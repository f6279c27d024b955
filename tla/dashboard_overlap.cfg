CONSTANTS
  Users = {a1, a2, u1}
  SeedUsers = {a1, a2}
  NoUser = NoUser
  Sessions = {s1, s2}
  Requests = {q1, q2}
  Ops = {"register", "login", "refresh", "logout", "call", "create", "update", "delete"}
  MaxAsked = 3
SPECIFICATION Spec
SYMMETRY Symmetry
INVARIANTS TypeOK PowersAreCurrent OneRefreshToken TokensHaveUsers
PROPERTY LogoutEndsSessions
CHECK_DEADLOCK FALSE
