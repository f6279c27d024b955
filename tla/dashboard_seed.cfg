CONSTANTS
  Users = {a1, u1}
  SeedUsers = {a1}
  NoUser = NoUser
  Sessions = {s1, s2}
  Requests = {q1}
  Ops = {"login", "update"}
  MaxAsked = 2
SPECIFICATION Spec
INVARIANT StartSucceeds
CHECK_DEADLOCK FALSE
