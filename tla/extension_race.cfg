CONSTANTS
  Accounts = {a1}
  Domain = {a1}
  NoAccount = NoAccount
  Tokens = {t1, t2}
  Requests = {q1, q2, q3}
  Ops = {"register", "blacklist"}
  Exclusive = FALSE
SPECIFICATION Spec
INVARIANT BlacklistedHasNoToken
CHECK_DEADLOCK FALSE
