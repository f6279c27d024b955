CONSTANTS
  Accounts = {a1, a2}
  Domain = {a1, a2}
  NoAccount = NoAccount
  Tokens = {t1, t2, t3}
  Requests = {q1, q2, q3}
  Ops = {"register", "renew", "logout", "call", "blacklist", "unblacklist", "revoke", "blacklistDomain"}
  Exclusive = TRUE
SPECIFICATION Spec
SYMMETRY Symmetry
INVARIANTS TypeOK BlacklistedHasNoToken OneTokenPerInstall
CHECK_DEADLOCK FALSE
