CONSTANTS
  Accounts = {a1}
  Domain = {a1}
  NoAccount = NoAccount
  Tokens = {t1, t2, t3}
  Requests = {q1, q2, q3}
  Ops = {"register", "renew", "call", "blacklist", "unblacklist", "blacklistDomain"}
  Exclusive = FALSE
SPECIFICATION FairSpec
INVARIANT AccessIsCut
PROPERTY RequestsEnd
CHECK_DEADLOCK FALSE
