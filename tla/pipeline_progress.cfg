CONSTANTS
  Emails = {e1}
  NoEmail = NoEmail
  Requests = {q1, q2, q3}
  Ops = {"submit", "reanalyze", "delete"}
  MaxLinks = 1
  Answers <- OneLink
  PageRisks = {"high"}
  Faults = {"stage", "rollback"}
  Endless <- DrippingAnswers
  Exclusive = FALSE
SPECIFICATION FairSpec
INVARIANT NothingStranded
PROPERTY EmailsSettle
CHECK_DEADLOCK FALSE
