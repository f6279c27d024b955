CONSTANTS
  Emails = {e1}
  NoEmail = NoEmail
  Requests = {q1, q2, q3}
  Ops = {"submit", "reanalyze", "review", "delete"}
  MaxLinks = 2
  Answers <- AllAnswers
  PageRisks = {"high", "medium", "low", "null"}
  Faults = {"stage", "mark", "shutdown", "kill"}
  Endless = {}
  Exclusive = TRUE
SPECIFICATION Spec
SYMMETRY Symmetry
INVARIANTS TypeOK VerdictMatchesEvidence LinksMatchCount ColumnsMatchStatus
PROPERTY FollowsLifecycle
CHECK_DEADLOCK FALSE
