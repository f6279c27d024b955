CONSTANTS
  Emails = {e1}
  NoEmail = NoEmail
  Requests = {q1, q2, q3}
  Ops = {"submit", "reanalyze", "review", "delete"}
  MaxLinks = 1
  Answers <- ShortAndLong
  PageRisks = {"high"}
  Faults = {"rollback", "late", "stage", "kill"}
  Endless = {}
  Exclusive = FALSE
SPECIFICATION Spec
SYMMETRY Symmetry
INVARIANTS CompleteHasVerdict NoOrphanRows
PROPERTY ReviewSurvives
CHECK_DEADLOCK FALSE
