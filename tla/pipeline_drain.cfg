CONSTANTS
  Emails = {e1}
  NoEmail = NoEmail
  Requests = {q1, q2}
  Ops = {"submit"}
  MaxLinks = 1
  Answers <- ShortAndLong
  PageRisks = {"high"}
  Faults = {"shutdown"}
  Endless = {}
  Exclusive = TRUE
SPECIFICATION Spec
INVARIANT DrainFinishesWork
CHECK_DEADLOCK FALSE
