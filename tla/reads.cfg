CONSTANTS
  older = older
  newer = newer
  Emails = {older, newer}
  NoEmail = NoEmail
  Requests = {q1, q2}
  Ops = {"submit", "reanalyze", "delete"}
  MaxLinks = 2
  Answers <- EarlyOrFull
  PageRisks = {"high", "low"}
  Faults = {}
  Endless = {}
  Exclusive = TRUE
  ReceivedAt <- Arrival
  Windows <- OneWindow
  Filters = {"any", "legitimate"}
  PageSize = 1
  BucketLength = 2
SPECIFICATION SpecReads
SYMMETRY Symmetry
INVARIANT ReadsTypeOK
INVARIANT DetailShowsEvidence
INVARIANT SummaryAddsUp
INVARIANT UsageAddsUp
INVARIANT WalkFindsAll
INVARIANT ChartsAgree
CHECK_DEADLOCK FALSE
