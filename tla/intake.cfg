CONSTANTS
  Analyses = {analysis}
  Batches = {batch}
  Reads = {read}
  PoolSize = 2
  BatchMax = 3
  Sizes = {3, 4}
  Says <- AnyVerdict
  AlertAt = 90
SPECIFICATION FairSpec
INVARIANT TypeOK
INVARIANT PoolAccounts
INVARIANT ErrorsLeaveNothing
INVARIANT BatchAllOrNothing
INVARIANT LabelsFollowClasses
PROPERTY VerdictsAreDelivered
PROPERTY RequestsEnd
CHECK_DEADLOCK FALSE
