CONSTANTS
  slow = slow
  quick = quick
  Runs = {slow, quick}
  MaxLinks = 2
  MaxItems = 2
  Most <- MostLinks
  Cap = 1
  Endless <- LinkOfSlow
  NoTask = NoTask
SPECIFICATION FairSpec
INVARIANT TypeOK
INVARIANT CapHolds
INVARIANT OneBrowser
INVARIANT RowsTellTheirLinks
INVARIANT VerdictsLandOnTheirPages
PROPERTY RunsEnd
CHECK_DEADLOCK FALSE
