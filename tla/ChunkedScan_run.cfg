SPECIFICATION FairSpec
CONSTANTS
  MaxChunks = 3
  MaxFaults = 2
  MaxDbFaults = 2
  MaxCrashes = 2
INVARIANTS
  TypeOK
  OneChildAfterStop
  ReportHasEveryChunk
PROPERTIES
  RowFollowsLifecycle
  StopEndsRun
