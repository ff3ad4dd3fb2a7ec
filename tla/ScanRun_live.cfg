SPECIFICATION FairSpec
CONSTANTS
  Workers = {w1}
  NoWorker = NoWorker
  Runs = {r1, r2}
  Pids = {p1}
  NoPid = NoPid
  NStages = 1
  ScanLimit = 1
  RunStore = "memory"
  MaxCrashes = 1
  MaxDbFaults = 0
  MaxEngineFaults = 0
  MaxForeign = 0
INVARIANTS
  StopWins
  SoleFinisher
PROPERTIES
  RowsFollowLifecycle
  VisibleEndIsFinal
  RunsSettle
  SlotIsFreed
