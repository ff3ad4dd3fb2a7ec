SPECIFICATION Spec
CONSTANTS
  Workers = {w1}
  NoWorker = NoWorker
  Runs = {r1}
  Pids = {p1}
  NoPid = NoPid
  NStages = 2
  ScanLimit = 2
  RunStore = "memory"
  MaxCrashes = 1
  MaxDbFaults = 0
  MaxEngineFaults = 0
  MaxForeign = 0
INVARIANTS
  ReapedCompletedHasAllStages
