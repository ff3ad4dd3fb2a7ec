SPECIFICATION Spec
CONSTANTS
  Workers = {w1}
  NoWorker = NoWorker
  Runs = {r1, r2}
  Pids = {p1, p2}
  NoPid = NoPid
  NStages = 2
  ScanLimit = 1
  RunStore = "db"
  MaxCrashes = 0
  MaxDbFaults = 0
  MaxEngineFaults = 0
  MaxForeign = 0
SYMMETRY Interchangeable
INVARIANTS
  RunningWithinLimit
