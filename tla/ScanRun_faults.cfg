SPECIFICATION Spec
CONSTANTS
  Workers = {w1, w2}
  NoWorker = NoWorker
  Runs = {r1}
  Pids = {p1, p2}
  NoPid = NoPid
  NStages = 2
  ScanLimit = 2
  RunStore = "db"
  MaxCrashes = 2
  MaxDbFaults = 2
  MaxEngineFaults = 1
  MaxForeign = 1
SYMMETRY Interchangeable
INVARIANTS
  TypeOK
  NormalCompletionIsComplete
  ReaperVerdictsHold
  LiveEngineIsTracked
