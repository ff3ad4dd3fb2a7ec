SPECIFICATION FairSpec
CONSTANTS
  Sessions = {s1}
  NoSession = NoSession
  Interfaces = {any}
  AnyDevice = any
  Clicks = {c1, c2}
  MaxConcurrent = 1
  MaxFiles = 3
  RingFiles = 2
  MaxWebCrashes = 1
  MaxCapdCrashes = 1
  MaxTimeouts = 1
INVARIANTS
  NeverScansOpenFile
  ScannedOnce
PROPERTIES
  StopTakesEffect
