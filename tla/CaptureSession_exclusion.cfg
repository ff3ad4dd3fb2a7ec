SPECIFICATION Spec
CONSTANTS
  Sessions = {s1, s2}
  NoSession = NoSession
  Interfaces = {eth, any}
  AnyDevice = any
  Clicks = {c1}
  MaxConcurrent = 2
  MaxFiles = 1
  RingFiles = 1
  MaxWebCrashes = 0
  MaxCapdCrashes = 0
  MaxTimeouts = 0
SYMMETRY Interchangeable
INVARIANTS
  OneCapturePerInterface
