SPECIFICATION Spec
CONSTANTS
  Sessions = {s1, s2}
  NoSession = NoSession
  Interfaces = {eth, any}
  AnyDevice = any
  Clicks = {c1}
  MaxConcurrent = 2
  MaxFiles = 0
  RingFiles = 1
  MaxWebCrashes = 0
  MaxCapdCrashes = 1
  MaxTimeouts = 1
SYMMETRY Interchangeable
INVARIANTS
  TypeOK
  SettledIsSilent
  InterfaceExclusive
