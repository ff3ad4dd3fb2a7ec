CONSTANTS
  Users = {u1, u2}
  Admins = {u1, u2}
  Names = {"Site"}
  Kinds = {"tag", "note"}
  Keys = {k}
  Requests = {r1, r2}
  Runs = {s}
  File = file
  None = None
  MaxProjects = 4
  MaxRequests = 2
  MaxBoots = 2
SPECIFICATION Spec
CHECK_DEADLOCK FALSE
SYMMETRY Symmetry
INVARIANT DefaultStays
INVARIANT DeletedLeavesNoFile
INVARIANT NothingDangles
