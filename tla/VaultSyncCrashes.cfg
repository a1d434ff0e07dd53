SPECIFICATION Spec
CONSTANTS
  p1 = p1
  p2 = p2
  a = a
  b = b
  m = m
  Path = {p1, p2}
  Content = {a, b}
  WithMarkers = {}
  Absent = Absent
  Marked = Marked
  FirstTrees <- OneFile
  MaxWrites = 1
  MaxEdits = 1
  MaxCancels = 0
  MaxCrashes = 1
  EmptyResolution = TRUE
SYMMETRY Interchangeable
INVARIANT TypeOK
INVARIANT AckedKept
INVARIANT OkMeansSettled
INVARIANT IndexIsStamped
INVARIANT DerivedFollowsHead
