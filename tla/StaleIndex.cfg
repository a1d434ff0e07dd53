SPECIFICATION Spec
CONSTANTS
  p1 = p1
  p2 = p2
  a = a
  b = b
  m = m
  Path = {p1, p2}
  Content = {a, b}
  WithMarkers = {}
  Absent = Absent
  Marked = Marked
  FirstTrees <- AnyFiles
  MaxWrites = 1
  MaxEdits = 1
  MaxCancels = 1
  MaxCrashes = 0
  EmptyResolution = FALSE
SYMMETRY Interchangeable
INVARIANT IndexIsStamped
