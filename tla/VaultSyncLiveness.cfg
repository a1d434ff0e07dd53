SPECIFICATION FairSpec
CONSTANTS
  p1 = p1
  p2 = p2
  a = a
  b = b
  m = m
  Path = {p1}
  Content = {a, b, m}
  WithMarkers = {m}
  Absent = Absent
  Marked = Marked
  FirstTrees <- AnyFiles
  MaxWrites = 1
  MaxEdits = 1
  MaxCancels = 0
  MaxCrashes = 0
  EmptyResolution = FALSE
PROPERTY EventuallyPublished
PROPERTY EventuallyMerged
PROPERTY MergesBringNoMarkers
