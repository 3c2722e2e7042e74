SPECIFICATION MCSpec
CONSTANTS
  Displays = {d1, d2}
  Streams = {s1, s2}
  Files = {f1, f2}
  NoOne = NoOne
  MaxSceneRevision = 2
  MaxStreamFaults = 1
  MaxImageReads = 1
CHECK_DEADLOCK FALSE
SYMMETRY Symmetry
INVARIANTS RevokedHaveNoStream StreamsAreCurrent SnapshotsGoForward
