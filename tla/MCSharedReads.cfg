SPECIFICATION StreamsSpec
CONSTANTS
  Displays = {d1}
  Streams = {s1}
  Files = {f1}
  NoOne = NoOne
  MaxSceneRevision = 2
  MaxStreamFaults = 0
  MaxImageReads = 1
CHECK_DEADLOCK FALSE
INVARIANTS LaterReadsSeeLatest
