SPECIFICATION MCSpec
CONSTANTS
  Displays = {d1}
  Streams = {s1}
  Files = {f1, f2}
  NoOne = NoOne
  MaxSceneRevision = 2
  MaxStreamFaults = 1
  MaxImageReads = 0
  Tabs = {t1}
  Intents = {a}
  None = None
  Earlier = {b}
  Other = Other
  MaxForeign = 1
  MaxReviews = 1
  MaxEvents = 1
  Editors = {e1}
  Marks = {m1}
  Art = Art
  NoDocument = NoDocument
  NoRequest = NoRequest
  NoData = NoData
  MaxEdits = 3
  MaxClicks = 2
  MaxFaults = 1
CHECK_DEADLOCK FALSE
PROPERTIES RevokedGoBlank DisplaysCatchUp DrainsOrTells DraftsAreSavedOrTold
