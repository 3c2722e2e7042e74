SPECIFICATION DraftSpec
CONSTANTS
  Editors = {e1, e2}
  Marks = {m1}
  Art = Art
  NoDocument = NoDocument
  NoRequest = NoRequest
  NoData = NoData
  MaxEdits = 2
  MaxClicks = 2
  MaxFaults = 0
CHECK_DEADLOCK FALSE
PROPERTY OverwritesAreExplicit
