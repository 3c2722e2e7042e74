SPECIFICATION DraftSpec
CONSTANTS
  Editors = {e1}
  Marks = {m1}
  Art = Art
  NoDocument = NoDocument
  NoRequest = NoRequest
  NoData = NoData
  MaxEdits = 3
  MaxClicks = 1
  MaxFaults = 0
CHECK_DEADLOCK FALSE
INVARIANT SavedIsShown
