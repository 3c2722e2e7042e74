SPECIFICATION MCSpec
CONSTANTS
  Tabs = {t1, t2}
  Intents = {a}
  None = None
  Earlier = {b}
  Other = Other
  MaxForeign = 1
  MaxReviews = 1
  MaxEvents = 1
  Editors = {e1, e2}
  Marks = {m1}
  Art = Art
  NoDocument = NoDocument
  NoRequest = NoRequest
  NoData = NoData
  MaxEdits = 1
  MaxClicks = 3
  MaxFaults = 0
SYMMETRY Alike
CHECK_DEADLOCK FALSE
INVARIANTS NothingIsLost AppliedOnGrounds OneSender QueuedIsStored NoEditOutlivesAccess PublishesWhatIsShown RetriesAreIdentical
PROPERTIES ServerKeepsThePromise ReadsNeverGoBack
