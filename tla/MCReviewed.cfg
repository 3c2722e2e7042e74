CONSTANTS
  Tabs = {t1}
  Intents = {a, b}
  None = None
  Earlier = {}
  Other = Other
  MaxForeign = 1
  MaxReviews = 1
  MaxEvents = 1
SPECIFICATION SessionSpec
CHECK_DEADLOCK FALSE
INVARIANT ReviewedIsNotApplied
