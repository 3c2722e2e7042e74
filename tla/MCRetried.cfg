SPECIFICATION MCSpec
CONSTANTS
  u1 = u1
  u2 = u2
  Users = {u1}
  Campaigns = {c1}
  NoUser = NoUser
  NoCampaign = NoCampaign
  MaxRevision = 2
  MaxGeneration = 1
  Workers = {w1, w2}
  Keys = {k1}
  NoKey = NoKey
  KeyActor <- ByOne
  KeyKind <- OneRename
  ApiKeys = {}
  ObservedOnly = TRUE
  MaxCrashes = 1
  Systems = {s1, s2}
  Definitions = {d1}
  RequestKeys = {q1, q2}
  Requests = {w1, w2}
  NoWork = NoWork
  NoBase = NoBase
  MaxMajor = 2
  MaxMinor = 0
  MaxDraftRevision = 2
  MaxStarts = 3
CHECK_DEADLOCK FALSE
INVARIANTS OncePerKey
PROPERTIES PendingIsSettled BreaksAreAcknowledged
