SPECIFICATION MCSpec
CONSTANTS
  u1 = u1
  u2 = u2
  Users = {u1, u2}
  Campaigns = {c1}
  NoUser = NoUser
  NoCampaign = NoCampaign
  MaxRevision = 3
  MaxGeneration = 1
  Workers = {w1, w2}
  Keys = {k1, k2}
  NoKey = NoKey
  KeyActor <- ByOne
  KeyKind <- BothEdit
  ApiKeys = {}
  ObservedOnly = TRUE
  MaxCrashes = 0
  Rolls = {1, 2, 3}
  NoRoll = NoRoll
  Pushers = {w1, w2}
  NoPush = NoPush
  MaxAttempts = 1
SYMMETRY Symmetry
INVARIANTS NoLostUpdate PushedOnce
PROPERTIES KeepsThePromise PushesAreDisclosed
