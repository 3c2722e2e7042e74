SPECIFICATION MCSpec
CONSTANTS
  u1 = u1
  u2 = u2
  roll = roll
  transfer = transfer
  archive = archive
  entry = entry
  Users = {u1, u2}
  Campaigns = {c1}
  NoUser = NoUser
  NoCampaign = NoCampaign
  MaxRevision = 3
  MaxGeneration = 2
  Workers = {w1, w2}
  Keys = {roll, transfer, archive, entry}
  NoKey = NoKey
  KeyActor <- Actors
  KeyKind <- Commands
  ApiKeys = {entry}
  ObservedOnly = TRUE
  MaxCrashes = 1
SYMMETRY Symmetry
INVARIANTS CustodyInv AppliedExactlyOnce AnswersAgreeWithReceipts
PROPERTIES CommitsAreCurrent CommitsAreEntitled RespectsCustody
