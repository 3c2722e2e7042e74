SPECIFICATION MCSpec
CONSTANTS
  gm = gm
  co = co
  pl = pl
  Users = {gm, co, pl}
  Campaigns = {c1}
  Workers = {w1, w2}
  Sheets = {1, 2}
  MaxAttached = 1
  NoUser = NoUser
  NoCampaign = NoCampaign
  NoRequest = NoRequest
  MaxRevision = 3
  MaxGeneration = 3
  MaxCampaignRevision = 6
  Invites = {i1, i2}
  MaxMembers = 2
  MaxRotations = 1
  Nobody = Nobody
  Notes = {1, 2, 3}
  PageSize = 1
  MaxTime = 2
  MaxNoteRevision = 3
  NoReader = NoReader
  Templates = {t1, t2}
  Proposals = {p1, p2}
  MaxTemplates = 1
  MaxPending = 1
  MaxTemplateRevision = 3
  NoProposal = NoProposal
  NoAuthor = NoAuthor
SYMMETRY Symmetry
CHECK_DEADLOCK FALSE
INVARIANTS AttachedWithinLimit DesignationsAreLive NoCyclicWait SeatsWithinLimit AdmittedOnce GrantsAreOfThisMembership ListsAreComplete ProposalsPublishOnce
PROPERTIES SheetsRespectCustody JoinersReviewed CopiesAreCurrent
