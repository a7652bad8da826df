SPECIFICATION FairSpec
CONSTANTS
  Roundoff = FALSE
  H = 5
  PicHeight = 5
  Dirty = Dirty
  Requests <- WindowRequests
INVARIANTS TypeOK NoFeedback
PROPERTIES ForwardReads ImplementsResample Completes
