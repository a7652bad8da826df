SPECIFICATION FairSpec
CONSTANTS
  Roundoff = FALSE
  H = 5
  PicHeight = 5
  Dirty = Dirty
  Beyond = Beyond
  Requests <- PointRequests
INVARIANTS TypeOK NoFeedback ReadsSourceWindow
PROPERTIES ForwardReads ImplementsResample Completes
