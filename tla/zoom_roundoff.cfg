SPECIFICATION Spec
CONSTANTS
  Roundoff = TRUE
  H = 4
  PicHeight = 4
  Dirty = Dirty
  Requests <- WindowRequests
INVARIANTS SplitSurvivesRoundoff OverfullOnlyByRoundoff
PROPERTIES WritesAreFresh
