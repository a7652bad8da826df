SPECIFICATION Spec
CONSTANTS
  Roundoff = FALSE
  H = 10
  PicHeight = 10
  Dirty = Dirty
  Requests <- MovedUp
INVARIANTS NoFeedback
