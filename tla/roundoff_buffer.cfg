SPECIFICATION Spec
CONSTANTS
  Roundoff = TRUE
  H = 22
  PicHeight = 22
  Dirty = Dirty
  Requests <- TwentyOneToSeven
INVARIANTS NoFeedback
