SPECIFICATION Spec
CONSTANTS
  Roundoff = FALSE
  H = 6
  PicHeight = 6
  Dirty = Dirty
  Requests <- Narrowed
INVARIANTS NeverNullFilter
