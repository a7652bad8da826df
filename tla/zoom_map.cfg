SPECIFICATION Spec
CONSTANTS
  Roundoff = FALSE
  H = 3
  PicHeight = 3
  Dirty = Dirty
  Requests <- MapRequests
INVARIANTS CorruptionReported FeedbackOnlyIf NullFilterOnlyIfCoerced
