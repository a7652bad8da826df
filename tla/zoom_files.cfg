SPECIFICATION FairSpec
CONSTANTS
  Roundoff = FALSE
  Width = 2
  Height = 3
  PicHeight = 4
  Dirty = Dirty
  Beyond = Beyond
  Zero = Zero
  Junk = Junk
  Jobs <- AllJobs
  Requests <- AllRequests
  Boxes <- AllBoxes
  Rows <- AllRows
  Spans <- AllSpans
INVARIANTS SourceRight SavedRight LostOnlyIf WithinAsked
PROPERTIES ImplementsTopDown Terminates
