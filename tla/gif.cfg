SPECIFICATION FairSpec
CONSTANTS
  Byte = 2
  Formats <- AllFormats
  Pixels = {0, 1}
  BlockSizes = {1, 3}
  MaxCodes = 5
  MaxPixels = 9
INVARIANTS PixelsRight ImageComplete GarbledOnlyIf InSync StringsEnd
PROPERTIES Completes
