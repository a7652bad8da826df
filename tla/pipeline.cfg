SPECIFICATION Spec
CONSTANTS
  Chan = 4
  Spare = 4
  Tables <- AllTables
  Pictures <- AllPictures
INVARIANTS FlatField SumsFit NearExact
