SPECIFICATION Spec
CONSTANTS
  Grid = 8
  WEIGHTONE = 64
  MaxLen = 5
  Scales = {2, 3, 4}
  Calls <- AllCalls
INVARIANTS TypeOK SumIsOne FudgeSlight WeightsFit TrimsOnlyZeros OverflowOnlyIfCutOff CenterOnlyIffWeightless TableTame
