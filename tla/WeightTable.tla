----------------------------- MODULE WeightTable -----------------------------
(***************************************************************************)
(* make_weighttab (zoom/zoom.c): sample a filter around the continuous     *)
(* source coordinate cen, and normalize the samples to integer weights     *)
(* whose sum is WEIGHTONE.  One step per sample.                           *)
(*                                                                         *)
(* cen is a multiple of 1/Grid and scale of 1/2, so that every sample of a *)
(* piecewise polynomial filter is a fraction.  What a short holds is up to *)
(* 2*WEIGHTONE, as for 14 bits of weight.                                  *)
(***************************************************************************)
EXTENDS FilterFunctions, Sequences, FiniteSetsExt

CONSTANTS Grid,         \* positions of cen per pixel
          WEIGHTONE,    \* filter weight of one
          Calls         \* arguments of the calls

ASSUME WeightAssumption ==
  /\ Grid \in Nat \ {0} /\ Grid % 2 = 0
  /\ WEIGHTONE \in Nat \ {0}
  /\ \A c \in Calls : /\ c.filter \in Filters /\ c.scale2 \in Nat \ {0}
                      /\ c.cen \in Int /\ c.len \in Nat
                      /\ c.trimzeros \in BOOLEAN

VARIABLES
  call,           \* filter, its scale, cen, len, trimzeros
  pc,
  i,              \* source coordinate of the next sample
  i0, i1,         \* range of the filter; i0 moves past leading zeros
  wtab,           \* i0 and i1 of the table
  weight,         \* the weights in it
  sum,            \* of the weights
  stillzero,      \* skipping leading zeros?
  lastnonzero     \* last coordinate with a weight

vars == <<call, pc, i, i0, i1, wtab, weight, sum, stillzero, lastnonzero>>

Unassigned == -1

(* Four times the scaled support: half a source line at least.             *)
Spread4 == IF call.scale2 * Width[call.filter] > 2 THEN call.scale2 * Width[call.filter] ELSE 2

(* Fault: the last line of a support that is not whole has no room.        *)
widRoundedDown == Spread4 \div 2

(* ap->wid: the number of weights allocated.                               *)
wid == (Spread4 + 1) \div 2

(* upto[k] is the sum of f[m] to f[k-1].                                   *)
SumsFrom(f, m, n) ==
  LET upto[k \in m .. n] == IF k = m THEN 0 ELSE upto[k - 1] + f[k - 1] IN upto

TruncDiv(x, n) == IF x >= 0 THEN x \div n ELSE -((-x) \div n)

(* The filter at source line k is Sampled(k) / Unit(call.filter, Step).    *)
Step == Grid * call.scale2

(* Fault: sampled at the edge of the source line.                          *)
SampledAtEdge(k) == Value(call.filter, 2 * (Grid * k - call.cen), Step)

Sampled(k) == Value(call.filter, 2 * (Grid * k - call.cen) + Grid, Step)

Area(range) ==
  SumsFrom([k \in range.i0 .. range.i1 - 1 |-> Sampled(k)], range.i0, range.i1)[range.i1]

den == Area(wtab)

(* tr = sc*filt_func() as a fraction of two integers, the second positive. *)
Normalized(k) ==
  IF den = 0 THEN [num |-> WEIGHTONE * Sampled(k), over |-> Unit(call.filter, Step)]
  ELSE IF den > 0 THEN [num |-> WEIGHTONE * Sampled(k), over |-> den]
  ELSE [num |-> -WEIGHTONE * Sampled(k), over |-> -den]

(* Fault: truncation in place of rounding.                                 *)
RoundedDown(k) == LET tr == Normalized(k) IN tr.num \div tr.over

Rounded(k) == LET tr == Normalized(k) IN (2 * tr.num + tr.over) \div (2 * tr.over)

(* Fault: a weight of one is too large.                                    *)
FitsShortUnlessOne(k) ==
  LET tr == Normalized(k)
  IN  -WEIGHTONE * tr.over <= tr.num /\ tr.num < WEIGHTONE * tr.over

(* Fault: the size of a weight is not checked.                             *)
FitsShortUnchecked(k) == TRUE

FitsShort(k) ==
  LET tr == Normalized(k)
  IN  -2 * WEIGHTONE * tr.over <= tr.num /\ tr.num <= (2 * WEIGHTONE - 1) * tr.over

(* What is left of a sum in a short.                                       *)
Short(x) == ((x + 2 * WEIGHTONE) % (4 * WEIGHTONE)) - 2 * WEIGHTONE

Init ==
  /\ call \in Calls
  /\ pc = "entry"
  /\ i = 0 /\ i0 = 0 /\ i1 = 0
  /\ wtab = [i0 |-> 0, i1 |-> 0]
  /\ weight = <<>>
  /\ sum = 0
  /\ stillzero = FALSE
  /\ lastnonzero = Unassigned

-----------------------------------------------------------------------------
(* The range of source coordinates under the filter.                       *)
RangeEnd(support) == TruncDiv(4 * call.cen + Grid * support + 2 * Grid, 4 * Grid)

(* Fault: the range is not clipped at the end of the source.               *)
FilterRangeUnclipped ==
  [i0 |-> IF RangeEnd(-Spread4) < 0 THEN 0 ELSE RangeEnd(-Spread4), i1 |-> RangeEnd(Spread4)]

FilterRange ==
  [i0 |-> IF RangeEnd(-Spread4) < 0 THEN 0 ELSE RangeEnd(-Spread4),
   i1 |-> IF RangeEnd(Spread4) > call.len THEN call.len ELSE RangeEnd(Spread4)]

Bounds ==
  /\ pc = "entry"
  /\ FilterRange.i0 < FilterRange.i1
  /\ wtab' = FilterRange
  /\ i' = FilterRange.i0 /\ i0' = FilterRange.i0 /\ i1' = FilterRange.i1
  /\ stillzero' = call.trimzeros
  /\ pc' = "sample"
  /\ UNCHANGED <<call, weight, sum, lastnonzero>>

NullFilter ==
  /\ pc = "entry"
  /\ FilterRange.i0 >= FilterRange.i1
  /\ pc' = "null"
  /\ UNCHANGED <<call, i, i0, i1, wtab, weight, sum, stillzero, lastnonzero>>

Overflow ==
  /\ pc = "sample" /\ i < i1
  /\ ~FitsShort(i)
  /\ pc' = "overflow"
  /\ UNCHANGED <<call, i, i0, i1, wtab, weight, sum, stillzero, lastnonzero>>

SkipZero ==
  /\ pc = "sample" /\ i < i1
  /\ FitsShort(i)
  /\ stillzero /\ Rounded(i) = 0
  /\ i' = i + 1 /\ i0' = i0 + 1
  /\ UNCHANGED <<call, pc, i1, wtab, weight, sum, stillzero, lastnonzero>>

AddWeight ==
  /\ pc = "sample" /\ i < i1
  /\ FitsShort(i)
  /\ ~(stillzero /\ Rounded(i) = 0)
  /\ stillzero' = FALSE
  /\ weight' = Append(weight, Rounded(i))
  /\ sum' = sum + Rounded(i)
  /\ lastnonzero' = IF Rounded(i) # 0 THEN i ELSE lastnonzero
  /\ i' = i + 1
  /\ UNCHANGED <<call, pc, i0, i1, wtab>>

(* The weights sum to zero: the line in the middle gets all the weight.    *)
CenterOnly ==
  /\ pc = "sample" /\ i = i1
  /\ sum = 0
  /\ LET mid == (wtab.i0 + wtab.i1) \div 2 IN wtab' = [i0 |-> mid, i1 |-> mid + 1]
  /\ weight' = <<WEIGHTONE>>
  /\ pc' = "done"
  /\ UNCHANGED <<call, i, i0, i1, sum, stillzero, lastnonzero>>

(* The coordinate whose weight makes up for the rounding of all of them.   *)
Fudged(first, last) ==
  LET center == TruncDiv(2 * call.cen + Grid, 2 * Grid)
  IN  IF center < first THEN first ELSE IF center >= last THEN last - 1 ELSE center

(* Fault: a trimmed table is not corrected.                                *)
FudgeUntrimmed ==
  /\ pc = "sample" /\ i = i1
  /\ sum # 0
  /\ LET last == IF call.trimzeros THEN lastnonzero + 1 ELSE i1
         k == Fudged(i0, last) - i0 + 1
     IN  /\ i1' = last
         /\ wtab' = IF call.trimzeros THEN [i0 |-> i0, i1 |-> last] ELSE wtab
         /\ weight' = IF call.trimzeros THEN weight
                      ELSE [weight EXCEPT ![k] = Short(@ + WEIGHTONE - sum)]
  /\ pc' = "done"
  /\ UNCHANGED <<call, i, i0, sum, stillzero, lastnonzero>>

(* Trim trailing zeros, and correct the sum.                               *)
Fudge ==
  /\ pc = "sample" /\ i = i1
  /\ sum # 0
  /\ LET last == IF call.trimzeros THEN lastnonzero + 1 ELSE i1
         k == Fudged(i0, last) - i0 + 1
     IN  /\ i1' = last
         /\ wtab' = IF call.trimzeros THEN [i0 |-> i0, i1 |-> last] ELSE wtab
         /\ weight' = IF sum = WEIGHTONE THEN weight
                      ELSE [weight EXCEPT ![k] = Short(@ + WEIGHTONE - sum)]
  /\ pc' = "done"
  /\ UNCHANGED <<call, i, i0, sum, stillzero, lastnonzero>>

Returned == pc \in {"done", "null", "overflow"} /\ UNCHANGED vars

Next ==
  \/ Bounds \/ NullFilter \/ Overflow \/ SkipZero \/ AddWeight
  \/ CenterOnly \/ Fudge \/ Returned

Spec == Init /\ [][Next]_vars

-----------------------------------------------------------------------------
(* The table holds the weights sampled so far, from i0 on, and its final   *)
(* range lies within the source (zoom.c:756-826).                          *)
TypeOK ==
  /\ pc \in {"entry", "sample", "done", "null", "overflow"}
  /\ pc = "sample" => /\ wtab.i0 <= i0 /\ i0 <= i /\ i <= i1
                      /\ Len(weight) = i - i0
  /\ pc = "done" => /\ 0 <= wtab.i0 /\ wtab.i0 < wtab.i1 /\ wtab.i1 <= call.len
                    /\ wtab.i1 - wtab.i0 <= Len(weight)

InTable(k) == wtab.i0 <= k /\ k < wtab.i1
WeightOf(k) == weight[k - wtab.i0 + 1]

(* The weights in use sum to WEIGHTONE exactly, whatever was rounded,      *)
(* trimmed or fudged (zoom.c:739, 816).                                    *)
SumIsOne ==
  pc = "done" =>
    SumsFrom([k \in wtab.i0 .. wtab.i1 - 1 |-> WeightOf(k)], wtab.i0, wtab.i1)[wtab.i1] = WEIGHTONE

(* The center is fudged slightly, by half a unit per line at most          *)
(* (zoom.c:814-824).                                                       *)
FudgeSlight ==
  pc = "sample" /\ i = i1 /\ Area(FilterRange) > 0 =>
    2 * Abs(WEIGHTONE - sum) <= FilterRange.i1 - FilterRange.i0

(* No more weights are stored than were allocated for (zoom.c:81, 326).    *)
WeightsFit == Len(weight) <= wid

(* Only zeros are trimmed, and all weights in use but one are the nearest  *)
(* integers to the normalized filter (zoom.c:737-741).                     *)
TrimsOnlyZeros ==
  pc = "done" /\ sum # 0 =>
    LET all  == FilterRange.i0 .. FilterRange.i1 - 1
        area == Area(FilterRange)
        Near(k, t) == /\ 2 * t * area <= 2 * WEIGHTONE * Sampled(k) + area
                      /\ 2 * t * area > 2 * WEIGHTONE * Sampled(k) - area
    IN  area > 0 =>
          /\ \A k \in all : ~InTable(k) => Near(k, 0)
          /\ \E fudged \in all : \A k \in all \ {fudged} : InTable(k) => Near(k, WeightOf(k))

(* The magnitudes of the weights come to three at most, which the sums of  *)
(* scanline.c can take (Tame of ScanlineSums), also where the filter is    *)
(* cut off at an end of the source; it is the check of every weight that   *)
(* keeps them so, at scales up to 2 (zoom.c:784-787, scanline.c:207-210).  *)
TableTame ==
  pc = "done" =>
    LET Magnitude(k) == IF WeightOf(k) < 0 THEN -WeightOf(k) ELSE WeightOf(k)
    IN  MapThenSumSet(Magnitude, wtab.i0 .. wtab.i1 - 1) <= 3 * WEIGHTONE

(* A weight fails to fit only if the filter has negative lobes and reaches *)
(* beyond the source, as WeightOverflow of FilteredZoom has it             *)
(* (zoom.c:784-787).                                                       *)
OverflowOnlyIfCutOff ==
  pc = "overflow" =>
    /\ HasLobes(call.filter)
    /\ \/ 4 * call.cen - Grid * Spread4 + 2 * Grid < 0
       \/ 4 * call.cen + Grid * Spread4 + 2 * Grid >= 4 * Grid * (call.len + 1)

(* Every source line is a nonzero number of filter units away from the     *)
(* center of a cardinal filter: the condition Weightless of ZoomGeometry.  *)
AtZerosOnly ==
  /\ Cardinal(call.filter)
  /\ \A k \in wtab.i0 .. wtab.i1 - 1 :
       LET x == 2 * (Grid * k - call.cen) + Grid
       IN  x # 0 /\ x % Step = 0

(* A window of several lines shrinks to its middle exactly if the filter   *)
(* has zeros only at its lines (zoom.c:798-804).                           *)
CenterOnlyIffWeightless ==
  pc = "sample" /\ i = i1 /\ wtab.i1 - wtab.i0 > 1 => (sum = 0 <=> AtZerosOnly)
=============================================================================
