---------------------------- MODULE ZoomGeometry ----------------------------
(***************************************************************************)
(* The vertical geometry of one zoom: clipping, filter support, the window *)
(* of source lines behind a destination line and the order of the          *)
(* destination lines (zoom/zoom.c: zoom, zoom_continuous, simplify_filter, *)
(* make_weighttab, make_map_table).                                        *)
(*                                                                         *)
(* The code computes in doubles.  Here every quantity is an exact rational *)
(* on an integer grid:                                                     *)
(*                                                                         *)
(*    scale  m->sy = sn / sd          tran  m->ty = T / (2 * sd)           *)
(*    offset m->uy = U / (2 * sd)     support  ay.supp = P / (2 * sn)      *)
(*                                                                         *)
(* What hardware roundoff can do to a result is a choice: where the exact  *)
(* argument of a truncation is an integer, Roundoff = TRUE also offers the *)
(* neighbour that an argument a hair off would give.                       *)
(***************************************************************************)
EXTENDS Integers

CONSTANT Roundoff    \* do truncations suffer from hardware roundoff?

ASSUME RoundoffAssumption == Roundoff \in BOOLEAN

Least(x, y)    == IF x < y THEN x ELSE y      \* MIN of simple.h
Greatest(x, y) == IF x > y THEN x ELSE y      \* MAX of simple.h

(***************************************************************************)
(* (int) (x/n), floor(x/n) and ceil(x/n) for an integer x and n > 0, each  *)
(* as the set of results the hardware may produce.                         *)
(***************************************************************************)
FloorDiv(x, n) == x \div n
CeilDiv(x, n)  == -((-x) \div n)
TruncDiv(x, n) == IF x >= 0 THEN FloorDiv(x, n) ELSE CeilDiv(x, n)

Unsure(x, n) == Roundoff /\ x % n = 0

Truncs(x, n) ==
  {TruncDiv(x, n)}
    \cup {k \in {TruncDiv(x, n) - 1} : Unsure(x, n) /\ x > 0}
    \cup {k \in {TruncDiv(x, n) + 1} : Unsure(x, n) /\ x < 0}
Floors(x, n) == {FloorDiv(x, n)} \cup {k \in {FloorDiv(x, n) - 1} : Unsure(x, n)}
Ceils(x, n)  == {CeilDiv(x, n)} \cup {k \in {CeilDiv(x, n) + 1} : Unsure(x, n)}

-----------------------------------------------------------------------------
(***************************************************************************)
(* A request is what a caller of zoom_continuous passes, in y: the mapping *)
(* (sn, sd, T), the y filter, the source and destination windows, the      *)
(* heights of the two pictures (UNDEF while the destination has none), is  *)
(* it the same picture, do the windows overlap in x, is the x filter point *)
(* sampling.  Of the filter matter twice its support (F, in source         *)
(* pixels), whether it is cardinal (zero at every whole number but zero),  *)
(* whether it has negative lobes, and zoom_coerce.  Of the x direction     *)
(* there is also what can become of its weight tables: the scan loop gets  *)
(* to its first line, or make_weighttab exits over a column.               *)
(***************************************************************************)
UNDEF == -239        \* PIXEL_UNDEFINED

Request ==
  [sn : Int, sd : Nat \ {0}, T : Int,
   F : Nat, cardinal : BOOLEAN, lobes : BOOLEAN, coerce : BOOLEAN,
   a0 : Int, a1 : Int, b0 : Int, b1 : Int, ah : Nat, bh : Nat \cup {UNDEF},
   same : BOOLEAN, xover : BOOLEAN, xpoint : BOOLEAN,
   xtables : (SUBSET {"line", "xnull", "xoverflow"}) \ {{}}]

(* The mapping zoom() sets up so that window a covers window b exactly.    *)
WindowMap(a0, a1, b0, b1) ==
  LET an == a1 - a0 + 1
      bn == b1 - b0 + 1
  IN  [sn |-> bn, sd |-> an, T |-> an * (2 * b0 - 1) - bn * (2 * a0 - 1)]

(* 2*sn*support: the filter spreads over 1/scale source lines when         *)
(* minifying, and never covers less than one line.                         *)
Spread(r) == Greatest(r.sn, r.F * Greatest(r.sn, r.sd))

(* Fault: one line buffer too few for a support that is not whole.         *)
WidthsRoundedDown(r) == Floors(Spread(r), r.sn)

(* ay.wid = ceil(2*supp): the number of line buffers.                      *)
Widths(r) == Ceils(Spread(r), r.sn)

(***************************************************************************)
(* The source window and the requested destination window, clipped against *)
(* their pictures; then the destination clipped to the lines that lie      *)
(* strictly within the support of the mapped source window (EPSILON makes  *)
(* the comparison strict).                                                 *)
(***************************************************************************)
SrcFirst(r) == Greatest(r.a0, 0)
SrcLast(r)  == Least(r.a1, r.ah - 1)

DstFirst(r) ==
  Greatest(IF r.bh = UNDEF THEN r.b0 ELSE Greatest(r.b0, 0),
           FloorDiv(2 * r.sn * SrcFirst(r) - Spread(r) + r.T, 2 * r.sd) + 1)

(* Fault: without EPSILON, a line exactly at the edge of the support.      *)
DstLastNotStrict(r) ==
  Least(IF r.bh = UNDEF THEN r.b1 ELSE Least(r.b1, r.bh - 1),
        FloorDiv(2 * r.sn * SrcLast(r) + Spread(r) + r.T, 2 * r.sd))

(* Fault: the last line is cut off when the support is not whole.          *)
DstLastRoundedDown(r) ==
  Least(IF r.bh = UNDEF THEN r.b1 ELSE Least(r.b1, r.bh - 1),
        FloorDiv(2 * r.sn * SrcLast(r) + Spread(r) + r.T, 2 * r.sd) - 1)

DstLast(r) ==
  Least(IF r.bh = UNDEF THEN r.b1 ELSE Least(r.b1, r.bh - 1),
        CeilDiv(2 * r.sn * SrcLast(r) + Spread(r) + r.T, 2 * r.sd) - 1)

(* Fault: the offset is computed before the source window is clipped.      *)
OffsetStale(r) == 2 * r.sd * DstFirst(r) - r.sn * (2 * r.a0 - 1) - r.T

(* m->uy * 2 * sd: the offset of MAP, relative to the clipped windows.     *)
Offset(r) == 2 * r.sd * DstFirst(r) - r.sn * (2 * SrcFirst(r) - 1) - r.T

(***************************************************************************)
(* simplify_filter for a filter without blur: the support is half a line,  *)
(* or the filter is cardinal, 1/ascale and 1/(scale*ascale) are integers   *)
(* (so the scale is 1) and the translation is a whole number of lines.     *)
(***************************************************************************)
Coerced(r) ==
  /\ r.coerce
  /\ \/ Spread(r) <= r.sn
     \/ /\ r.cardinal
        /\ r.sn = r.sd
        /\ (Offset(r) - r.sd) % (2 * r.sd) = 0

IsPoint(r) == r.F = 0 \/ Coerced(r)

-----------------------------------------------------------------------------
(***************************************************************************)
(* The geometry the scan loops work with, after clipping and after         *)
(* simplify_filter: source lines a0 .. a0+an-1, destination lines          *)
(* b0 .. b0+bn-1, wid line buffers; overlap is the code's test of the two  *)
(* windows, shared says that writing a destination line changes the source *)
(* line of the same number.                                                *)
(***************************************************************************)
GeometryType ==
  [sn : Nat \ {0}, sd : Nat \ {0}, T : Int, U : Int, P : Int,
   wid : Nat \ {0}, low : SUBSET Int,
   a0 : Nat, an : Nat \ {0}, b0 : Int, bn : Nat \ {0},
   cardinal : BOOLEAN, lobes : BOOLEAN, shared : BOOLEAN, overlap : BOOLEAN]

Geometry(r, wid, low) ==
  LET a0 == SrcFirst(r)
      an == SrcLast(r) - a0 + 1
      b0 == DstFirst(r)
      bn == DstLast(r) - b0 + 1
  IN  [sn |-> r.sn, sd |-> r.sd, T |-> r.T, U |-> Offset(r),
       P |-> IF Coerced(r) THEN r.sn ELSE Spread(r),
       wid |-> IF Coerced(r) THEN 1 ELSE wid, low |-> low,
       a0 |-> a0, an |-> an, b0 |-> b0, bn |-> bn,
       cardinal |-> r.cardinal /\ ~Coerced(r), lobes |-> r.lobes /\ ~Coerced(r),
       shared |-> r.same /\ r.xover,
       overlap |-> /\ r.same /\ r.xover
                   /\ a0 <= DstLast(r) /\ b0 <= SrcLast(r)]

(* zoom_continuous returns at once: a scale that is not positive, or an    *)
(* empty window after clipping.                                            *)
NothingToDo(r) ==
  \/ r.sn <= 0
  \/ SrcLast(r) < SrcFirst(r)
  \/ DstLast(r) < DstFirst(r)

(***************************************************************************)
(* MAP and the bounds of make_weighttab: the source lines [i0 .. i1-1],    *)
(* relative to a0, under the filter of destination line b0+b.  The code    *)
(* computes the lower end in two places from the same expression, so for   *)
(* every line it is rounded the same way in both: low is the set of lines  *)
(* where it is rounded down.  The two ends come from one center: unless    *)
(* the support itself is inexact (minifying), the upper end falls short    *)
(* only if the lower end does too.                                         *)
(***************************************************************************)
WindowLo(g, b) == 2 * g.sd * b + g.U - g.P + g.sn
WindowHi(g, b) == 2 * g.sd * b + g.U + g.P + g.sn

LoTruncs(g, b) ==
  LET lo == WindowLo(g, b)
  IN  {i \in Truncs(lo, 2 * g.sn) :
         lo > 0 => (b \in g.low <=> i < TruncDiv(lo, 2 * g.sn))}

HiTruncs(g, b) ==
  LET lo == WindowLo(g, b)
      hi == WindowHi(g, b)
  IN  {j \in Truncs(hi, 2 * g.sn) :
         j < TruncDiv(hi, 2 * g.sn) /\ lo > 0 /\ Unsure(lo, 2 * g.sn)
           => b \in g.low \/ g.sn < g.sd}

FullWindows(g, b) ==
  {[i0 |-> Greatest(i, 0), i1 |-> Least(j, g.an)] :
     i \in LoTruncs(g, b), j \in HiTruncs(g, b)}

(* The filter is zero on every source line of the window.                  *)
Weightless(g, b, w) ==
  /\ g.cardinal /\ w.i0 < w.i1
  /\ \A i \in w.i0 .. w.i1 - 1 :
       LET x == 2 * g.sn * i + g.sn - 2 * g.sd * b - g.U
       IN  x # 0 /\ x % (2 * Greatest(g.sn, g.sd)) = 0

(* Then the weights sum to zero, and the line in the middle gets them all; *)
(* unless roundoff leaves something to normalize.                          *)
Middle(w) == LET i == (w.i0 + w.i1) \div 2 IN [i0 |-> i, i1 |-> i + 1]

(* Fault: the window is not clipped at the last source line.               *)
SourceWindowsUnclipped(g, b) ==
  {[i0 |-> Greatest(i, 0), i1 |-> j] : i \in LoTruncs(g, b), j \in HiTruncs(g, b)}

SourceWindows(g, b) ==
  {w \in FullWindows(g, b) : Weightless(g, b, w) => Roundoff}
    \cup {Middle(w) : w \in {v \in FullWindows(g, b) : Weightless(g, b, v)}}

Trimmed(g) ==
  \E b \in 0 .. g.bn - 1 : \E w \in FullWindows(g, b) : Weightless(g, b, w)

(* The filter reaches beyond the source window: its weights are normalized *)
(* by a sum that negative lobes may leave small.                           *)
CutOff(g, b) == WindowLo(g, b) < 0 \/ WindowHi(g, b) >= 2 * g.sn * (g.an + 1)

(* The ways the lower ends of the lines can be rounded.                    *)
Roundings(g) ==
  SUBSET {b \in 0 .. g.bn - 1 : Unsure(WindowLo(g, b), 2 * g.sn) /\ WindowLo(g, b) > 0}

(***************************************************************************)
(* The x request x, taken as a request of its own dimension: its weight    *)
(* tables are all made before the first line, each as a line's is.  One    *)
(* with no source column under the filter ends the process, and so may one *)
(* of a filter with negative lobes that is cut off.                        *)
(***************************************************************************)
ColumnTables(g) ==
  LET Has(b)   == \E w \in FullWindows(g, b) : w.i0 < w.i1
      Lacks(b) == \E w \in FullWindows(g, b) : w.i0 >= w.i1
  IN  {o \in {"line"} : \A b \in 0 .. g.bn - 1 : Has(b)}
        \cup {o \in {"xnull"} : \E b \in 0 .. g.bn - 1 : Lacks(b)}
        \cup {o \in {"xoverflow"} : g.lobes /\ \E b \in 0 .. g.bn - 1 : CutOff(g, b)}

XTables(x) ==
  UNION {ColumnTables(Geometry(x, 1, low)) : low \in Roundings(Geometry(x, 1, {}))}

-----------------------------------------------------------------------------
(***************************************************************************)
(* make_map_table: the split point and the order of the destination lines. *)
(***************************************************************************)
TranslateSplit(g) == IF g.a0 < g.b0 THEN 0 ELSE g.bn

MagnifySplits(g) ==
  {k - g.b0 + 1 : k \in Floors(g.sd - g.T - g.P, 2 * (g.sn - g.sd))}

(* Fault: the ceiling alone, without making up for roundoff.               *)
MinifySplitsUnchecked(g) == {k - g.b0 : k \in Ceils(g.T + g.P, 2 * (g.sd - g.sn))}

(* The first source line needed for line split-1 must not be overwritten   *)
(* yet: the code repeats the truncation of make_weighttab to find out.     *)
MinifySplits(g) ==
  UNION {{IF g.a0 + i0 >= g.b0 + s THEN s - 1 ELSE s : i0 \in LoTruncs(g, s - 1)} :
           s \in {k - g.b0 : k \in Ceils(g.T + g.P, 2 * (g.sd - g.sn))}}

SplitPoints(g) ==
  {Greatest(0, Least(s, g.bn)) :
     s \in IF g.sn = g.sd THEN {TranslateSplit(g)}
           ELSE IF g.sn > g.sd THEN MagnifySplits(g) ELSE MinifySplits(g)}

(* Fault: magnifying and minifying are confused.                           *)
ScanOrderSwapped(g, split) ==
  [i \in 0 .. g.bn - 1 |->
     IF g.sn < g.sd
     THEN IF i < split THEN i ELSE g.bn - 1 - (i - split)
     ELSE IF i < split THEN split - 1 - i ELSE i]

(* Fault: the line at the split point is computed twice.                   *)
ScanOrderOffByOne(g, split) ==
  [i \in 0 .. g.bn - 1 |->
     IF g.sn >= g.sd
     THEN IF i < split THEN i ELSE g.bn - 1 - (i - split)
     ELSE IF i < split THEN split - i ELSE i]

(* Magnifying scans in toward the split, minifying scans out away from it. *)
ScanOrder(g, split) ==
  [i \in 0 .. g.bn - 1 |->
     IF g.sn >= g.sd
     THEN IF i < split THEN i ELSE g.bn - 1 - (i - split)
     ELSE IF i < split THEN split - 1 - i ELSE i]

(* Fault: the split order is used whether or not the windows overlap.      *)
ScanOrdersAlwaysSplit(g) == {ScanOrder(g, s) : s \in SplitPoints(g)}

ScanOrders(g) ==
  IF g.overlap
  THEN {ScanOrder(g, s) : s \in SplitPoints(g)}
  ELSE {[i \in 0 .. g.bn - 1 |-> i]}

(* A pure translation by more than the filter supports, whose clipped      *)
(* windows lie the other way round than the mapping moves: TranslateSplit  *)
(* looks at the windows, not at tran.                                      *)
MovedBackwards(g) ==
  g.sn = g.sd /\ IF g.a0 < g.b0 THEN g.T <= -g.P ELSE g.T > g.P
=============================================================================
