------------------------- MODULE ZoomGeometryProofs -------------------------
(***************************************************************************)
(* Facts about the geometry of a zoom that hold for every mapping, every   *)
(* filter support and every pair of windows.                               *)
(***************************************************************************)
EXTENDS ZoomScan, TLAPS

(* A quotient is an integer, and a dividend of at least the divisor has a  *)
(* quotient of at least one.                                               *)
LEMMA Quotient ==
  ASSUME NEW x \in Int, NEW n \in Int, n > 0
  PROVE  /\ FloorDiv(x, n) \in Int
         /\ CeilDiv(x, n) \in Int
         /\ TruncDiv(x, n) \in Int
         /\ x >= n => CeilDiv(x, n) >= 1
<1>1. x \div n \in Int /\ (-x) \div n \in Int
  OBVIOUS
<1>2. ASSUME x >= n PROVE (-x) \div n <= -1
  BY <1>2
<1> QED BY <1>1, <1>2 DEF FloorDiv, CeilDiv, TruncDiv

(* The hardware's truncations are integers.                                *)
LEMMA TruncsAreInts ==
  ASSUME NEW x \in Int, NEW n \in Int, n > 0
  PROVE  Truncs(x, n) \subseteq Int
<1>1. TruncDiv(x, n) \in Int
  BY Quotient
<1> QED BY <1>1 DEF Truncs

(* floor and ceil of a quotient are integers, rounded or not, and the      *)
(* ceiling of something that is at least 1 is at least 1.                  *)
LEMMA FloorsAndCeilsAreInts ==
  ASSUME NEW x \in Int, NEW n \in Int, n > 0
  PROVE  /\ Floors(x, n) \subseteq Int
         /\ Ceils(x, n) \subseteq Int
         /\ x >= n => \A k \in Ceils(x, n) : k >= 1
<1>1. FloorDiv(x, n) \in Int /\ CeilDiv(x, n) \in Int
  BY Quotient
<1>2. x >= n => CeilDiv(x, n) >= 1
  BY Quotient
<1> QED BY <1>1, <1>2 DEF Floors, Ceils

-----------------------------------------------------------------------------
(* Clipping computes with integers, whatever it leaves; the source window  *)
(* does not exceed its picture, nor the destination what was asked for.    *)
LEMMA ClippingTyped ==
  ASSUME NEW r \in Request
  PROVE  /\ SrcFirst(r) \in Nat /\ SrcLast(r) \in Int /\ SrcLast(r) < r.ah
         /\ Spread(r) \in Int /\ Spread(r) >= r.sn
         /\ DstFirst(r) \in Int /\ DstLast(r) \in Int
         /\ r.b0 <= DstFirst(r) /\ DstLast(r) <= r.b1
<1>1. /\ r.sn \in Int /\ r.sd \in Nat \ {0} /\ r.T \in Int /\ r.F \in Nat
      /\ r.a0 \in Int /\ r.a1 \in Int /\ r.b0 \in Int /\ r.b1 \in Int
      /\ r.ah \in Nat /\ r.bh \in Int
  BY DEF Request, UNDEF
<1>2. /\ SrcFirst(r) \in Nat /\ SrcLast(r) \in Int
      /\ SrcLast(r) < r.ah
  BY <1>1 DEF SrcFirst, SrcLast, Greatest, Least
<1>3. Spread(r) \in Int /\ Spread(r) >= r.sn
  <2>1. Greatest(r.sn, r.sd) \in Int
    BY <1>1 DEF Greatest
  <2>2. r.F * Greatest(r.sn, r.sd) \in Int
    BY <1>1, <2>1
  <2> QED BY <1>1, <2>2 DEF Spread, Greatest
<1>4. 2 * r.sn * SrcFirst(r) \in Int /\ 2 * r.sn * SrcLast(r) \in Int
  BY <1>1, <1>2
<1>5. /\ DstFirst(r) \in Int /\ DstLast(r) \in Int
      /\ r.b0 <= DstFirst(r) /\ DstLast(r) <= r.b1
  <2> DEFINE x == 2 * r.sn * SrcFirst(r) - Spread(r) + r.T
             y == 2 * r.sn * SrcLast(r) + Spread(r) + r.T
  <2>1. x \in Int /\ y \in Int
    BY <1>1, <1>3, <1>4
  <2>2. 2 * r.sd \in Int /\ 2 * r.sd > 0
    BY <1>1
  <2>3. FloorDiv(x, 2 * r.sd) \in Int /\ CeilDiv(y, 2 * r.sd) \in Int
    <3> HIDE DEF x, y
    <3> QED BY <2>1, <2>2, Quotient
  <2> QED BY <1>1, <2>3 DEF DstFirst, DstLast, Greatest, Least
<1> QED BY <1>2, <1>3, <1>5

(* What clipping leaves: windows of at least one line, the source window   *)
(* within its picture.                                                     *)
LEMMA Clipping ==
  ASSUME NEW r \in Request, ~NothingToDo(r)
  PROVE  /\ r.sn \in Nat \ {0}
         /\ SrcFirst(r) \in Nat /\ SrcLast(r) \in Int
         /\ SrcFirst(r) <= SrcLast(r) /\ SrcLast(r) < r.ah
         /\ Spread(r) \in Int /\ Spread(r) >= r.sn
         /\ DstFirst(r) \in Int /\ DstLast(r) \in Int
         /\ DstFirst(r) <= DstLast(r)
         /\ Offset(r) \in Int
<1>1. r.sn \in Int /\ r.sd \in Nat \ {0} /\ r.T \in Int
  BY DEF Request
<1>2. /\ SrcFirst(r) \in Nat /\ SrcLast(r) \in Int /\ SrcLast(r) < r.ah
      /\ Spread(r) \in Int /\ Spread(r) >= r.sn
      /\ DstFirst(r) \in Int /\ DstLast(r) \in Int
  BY ClippingTyped
<1>3. Offset(r) \in Int
  <2>1. 2 * r.sd * DstFirst(r) \in Int /\ r.sn * (2 * SrcFirst(r) - 1) \in Int
    BY <1>1, <1>2
  <2> QED BY <1>1, <2>1 DEF Offset
<1>4. /\ r.sn \in Nat \ {0}
      /\ SrcFirst(r) <= SrcLast(r)
      /\ DstFirst(r) <= DstLast(r)
  BY <1>1, <1>2 DEF NothingToDo
<1> QED BY <1>2, <1>3, <1>4

(* There is at least one line buffer.                                      *)
LEMMA WidthsPositive ==
  ASSUME NEW r \in Request, ~NothingToDo(r)
  PROVE  Widths(r) \subseteq Nat \ {0}
<1>1. r.sn \in Int /\ r.sn > 0 /\ Spread(r) \in Int /\ Spread(r) >= r.sn
  BY Clipping
<1>2. /\ Ceils(Spread(r), r.sn) \subseteq Int
      /\ \A k \in Ceils(Spread(r), r.sn) : k >= 1
  BY <1>1, FloorsAndCeilsAreInts
<1> QED BY <1>2 DEF Widths

(* The geometry of every zoom with something to do is well formed, and its *)
(* source window lies within the source picture.                           *)
LEMMA GeometryTyped ==
  ASSUME NEW r \in Request, ~NothingToDo(r),
         NEW wid \in Nat \ {0}, NEW low \in SUBSET Int
  PROVE  LET g == Geometry(r, wid, low)
         IN  /\ g \in GeometryType
             /\ g.a0 + g.an <= r.ah
             /\ g.overlap <=> /\ g.shared
                              /\ g.a0 <= g.b0 + g.bn - 1
                              /\ g.b0 <= g.a0 + g.an - 1
<1>1. /\ r.sd \in Nat \ {0} /\ r.T \in Int /\ r.ah \in Nat
      /\ r.same \in BOOLEAN /\ r.xover \in BOOLEAN
  BY DEF Request
<1>2. /\ r.sn \in Nat \ {0}
      /\ SrcFirst(r) \in Nat /\ SrcLast(r) \in Int
      /\ SrcFirst(r) <= SrcLast(r) /\ SrcLast(r) < r.ah
      /\ Spread(r) \in Int
      /\ DstFirst(r) \in Int /\ DstLast(r) \in Int
      /\ DstFirst(r) <= DstLast(r)
      /\ Offset(r) \in Int
  BY Clipping
<1> DEFINE g == Geometry(r, wid, low)
<1>3. /\ g.shared = (r.same /\ r.xover)
      /\ g.overlap = (r.same /\ r.xover /\ SrcFirst(r) <= DstLast(r) /\ DstFirst(r) <= SrcLast(r))
      /\ g.a0 = SrcFirst(r) /\ g.b0 = DstFirst(r)
      /\ g.an = SrcLast(r) - SrcFirst(r) + 1
      /\ g.bn = DstLast(r) - DstFirst(r) + 1
  BY DEF Geometry
<1>4. g \in GeometryType
  BY <1>1, <1>2 DEF Geometry, GeometryType
<1>5. g.a0 + g.an <= r.ah
  BY <1>1, <1>2, <1>3
<1>6. g.b0 + g.bn - 1 = DstLast(r) /\ g.a0 + g.an - 1 = SrcLast(r)
  BY <1>2, <1>3
<1>7. g.overlap <=> /\ g.shared
                    /\ g.a0 <= g.b0 + g.bn - 1
                    /\ g.b0 <= g.a0 + g.an - 1
  BY <1>3, <1>6
<1> QED BY <1>4, <1>5, <1>7

-----------------------------------------------------------------------------
(* The window of make_weighttab stays within the source window.            *)
LEMMA WindowsInside ==
  ASSUME NEW g \in GeometryType, NEW b \in Int, NEW w \in SourceWindows(g, b)
  PROVE  w.i0 \in Nat /\ w.i1 \in Int /\ w.i1 <= g.an
<1>1. /\ g.sn \in Nat \ {0} /\ g.sd \in Nat \ {0} /\ g.U \in Int /\ g.P \in Int
      /\ g.an \in Nat
  BY DEF GeometryType
<1>2. WindowLo(g, b) \in Int /\ WindowHi(g, b) \in Int
  <2>1. 2 * g.sd * b \in Int
    BY <1>1
  <2> QED BY <1>1, <2>1 DEF WindowLo, WindowHi
<1>3. /\ Truncs(WindowLo(g, b), 2 * g.sn) \subseteq Int
      /\ Truncs(WindowHi(g, b), 2 * g.sn) \subseteq Int
  <2>1. 2 * g.sn \in Int /\ 2 * g.sn > 0
    BY <1>1
  <2> QED BY <1>2, <2>1, TruncsAreInts
<1>4. LoTruncs(g, b) \subseteq Int /\ HiTruncs(g, b) \subseteq Int
  BY <1>3 DEF LoTruncs, HiTruncs
<1>5. ASSUME NEW v \in FullWindows(g, b)
      PROVE  v.i0 \in Nat /\ v.i1 \in Int /\ v.i1 <= g.an
  <2>1. PICK i \in LoTruncs(g, b), j \in HiTruncs(g, b) :
          v = [i0 |-> Greatest(i, 0), i1 |-> Least(j, g.an)]
    BY DEF FullWindows
  <2>2. i \in Int /\ j \in Int
    BY <1>4
  <2> QED BY <1>1, <2>1, <2>2 DEF Greatest, Least
<1>6. ASSUME NEW v \in FullWindows(g, b), Weightless(g, b, v), w = Middle(v)
      PROVE  w.i0 \in Nat /\ w.i1 \in Int /\ w.i1 <= g.an
  <2>1. v.i0 \in Nat /\ v.i1 \in Int /\ v.i1 <= g.an /\ v.i0 < v.i1
    BY <1>5, <1>6 DEF Weightless
  <2>2. (v.i0 + v.i1) \div 2 \in Nat /\ (v.i0 + v.i1) \div 2 < v.i1
    BY <2>1
  <2> QED BY <1>1, <1>6, <2>1, <2>2 DEF Middle
<1> QED BY <1>5, <1>6 DEF SourceWindows

(* The split point is a number of destination lines.                       *)
LEMMA SplitsInside ==
  ASSUME NEW g \in GeometryType
  PROVE  SplitPoints(g) \subseteq 0 .. g.bn
<1>1. /\ g.sn \in Nat \ {0} /\ g.sd \in Nat \ {0} /\ g.T \in Int /\ g.U \in Int
      /\ g.P \in Int /\ g.b0 \in Int /\ g.bn \in Nat
  BY DEF GeometryType
<1>2. TranslateSplit(g) \in Int
  BY <1>1 DEF TranslateSplit
<1>3. ASSUME g.sn > g.sd PROVE MagnifySplits(g) \subseteq Int
  <2> DEFINE x == g.sd - g.T - g.P
             n == 2 * (g.sn - g.sd)
  <2>1. x \in Int /\ n \in Int /\ n > 0
    BY <1>1, <1>3
  <2>2. Floors(x, n) \subseteq Int
    <3> HIDE DEF x, n
    <3> QED BY <2>1, FloorsAndCeilsAreInts
  <2> QED BY <1>1, <2>2 DEF MagnifySplits
<1>4. ASSUME g.sn < g.sd PROVE MinifySplits(g) \subseteq Int
  <2> DEFINE x == g.T + g.P
             n == 2 * (g.sd - g.sn)
  <2>1. x \in Int /\ n \in Int /\ n > 0
    BY <1>1, <1>4
  <2>2. Ceils(x, n) \subseteq Int
    <3> HIDE DEF x, n
    <3> QED BY <2>1, FloorsAndCeilsAreInts
  <2> QED BY <1>1, <2>2 DEF MinifySplits
<1>5. ASSUME NEW s \in Int PROVE Greatest(0, Least(s, g.bn)) \in 0 .. g.bn
  BY <1>1 DEF Greatest, Least
<1>6. CASE g.sn = g.sd
  BY <1>2, <1>5, <1>6 DEF SplitPoints
<1>7. CASE g.sn > g.sd
  <2>1. SplitPoints(g) = {Greatest(0, Least(s, g.bn)) : s \in MagnifySplits(g)}
    BY <1>1, <1>7 DEF SplitPoints
  <2> QED BY <1>3, <1>5, <1>7, <2>1
<1>8. CASE g.sn < g.sd
  <2>1. SplitPoints(g) = {Greatest(0, Least(s, g.bn)) : s \in MinifySplits(g)}
    BY <1>1, <1>8 DEF SplitPoints
  <2> QED BY <1>4, <1>5, <1>8, <2>1
<1> QED BY <1>1, <1>6, <1>7, <1>8

(* Wherever the split point is, the scan order is a permutation of the     *)
(* destination lines.                                                      *)
LEMMA OrdersPermute ==
  ASSUME NEW g \in GeometryType, NEW m \in ScanOrders(g)
  PROVE  /\ m \in [0 .. g.bn - 1 -> 0 .. g.bn - 1]
         /\ \A i, j \in 0 .. g.bn - 1 : m[i] = m[j] => i = j
         /\ ~g.overlap => \A i \in 0 .. g.bn - 1 : m[i] = i
<1>1. g.sn \in Nat /\ g.sd \in Nat /\ g.bn \in Nat /\ g.overlap \in BOOLEAN
  BY DEF GeometryType
<1>2. CASE g.overlap
  <2>1. PICK split \in 0 .. g.bn : m = ScanOrder(g, split)
    BY <1>2, SplitsInside DEF ScanOrders
  <2>2. \A i \in 0 .. g.bn - 1 :
          m[i] = IF g.sn >= g.sd
                 THEN IF i < split THEN i ELSE g.bn - 1 - (i - split)
                 ELSE IF i < split THEN split - 1 - i ELSE i
    BY <2>1 DEF ScanOrder
  <2>3. \A i \in 0 .. g.bn - 1 : m[i] \in 0 .. g.bn - 1
    BY <1>1, <2>2
  <2>4. m \in [0 .. g.bn - 1 -> 0 .. g.bn - 1]
    BY <2>1, <2>3 DEF ScanOrder
  <2>5. \A i, j \in 0 .. g.bn - 1 : m[i] = m[j] => i = j
    BY <1>1, <2>2
  <2> QED BY <1>2, <2>4, <2>5
<1>3. CASE ~g.overlap
  <2>1. m = [i \in 0 .. g.bn - 1 |-> i]
    BY <1>3 DEF ScanOrders
  <2> QED BY <1>1, <2>1
<1> QED BY <1>1, <1>2, <1>3

-----------------------------------------------------------------------------
(***************************************************************************)
(* The rest holds in exact arithmetic: the code's truncated expressions    *)
(* are compared with the real numbers they stand for, in coordinates of    *)
(* the two pictures.                                                       *)
(***************************************************************************)

(* Division rounds down.                                                   *)
LEMMA DivBounds ==
  ASSUME NEW x \in Int, NEW n \in Int, n > 0
  PROVE  x \div n \in Int /\ n * (x \div n) <= x /\ x < n * (x \div n) + n
OBVIOUS

(* Multiplication by a positive number keeps the order of integers.        *)
LEMMA Scaled ==
  ASSUME NEW c \in Int, c > 0, NEW x \in Int, NEW y \in Int
  PROVE  /\ x <= y <=> c * x <= c * y
         /\ x < y <=> c * x < c * y
         /\ x < y => c * x + c <= c * y
<1>1. ASSUME x <= y PROVE c * x <= c * y
  BY <1>1
<1>2. ASSUME x < y PROVE c * x + c <= c * y
  <2>1. x + 1 <= y
    BY <1>2
  <2>2. c * (x + 1) <= c * y
    BY <2>1
  <2> QED BY <2>2
<1>3. ASSUME y < x PROVE c * y + c <= c * x
  <2>1. y + 1 <= x
    BY <1>3
  <2>2. c * (y + 1) <= c * x
    BY <2>1
  <2> QED BY <2>2
<1> QED BY <1>1, <1>2, <1>3

(* The same for a division that rounds up.                                 *)
LEMMA CeilBounds ==
  ASSUME NEW x \in Int, NEW n \in Int, n > 0
  PROVE  /\ CeilDiv(x, n) \in Int
         /\ x <= n * CeilDiv(x, n) /\ n * CeilDiv(x, n) < x + n
<1>1. (-x) \div n \in Int /\ n * ((-x) \div n) <= -x /\ -x < n * ((-x) \div n) + n
  BY DivBounds
<1>2. n * (-((-x) \div n)) = -(n * ((-x) \div n))
  BY <1>1
<1> QED BY <1>1, <1>2 DEF CeilDiv

(* Truncation compares with a positive number as the quotient does.        *)
LEMMA TruncIsBelow ==
  ASSUME NEW x \in Int, NEW n \in Int, n > 0, NEW k \in Nat
  PROVE  k + 1 <= TruncDiv(x, n) <=> n * (k + 1) <= x
<1>1. CASE x >= 0
  <2> DEFINE t == x \div n
  <2>1. t \in Int /\ n * t <= x /\ x < n * t + n
    BY DivBounds
  <2>2. TruncDiv(x, n) = t
    BY <1>1 DEF TruncDiv, FloorDiv
  <2> HIDE DEF t
  <2>3. k + 1 <= t => n * (k + 1) <= n * t
    BY <2>1, Scaled
  <2>4. t < k + 1 => n * t + n <= n * (k + 1)
    BY <2>1, Scaled
  <2>5. n * (k + 1) \in Int /\ n * t \in Int
    BY <2>1
  <2> QED BY <2>1, <2>2, <2>3, <2>4, <2>5
<1>2. CASE x < 0
  <2> DEFINE t == CeilDiv(x, n)
  <2>1. t \in Int /\ n * t < x + n
    BY CeilBounds
  <2>2. TruncDiv(x, n) = t
    BY <1>2 DEF TruncDiv
  <2> HIDE DEF t
  <2>3. t <= 0
    <3> SUFFICES ASSUME 0 < t PROVE FALSE
      BY <2>1
    <3>1. n * 0 + n <= n * t
      BY <2>1, Scaled
    <3> QED BY <1>2, <2>1, <3>1
  <2>4. n * 0 + n <= n * (k + 1)
    BY Scaled
  <2>5. n * (k + 1) \in Int
    OBVIOUS
  <2> QED BY <1>2, <2>1, <2>2, <2>3, <2>4, <2>5
<1> QED BY <1>1, <1>2


(* A remainder of zero means a multiple.                                   *)
LEMMA Divisible ==
  ASSUME NEW x \in Int, NEW n \in Int, n > 0
  PROVE  x % n = 0 <=> \E p \in Int : x = n * p
<1>1. x \div n \in Int /\ x % n = x - n * (x \div n)
  OBVIOUS
<1>2. ASSUME x % n = 0 PROVE x = n * (x \div n)
  <2> DEFINE q == n * (x \div n)
  <2>1. q \in Int
    BY <1>1
  <2>2. x % n = x - q
    BY <1>1
  <2> HIDE DEF q
  <2>3. x = q
    BY <1>2, <2>1, <2>2
  <2> QED BY <2>3 DEF q
<1>3. ASSUME NEW p \in Int, x = n * p PROVE x % n = 0
  <2> DEFINE q == x \div n
  <2>1. q \in Int /\ n * q <= x /\ x < n * q + n
    BY DivBounds
  <2>2. x % n = x - n * q
    BY <1>1
  <2> HIDE DEF q
  <2>3. q = p
    <3>1. /\ q < p => n * q + n <= n * p
          /\ p < q => n * p + n <= n * q
      BY <2>1, Scaled
    <3>2. n * q \in Int /\ n * p \in Int
      BY <2>1
    <3> QED BY <1>3, <2>1, <3>1, <3>2
  <2>4. n * q \in Int
    BY <2>1
  <2> QED BY <1>3, <2>2, <2>3, <2>4
<1> QED BY <1>1, <1>2, <1>3

(* A truncation that roundoff moved compares with a positive number as the *)
(* quotient does, unless that number is the quotient.                      *)
LEMMA RoundedTrunc ==
  ASSUME NEW x \in Int, NEW n \in Int, n > 0, NEW i \in Truncs(x, n), NEW k \in Nat
  PROVE  /\ i \in Int
         /\ k + 1 <= i => n * (k + 1) <= x
         /\ n * (k + 1) < x => k + 1 <= i
<1> DEFINE t == TruncDiv(x, n)
<1>1. t \in Int
  BY Quotient
<1>2. k + 1 <= t <=> n * (k + 1) <= x
  BY TruncIsBelow
<1>3. n * (k + 1) \in Int
  OBVIOUS
<1>4. \/ i = t
      \/ i = t - 1 /\ x % n = 0 /\ x > 0
      \/ i = t + 1 /\ x % n = 0 /\ x < 0
  BY DEF Truncs, Unsure
<1>5. x % n = 0 => \E p \in Int : x = n * p
  BY Divisible
<1>6. CASE i = t
  <2> HIDE DEF t
  <2> QED BY <1>1, <1>2, <1>3, <1>6
<1>7. CASE i = t - 1 /\ x % n = 0
  <2>1. PICK p \in Int : x = n * p
    BY <1>5, <1>7
  <2>2. n * (k + 1) < x => n * (k + 2) <= x
    <3>1. n * (k + 1) < n * p => k + 1 < p
      BY Scaled
    <3>2. k + 2 <= p => n * (k + 2) <= n * p
      BY Scaled
    <3> QED BY <2>1, <3>1, <3>2
  <2>3. (k + 1) + 1 <= t <=> n * ((k + 1) + 1) <= x
    BY TruncIsBelow
  <2>4. k + 2 <= t <=> n * (k + 2) <= x
    BY <2>3
  <2> HIDE DEF t
  <2> QED BY <1>1, <1>2, <1>3, <1>7, <2>2, <2>4
<1>8. CASE i = t + 1 /\ x % n = 0 /\ x < 0
  <2>1. PICK p \in Int : x = n * p
    BY <1>5, <1>8
  <2>2. p < 0
    <3>1. 0 <= p => n * 0 <= n * p
      BY Scaled
    <3> QED BY <1>8, <2>1, <3>1
  <2>3. t = CeilDiv(x, n) /\ n * t < x + n
    BY <1>8, CeilBounds DEF TruncDiv
  <2>4. t <= p
    <3>1. p < t => n * p + n <= n * t
      BY <1>1, Scaled
    <3>2. n * p \in Int /\ n * t \in Int
      BY <1>1
    <3> HIDE DEF t
    <3> QED BY <1>1, <2>1, <2>3, <3>1, <3>2
  <2>5. 0 < n * (k + 1)
    <3>1. n * 0 + n <= n * (k + 1)
      BY Scaled
    <3> QED BY <1>3, <3>1
  <2> HIDE DEF t
  <2> QED BY <1>1, <1>3, <1>8, <2>2, <2>4, <2>5
<1> QED BY <1>4, <1>6, <1>7, <1>8

(* floor and ceil that roundoff moved are still next to the quotient.      *)
LEMMA RoundedQuotients ==
  ASSUME NEW x \in Int, NEW n \in Int, n > 0
  PROVE  /\ \A k \in Floors(x, n) : k \in Int /\ n * k <= x /\ x <= n * k + n
         /\ \A k \in Ceils(x, n) : k \in Int /\ x <= n * k /\ n * k <= x + n
<1>1. x % n = 0 => \E p \in Int : x = n * p
  BY Divisible
<1>2. ASSUME NEW k \in Floors(x, n) PROVE k \in Int /\ n * k <= x /\ x <= n * k + n
  <2> DEFINE q == x \div n
  <2>1. q \in Int /\ n * q <= x /\ x < n * q + n
    BY DivBounds
  <2>2. k = q \/ (k = q - 1 /\ x % n = 0)
    BY DEF Floors, FloorDiv, Unsure
  <2> HIDE DEF q
  <2>3. CASE k = q
    <3>1. n * q \in Int
      BY <2>1
    <3> QED BY <2>1, <2>3, <3>1
  <2>4. CASE k = q - 1 /\ x % n = 0
    <3>1. PICK p \in Int : x = n * p
      BY <1>1, <2>4
    <3>2. q = p
      <4>1. /\ q < p => n * q + n <= n * p
            /\ p < q => n * p + n <= n * q
        BY <2>1, Scaled
      <4>2. n * q \in Int /\ n * p \in Int
        BY <2>1
      <4> QED BY <2>1, <3>1, <4>1, <4>2
    <3>3. n * (q - 1) = n * q - n /\ n * q \in Int
      BY <2>1
    <3> QED BY <2>1, <2>4, <3>1, <3>2, <3>3
  <2> QED BY <2>2, <2>3, <2>4
<1>3. ASSUME NEW k \in Ceils(x, n) PROVE k \in Int /\ x <= n * k /\ n * k <= x + n
  <2> DEFINE q == CeilDiv(x, n)
  <2>1. q \in Int /\ x <= n * q /\ n * q < x + n
    BY CeilBounds
  <2>2. k = q \/ (k = q + 1 /\ x % n = 0)
    BY DEF Ceils, Unsure
  <2> HIDE DEF q
  <2>3. CASE k = q
    <3>1. n * q \in Int
      BY <2>1
    <3> QED BY <2>1, <2>3, <3>1
  <2>4. CASE k = q + 1 /\ x % n = 0
    <3>1. PICK p \in Int : x = n * p
      BY <1>1, <2>4
    <3>2. q = p
      <4>1. /\ q < p => n * q + n <= n * p
            /\ p < q => n * p + n <= n * q
        BY <2>1, Scaled
      <4>2. n * q \in Int /\ n * p \in Int
        BY <2>1
      <4> QED BY <2>1, <3>1, <4>1, <4>2
    <3>3. n * (q + 1) = n * q + n /\ n * q \in Int
      BY <2>1
    <3> QED BY <2>1, <2>4, <3>1, <3>2, <3>3
  <2> QED BY <2>2, <2>3, <2>4
<1> QED BY <1>2, <1>3

-----------------------------------------------------------------------------
(* A geometry as zoom_continuous makes it.  A picture is not moved down by *)
(* the whole support of the filter if the clipped windows lie the other    *)
(* way round.                                                              *)
Aligned(g) ==
  /\ g \in GeometryType
  /\ g.U = 2 * g.sd * g.b0 - g.sn * (2 * g.a0 - 1) - g.T
  /\ g.sn <= g.P /\ g.P <= g.sn * g.wid
  /\ g.sn = g.sd /\ g.b0 <= g.a0 => g.T # g.P

(* Line K of the source picture is under the filter of line y of the       *)
(* destination picture.                                                    *)
Near(g, K, y) ==
  /\ 2 * g.sd * y - g.T - g.P < 2 * g.sn * K
  /\ 2 * g.sn * K <= 2 * g.sd * y - g.T + g.P

(* The distance of a source line from the center of the filter, in units   *)
(* of 1/(2*sn) source lines.                                               *)
Distance(g, K, y) == 2 * g.sn * K - 2 * g.sd * y + g.T

(* The types of what a geometry consists of.                               *)
LEMMA AlignedTypes ==
  ASSUME NEW g, Aligned(g)
  PROVE  /\ g.sn \in Int /\ g.sn > 0 /\ g.sd \in Int /\ g.sd > 0
         /\ g.T \in Int /\ g.U \in Int /\ g.P \in Int /\ g.P > 0
         /\ g.a0 \in Nat /\ g.an \in Nat /\ g.an > 0
         /\ g.b0 \in Int /\ g.bn \in Nat /\ g.bn > 0
         /\ g.wid \in Int /\ g.wid > 0
         /\ g.overlap \in BOOLEAN
BY DEF Aligned, GeometryType

(* Exact arithmetic leaves a truncation no choice.                         *)
LEMMA ExactTruncs ==
  ASSUME ~Roundoff, NEW x \in Int, NEW n \in Int, n > 0
  PROVE  /\ Truncs(x, n) = {TruncDiv(x, n)}
         /\ Floors(x, n) = {FloorDiv(x, n)}
         /\ Ceils(x, n) = {CeilDiv(x, n)}
         /\ ~Unsure(x, n)
BY DEF Truncs, Floors, Ceils, Unsure

(* The distance in the coordinates of the clipped windows; a line is near  *)
(* if it is within the support.                                            *)
LEMMA DistanceExact ==
  ASSUME NEW g, Aligned(g), NEW k \in Int, NEW b \in Int
  PROVE  /\ Distance(g, g.a0 + k, g.b0 + b) \in Int
         /\ Distance(g, g.a0 + k, g.b0 + b) = 2 * g.sn * k + g.sn - 2 * g.sd * b - g.U
         /\ Near(g, g.a0 + k, g.b0 + b) <=>
               /\ -g.P < Distance(g, g.a0 + k, g.b0 + b)
               /\ Distance(g, g.a0 + k, g.b0 + b) <= g.P
<1>1. /\ g.sn \in Int /\ g.sd \in Int /\ g.T \in Int /\ g.U \in Int /\ g.P \in Int
      /\ g.a0 \in Int /\ g.b0 \in Int
  BY AlignedTypes
<1>2. g.U = 2 * g.sd * g.b0 - g.sn * (2 * g.a0 - 1) - g.T
  BY DEF Aligned
<1> DEFINE p == 2 * g.sn * (g.a0 + k)  q == 2 * g.sd * (g.b0 + b)
<1>3. p \in Int /\ q \in Int
  BY <1>1
<1>4. Distance(g, g.a0 + k, g.b0 + b) = p - q + g.T
  BY DEF Distance
<1>5. p - q + g.T = 2 * g.sn * k + g.sn - 2 * g.sd * b - g.U
  BY <1>1, <1>2
<1>6. Near(g, g.a0 + k, g.b0 + b) <=> q - g.T - g.P < p /\ p <= q - g.T + g.P
  BY DEF Near
<1> HIDE DEF p, q
<1> QED BY <1>1, <1>3, <1>4, <1>5, <1>6

(* However the truncations are rounded, make_weighttab takes every line    *)
(* strictly under the filter and none beyond its edge.                     *)
LEMMA RoundedWindow ==
  ASSUME NEW g, Aligned(g), NEW b \in Int, NEW w \in FullWindows(g, b)
  PROVE  /\ w.i0 \in Nat /\ w.i1 \in Int /\ w.i1 <= g.an
         /\ \A k \in 0 .. g.an - 1 :
              /\ Distance(g, g.a0 + k, g.b0 + b) \in Int
              /\ w.i0 <= k => -g.P <= Distance(g, g.a0 + k, g.b0 + b)
              /\ -g.P < Distance(g, g.a0 + k, g.b0 + b) => w.i0 <= k
              /\ k < w.i1 => Distance(g, g.a0 + k, g.b0 + b) <= g.P
              /\ Distance(g, g.a0 + k, g.b0 + b) < g.P => k < w.i1
<1> DEFINE lo == WindowLo(g, b)  hi == WindowHi(g, b)  n == 2 * g.sn
<1>1. /\ g.sn \in Int /\ g.sn > 0 /\ g.sd \in Int /\ g.U \in Int /\ g.P \in Int
      /\ g.an \in Nat /\ n \in Int /\ n > 0
  BY AlignedTypes
<1>2. lo \in Int /\ hi \in Int
  BY <1>1 DEF WindowLo, WindowHi
<1>3. PICK i \in Truncs(lo, n), j \in Truncs(hi, n) :
        w = [i0 |-> Greatest(i, 0), i1 |-> Least(j, g.an)]
  BY DEF FullWindows, LoTruncs, HiTruncs
<1>4. /\ i \in Int /\ j \in Int
      /\ \A k \in Nat : /\ k + 1 <= i => n * (k + 1) <= lo
                        /\ n * (k + 1) < lo => k + 1 <= i
                        /\ k + 1 <= j => n * (k + 1) <= hi
                        /\ n * (k + 1) < hi => k + 1 <= j
  <2> HIDE DEF lo, hi, n
  <2>1. i \in Int /\ j \in Int
    BY <1>1, <1>2, <1>3, TruncsAreInts
  <2> QED BY <1>1, <1>2, <1>3, <2>1, RoundedTrunc
<1>5. ASSUME NEW k \in 0 .. g.an - 1
      PROVE  LET d == Distance(g, g.a0 + k, g.b0 + b)
             IN  /\ d \in Int /\ n * (k + 1) \in Int
                 /\ d + g.P = n * (k + 1) - lo
                 /\ g.P - d = hi - n * (k + 1)
  <2> DEFINE d == Distance(g, g.a0 + k, g.b0 + b)   p == g.sn * k   q == 2 * g.sd * b
  <2>1. k \in Int /\ d \in Int /\ d = 2 * g.sn * k + g.sn - 2 * g.sd * b - g.U
    <3>1. k \in Int
      OBVIOUS
    <3> QED BY <3>1, DistanceExact
  <2>2. p \in Int /\ q \in Int /\ 2 * g.sn * k = 2 * p
    BY <1>1, <2>1
  <2>3. d = 2 * p + g.sn - q - g.U
    BY <2>1, <2>2
  <2>4. lo = q + g.U - g.P + g.sn /\ hi = q + g.U + g.P + g.sn
    BY DEF WindowLo, WindowHi
  <2>5. n * (k + 1) = 2 * p + 2 * g.sn
    <3>1. n * (k + 1) = 2 * (g.sn * (k + 1)) /\ g.sn * (k + 1) = g.sn * k + g.sn
      BY <1>1, <2>1
    <3> QED BY <1>1, <2>2, <3>1
  <2> HIDE DEF d, p, q, lo, hi, n
  <2>6. n * (k + 1) \in Int
    BY <1>1, <2>2, <2>5
  <2>7. d + g.P = n * (k + 1) - lo /\ g.P - d = hi - n * (k + 1)
    BY <1>1, <2>2, <2>3, <2>4, <2>5
  <2> QED BY <2>1, <2>6, <2>7 DEF d
<1>6. w.i0 = Greatest(i, 0) /\ w.i1 = Least(j, g.an)
  BY <1>3
<1> HIDE DEF lo, hi, n
<1>7. w.i0 \in Nat /\ w.i1 \in Int /\ w.i1 <= g.an
  BY <1>1, <1>4, <1>6 DEF Greatest, Least
<1>8. ASSUME NEW k \in 0 .. g.an - 1
      PROVE  /\ Distance(g, g.a0 + k, g.b0 + b) \in Int
             /\ w.i0 <= k => -g.P <= Distance(g, g.a0 + k, g.b0 + b)
             /\ -g.P < Distance(g, g.a0 + k, g.b0 + b) => w.i0 <= k
             /\ k < w.i1 => Distance(g, g.a0 + k, g.b0 + b) <= g.P
             /\ Distance(g, g.a0 + k, g.b0 + b) < g.P => k < w.i1
  <2> DEFINE d == Distance(g, g.a0 + k, g.b0 + b)   x == n * (k + 1)
  <2>1. d \in Int /\ x \in Int /\ d + g.P = x - lo /\ g.P - d = hi - x
    BY <1>5
  <2>2. k \in Nat /\ k <= g.an - 1
    BY <1>1
  <2>3. /\ k + 1 <= i => x <= lo
        /\ x < lo => k + 1 <= i
        /\ k + 1 <= j => x <= hi
        /\ x < hi => k + 1 <= j
    BY <1>4, <2>2
  <2>4. (w.i0 <= k <=> ~(k + 1 <= i)) /\ (k < w.i1 <=> k + 1 <= j)
    BY <1>1, <1>4, <1>6, <2>2 DEF Greatest, Least
  <2> HIDE DEF d, x
  <2>5. /\ w.i0 <= k => -g.P <= d
        /\ -g.P < d => w.i0 <= k
        /\ k < w.i1 => d <= g.P
        /\ d < g.P => k < w.i1
    BY <1>1, <1>2, <2>1, <2>3, <2>4
  <2> QED BY <2>1, <2>5 DEF d
<1> QED BY <1>7, <1>8

(* make_map_table, which repeats the truncation of the lower end, finds    *)
(* the same first line of a window as make_weighttab.                      *)
LEMMA LowEndsAgree ==
  ASSUME NEW g, Aligned(g), NEW b \in Int, NEW i \in LoTruncs(g, b), NEW w \in FullWindows(g, b)
  PROVE  i \in Int /\ w.i0 = Greatest(i, 0)
<1> DEFINE lo == WindowLo(g, b)   n == 2 * g.sn   t == TruncDiv(lo, n)
<1>1. n \in Int /\ n > 0 /\ lo \in Int
  BY AlignedTypes DEF WindowLo
<1>2. PICK j \in LoTruncs(g, b) : w.i0 = Greatest(j, 0)
  BY DEF FullWindows
<1>3. t \in Int
  <2> HIDE DEF lo, n
  <2> QED BY <1>1, Quotient
<1>4. /\ i \in Truncs(lo, n) /\ j \in Truncs(lo, n)
      /\ lo > 0 => (i < t <=> j < t)
  BY DEF LoTruncs
<1> HIDE DEF lo, n
<1>5. /\ i \in Int /\ j \in Int
      /\ 0 + 1 <= i => n * (0 + 1) <= lo
      /\ 0 + 1 <= j => n * (0 + 1) <= lo
  <2>1. 0 \in Nat
    OBVIOUS
  <2> QED BY <1>1, <1>4, <2>1, RoundedTrunc
<1>6. CASE lo > 0
  <2>1. i \in {t, t - 1} /\ j \in {t, t - 1}
    BY <1>1, <1>4, <1>6 DEF Truncs
  <2> HIDE DEF t
  <2> QED BY <1>2, <1>3, <1>4, <1>5, <1>6, <2>1
<1>7. CASE ~(lo > 0)
  BY <1>1, <1>2, <1>5, <1>7 DEF Greatest
<1> QED BY <1>6, <1>7

(* The bounds of a window in coordinates of the pictures.                  *)
LEMMA WindowBounds ==
  ASSUME NEW g, Aligned(g), NEW b \in Int
  PROVE  /\ WindowLo(g, b) \in Int /\ WindowHi(g, b) \in Int
         /\ 2 * g.sn \in Int /\ 2 * g.sn > 0
         /\ \A k \in Int :
              /\ WindowLo(g, b) < 2 * g.sn * (k + 1) <=>
                   2 * g.sd * (g.b0 + b) - g.T - g.P < 2 * g.sn * (g.a0 + k)
              /\ 2 * g.sn * (k + 1) <= WindowHi(g, b) <=>
                   2 * g.sn * (g.a0 + k) <= 2 * g.sd * (g.b0 + b) - g.T + g.P
<1>1. /\ g.sn \in Int /\ g.sn > 0 /\ g.sd \in Int /\ g.T \in Int /\ g.U \in Int /\ g.P \in Int
      /\ g.a0 \in Int /\ g.b0 \in Int
  BY AlignedTypes
<1>2. g.U = 2 * g.sd * g.b0 - g.sn * (2 * g.a0 - 1) - g.T
  BY DEF Aligned
<1> DEFINE p == g.sd * g.b0   q == g.sd * b   s == g.sn * g.a0
<1>3. p \in Int /\ q \in Int /\ s \in Int
  BY <1>1
<1>4. WindowLo(g, b) = 2 * q + 2 * p - 2 * s + 2 * g.sn - g.T - g.P
  BY <1>1, <1>2 DEF WindowLo
<1>5. WindowHi(g, b) = 2 * q + 2 * p - 2 * s + 2 * g.sn - g.T + g.P
  BY <1>1, <1>2 DEF WindowHi
<1>6. 2 * g.sd * (g.b0 + b) = 2 * p + 2 * q
  BY <1>1
<1>7. ASSUME NEW k \in Int
      PROVE  /\ WindowLo(g, b) < 2 * g.sn * (k + 1) <=>
                  2 * g.sd * (g.b0 + b) - g.T - g.P < 2 * g.sn * (g.a0 + k)
             /\ 2 * g.sn * (k + 1) <= WindowHi(g, b) <=>
                  2 * g.sn * (g.a0 + k) <= 2 * g.sd * (g.b0 + b) - g.T + g.P
  <2> DEFINE t == g.sn * k
  <2>1. t \in Int /\ 2 * g.sn * (k + 1) = 2 * t + 2 * g.sn
        /\ 2 * g.sn * (g.a0 + k) = 2 * s + 2 * t
    BY <1>1
  <2> HIDE DEF p, q, s, t
  <2> QED BY <1>1, <1>3, <1>4, <1>5, <1>6, <2>1
<1> HIDE DEF p, q, s
<1>8. WindowLo(g, b) \in Int /\ WindowHi(g, b) \in Int
  BY <1>1, <1>3, <1>4, <1>5
<1> QED BY <1>1, <1>7, <1>8, SMTT(30)

(* In exact arithmetic make_weighttab finds precisely the lines under the  *)
(* filter.                                                                 *)
LEMMA ExactWindow ==
  ASSUME ~Roundoff, NEW g, Aligned(g), NEW b \in Int, NEW w \in FullWindows(g, b)
  PROVE  /\ w.i0 \in Nat /\ w.i1 \in Int /\ w.i1 <= g.an
         /\ w = [i0 |-> w.i0, i1 |-> w.i1]
         /\ \A k \in Int : k \in w.i0 .. w.i1 - 1 <=>
                             k \in 0 .. g.an - 1 /\ Near(g, g.a0 + k, g.b0 + b)
<1> DEFINE lo == WindowLo(g, b)  hi == WindowHi(g, b)  n == 2 * g.sn
<1>1. lo \in Int /\ hi \in Int /\ n \in Int /\ n > 0
  BY WindowBounds
<1>2. /\ Truncs(lo, n) = {TruncDiv(lo, n)}
      /\ Truncs(hi, n) = {TruncDiv(hi, n)}
      /\ TruncDiv(lo, n) \in Int /\ TruncDiv(hi, n) \in Int
  <2> HIDE DEF lo, hi, n
  <2> QED BY <1>1, ExactTruncs, Quotient
<1>3. PICK i \in LoTruncs(g, b), j \in HiTruncs(g, b) :
        w = [i0 |-> Greatest(i, 0), i1 |-> Least(j, g.an)]
  BY DEF FullWindows
<1>4. i = TruncDiv(lo, n) /\ j = TruncDiv(hi, n)
  BY <1>2, <1>3 DEF LoTruncs, HiTruncs
<1>5. g.an \in Nat
  BY AlignedTypes
<1>6. ASSUME NEW k \in Nat
      PROVE  /\ k + 1 <= i <=> n * (k + 1) <= lo
             /\ k + 1 <= j <=> n * (k + 1) <= hi
  <2> HIDE DEF lo, hi, n
  <2> QED BY <1>1, <1>4, TruncIsBelow
<1>7. \A k \in Int : /\ lo < n * (k + 1) <=> 2 * g.sd * (g.b0 + b) - g.T - g.P < 2 * g.sn * (g.a0 + k)
                     /\ n * (k + 1) <= hi <=> 2 * g.sn * (g.a0 + k) <= 2 * g.sd * (g.b0 + b) - g.T + g.P
  BY WindowBounds
<1>8. \A k \in Int : lo < n * (k + 1) /\ n * (k + 1) <= hi <=> Near(g, g.a0 + k, g.b0 + b)
  BY <1>7 DEF Near
<1>9. ASSUME NEW k \in Int
      PROVE  k \in w.i0 .. w.i1 - 1 <=> k \in 0 .. g.an - 1 /\ Near(g, g.a0 + k, g.b0 + b)
  <2>1. n * (k + 1) \in Int
    BY <1>1
  <2>2. k >= 0 => (k >= i <=> lo < n * (k + 1)) /\ (k + 1 <= j <=> n * (k + 1) <= hi)
    <3>1. SUFFICES ASSUME k >= 0 PROVE (k >= i <=> lo < n * (k + 1)) /\ (k + 1 <= j <=> n * (k + 1) <= hi)
      OBVIOUS
    <3>2. i \in Int /\ j \in Int
      BY <1>2, <1>4
    <3>3. (k + 1 <= i <=> n * (k + 1) <= lo) /\ (k + 1 <= j <=> n * (k + 1) <= hi)
      BY <1>6, <3>1
    <3> HIDE DEF lo, hi, n
    <3> QED BY <1>1, <2>1, <3>2, <3>3
  <2>3. k \in w.i0 .. w.i1 - 1 <=> k >= 0 /\ k >= i /\ k + 1 <= j /\ k <= g.an - 1
    BY <1>2, <1>3, <1>4, <1>5 DEF Greatest, Least
  <2> HIDE DEF lo, hi, n
  <2> QED BY <1>5, <1>8, <2>2, <2>3
<1> QED BY <1>2, <1>3, <1>4, <1>5, <1>9 DEF Greatest, Least

(* A window of make_weighttab is a full one, or one line of it.            *)
LEMMA PartOfFullWindow ==
  ASSUME NEW g, NEW b, NEW w \in SourceWindows(g, b)
  PROVE  \E v \in FullWindows(g, b) :
            \/ w = v
            \/ v.i0 < v.i1 /\ w = Middle(v) /\ Weightless(g, b, v)
BY DEF SourceWindows, Weightless

(* The line in the middle is one of the window.                            *)
LEMMA MiddleInside ==
  ASSUME NEW v, v.i0 \in Int, v.i1 \in Int, v.i0 < v.i1
  PROVE  /\ v.i0 <= Middle(v).i0 /\ Middle(v).i0 < v.i1
         /\ Middle(v).i1 = Middle(v).i0 + 1
         /\ Middle(v).i0 \in Int
BY DEF Middle

(* The windows of a line fit into the line buffers.                        *)
LEMMA WindowsFit ==
  ASSUME ~Roundoff, NEW g, Aligned(g), NEW b \in Int, NEW v \in FullWindows(g, b)
  PROVE  v.i1 - v.i0 <= g.wid
<1>1. /\ g.sn \in Int /\ g.sn > 0 /\ g.sd \in Int /\ g.T \in Int /\ g.P \in Int
      /\ g.a0 \in Int /\ g.b0 \in Int /\ g.wid \in Int /\ g.wid > 0
  BY AlignedTypes
<1>2. /\ v.i0 \in Nat /\ v.i1 \in Int
      /\ \A k \in Int : k \in v.i0 .. v.i1 - 1 => Near(g, g.a0 + k, g.b0 + b)
  BY ExactWindow
<1>3. ASSUME v.i0 < v.i1 PROVE v.i1 - v.i0 <= g.wid
  <2>1. Near(g, g.a0 + v.i0, g.b0 + b) /\ Near(g, g.a0 + (v.i1 - 1), g.b0 + b)
    BY <1>2, <1>3
  <2> DEFINE c == 2 * g.sd * (g.b0 + b) - g.T
             d == v.i1 - 1 - v.i0
             l == g.sn * (g.a0 + v.i0)
  <2>2. c \in Int /\ d \in Int /\ l \in Int
    BY <1>1, <1>2
  <2>3. 2 * g.sn * (g.a0 + (v.i1 - 1)) = 2 * l + 2 * (g.sn * d)
    BY <1>1, <1>2
  <2>4. c - g.P < 2 * l /\ 2 * l + 2 * (g.sn * d) <= c + g.P
    BY <2>1, <2>3, <1>1, <1>2 DEF Near
  <2>5. g.sn * d \in Int
    BY <1>1, <2>2
  <2>6. g.P <= g.sn * g.wid
    BY DEF Aligned
  <2>7. g.sn * d < g.sn * g.wid
    <3> HIDE DEF c, d, l
    <3> QED BY <1>1, <2>2, <2>4, <2>5, <2>6
  <2>8. d < g.wid
    <3> HIDE DEF c, d, l
    <3> QED BY <1>1, <2>2, <2>7, Scaled
  <2> QED BY <1>1, <1>2, <2>8
<1> QED BY <1>1, <1>2, <1>3

(* However the truncations are rounded, a window is at most one line wider *)
(* than the line buffers, and then its lower end was rounded down.         *)
LEMMA WindowTooWide ==
  ASSUME NEW g, Aligned(g), NEW b \in Int, NEW v \in FullWindows(g, b), v.i1 - v.i0 > g.wid
  PROVE  b \in g.low /\ v.i1 - v.i0 = g.wid + 1
<1> DEFINE lo == WindowLo(g, b)  hi == WindowHi(g, b)  n == 2 * g.sn
           t == TruncDiv(lo, n)
<1>1. /\ g.sn \in Int /\ g.sn > 0 /\ g.P \in Int /\ g.wid \in Int /\ g.wid > 0 /\ g.an \in Nat
      /\ n \in Int /\ n > 0 /\ lo \in Int /\ hi \in Int
  BY AlignedTypes, WindowBounds
<1>2. hi <= lo + n * g.wid
  <2>1. hi = lo + 2 * g.P
    BY AlignedTypes DEF WindowLo, WindowHi
  <2>2. 2 * (g.sn * g.wid) = n * g.wid /\ g.sn * g.wid \in Int
    BY <1>1
  <2>3. g.P <= g.sn * g.wid
    BY DEF Aligned
  <2> HIDE DEF lo, hi, n
  <2> QED BY <1>1, <2>1, <2>2, <2>3
<1>3. PICK i \in LoTruncs(g, b), j \in HiTruncs(g, b) :
        v = [i0 |-> Greatest(i, 0), i1 |-> Least(j, g.an)]
  BY DEF FullWindows
<1>4. /\ i \in Truncs(lo, n) /\ j \in Truncs(hi, n)
      /\ lo > 0 => (b \in g.low <=> i < t)
  BY <1>3 DEF LoTruncs, HiTruncs
<1>5. /\ i \in Int /\ j \in Int
      /\ \A k \in Nat : k + 1 <= j => n * (k + 1) <= hi
  <2>1. 0 \in Nat
    OBVIOUS
  <2> HIDE DEF lo, hi, n
  <2> QED BY <1>1, <1>4, <2>1, RoundedTrunc
<1>6. v.i0 \in Nat /\ i <= v.i0 /\ v.i1 \in Int /\ v.i1 <= j
  BY <1>1, <1>3, <1>5 DEF Greatest, Least
(* What the upper end reaches, less the width, the lower end reaches.      *)
<1>7. ASSUME NEW d \in Nat, v.i0 + g.wid + d + 1 <= v.i1
      PROVE  v.i0 + d + 1 <= t /\ n * (v.i0 + d + 1) <= lo
  <2>1. v.i0 + g.wid + d \in Nat /\ (v.i0 + g.wid + d) + 1 <= j
    BY <1>1, <1>5, <1>6, <1>7
  <2>2. n * ((v.i0 + g.wid + d) + 1) <= hi
    BY <1>5, <2>1
  <2>3. /\ n * ((v.i0 + g.wid + d) + 1) = n * (v.i0 + d + 1) + n * g.wid
        /\ n * (v.i0 + d + 1) \in Int /\ n * g.wid \in Int
    <3> HIDE DEF lo, hi, n
    <3> QED BY <1>1, <1>6
  <2>4. n * (v.i0 + d + 1) <= lo
    <3> HIDE DEF lo, hi, n
    <3> QED BY <1>1, <1>2, <2>2, <2>3
  <2>5. v.i0 + d \in Nat
    BY <1>6
  <2> HIDE DEF lo, hi, n
  <2> QED BY <1>1, <2>4, <2>5, TruncIsBelow DEF t
<1>8. t \in Int
  <2> HIDE DEF lo, hi, n
  <2> QED BY <1>1, Quotient DEF t
<1>9. v.i0 + 1 <= t /\ lo > 0
  <2>1. v.i0 + 0 + 1 <= t /\ n * (v.i0 + 0 + 1) <= lo
    <3>1. v.i0 + g.wid + 0 + 1 <= v.i1
      BY <1>1, <1>6
    <3> HIDE DEF lo, hi, n, t
    <3> QED BY <1>7, <3>1
  <2>2. n * 0 + n <= n * (v.i0 + 1) /\ n * (v.i0 + 1) \in Int
    <3> HIDE DEF lo, hi, n
    <3> QED BY <1>1, <1>6, Scaled
  <2> HIDE DEF lo, hi, n, t
  <2> QED BY <1>1, <1>6, <1>8, <2>1, <2>2
<1>10. i < t /\ t - 1 <= i
  <2>1. i \in {t, t - 1}
    <3> HIDE DEF lo, n
    <3> QED BY <1>1, <1>4, <1>9 DEF Truncs
  <2> HIDE DEF t
  <2> QED BY <1>5, <1>6, <1>8, <1>9, <2>1
<1>11. ~(v.i0 + g.wid + 1 + 1 <= v.i1)
  <2>1. v.i0 + g.wid + 1 + 1 <= v.i1 => v.i0 + 1 + 1 <= t
    <3> HIDE DEF lo, hi, n, t
    <3> QED BY <1>7
  <2> HIDE DEF t
  <2> QED BY <1>5, <1>6, <1>8, <1>10, <2>1
<1>12. b \in g.low
  BY <1>4, <1>9, <1>10
<1> HIDE DEF lo, hi, n, t
<1> QED BY <1>1, <1>6, <1>11, <1>12

-----------------------------------------------------------------------------
(***************************************************************************)
(* The magic split formula.  Going towards larger lines or towards smaller *)
(* ones, a line that is needed now and was written is one that the line    *)
(* before needed as well.                                                  *)
(***************************************************************************)

(* The split of a magnification is the first line whose window lies        *)
(* entirely above the line itself, or the line before (zoom.c:872-878).    *)
LEMMA MagnifySplit ==
  ASSUME NEW g, Aligned(g), g.sn > g.sd, NEW s \in MagnifySplits(g)
  PROVE  /\ s \in Int
         /\ 2 * (g.sn - g.sd) * (g.b0 + s - 1) <= g.sd - g.T - g.P
         /\ g.sd - g.T - g.P <= 2 * (g.sn - g.sd) * (g.b0 + s)
<1>1. /\ g.sn \in Int /\ g.sd \in Int /\ g.T \in Int /\ g.P \in Int /\ g.b0 \in Int
  BY AlignedTypes
<1> DEFINE x == g.sd - g.T - g.P   n == 2 * (g.sn - g.sd)
<1>2. x \in Int /\ n \in Int /\ n > 0
  BY <1>1
<1>3. PICK k \in Floors(x, n) : s = k - g.b0 + 1
  BY DEF MagnifySplits
<1>4. k \in Int /\ n * k <= x /\ x <= n * k + n
  <2> HIDE DEF x, n
  <2> QED BY <1>2, <1>3, RoundedQuotients
<1>5. s \in Int /\ g.b0 + s - 1 = k /\ g.b0 + s = k + 1
  BY <1>1, <1>3, <1>4
<1>6. n * (k + 1) = n * k + n
  <2> HIDE DEF n, x
  <2> QED BY <1>2, <1>4
<1> QED BY <1>4, <1>5, <1>6

(* Minifying, lines from Y on need nothing at or after themselves; the     *)
(* check of the line before (zoom.c:891-898) tells whether roundoff made   *)
(* it one of them.                                                         *)
LEMMA MinifySplit ==
  ASSUME NEW g, Aligned(g), g.sn < g.sd, NEW s \in MinifySplits(g)
  PROVE  /\ s \in Int
         /\ \E Y \in Int :
              /\ 2 * (g.sd - g.sn) * (Y - 1) <= g.T + g.P
              /\ g.T + g.P <= 2 * (g.sd - g.sn) * Y
              /\ \/ /\ Y = g.b0 + s
                    /\ \A w \in FullWindows(g, s - 1) : g.a0 + w.i0 < Y \/ w.i0 = 0
                 \/ /\ Y = g.b0 + s + 1
                    /\ \A w \in FullWindows(g, s) : Y <= g.a0 + w.i0
<1>1. /\ g.sn \in Int /\ g.sd \in Int /\ g.T \in Int /\ g.P \in Int
      /\ g.b0 \in Int /\ g.a0 \in Nat
  BY AlignedTypes
<1> DEFINE x == g.T + g.P   n == 2 * (g.sd - g.sn)
<1>2. x \in Int /\ n \in Int /\ n > 0
  BY <1>1
<1>3. PICK Y \in Ceils(x, n) :
        \E i0 \in LoTruncs(g, Y - g.b0 - 1) :
           s = IF g.a0 + i0 >= g.b0 + (Y - g.b0) THEN Y - g.b0 - 1 ELSE Y - g.b0
  BY DEF MinifySplits
<1>4. Y \in Int /\ x <= n * Y /\ n * Y <= x + n
  <2> HIDE DEF x, n
  <2> QED BY <1>2, <1>3, RoundedQuotients
<1>5. n * (Y - 1) <= x
  <2>1. n * (Y - 1) = n * Y - n /\ n * Y \in Int
    <3> HIDE DEF n
    <3> QED BY <1>2, <1>4
  <2> HIDE DEF n, x
  <2> QED BY <1>2, <1>4, <2>1
<1>6. PICK i0 \in LoTruncs(g, Y - g.b0 - 1) :
         s = IF g.a0 + i0 >= g.b0 + (Y - g.b0) THEN Y - g.b0 - 1 ELSE Y - g.b0
  BY <1>3
<1>7. Y - g.b0 - 1 \in Int
  BY <1>1, <1>4
<1>8. \A w \in FullWindows(g, Y - g.b0 - 1) : i0 \in Int /\ w.i0 = Greatest(i0, 0)
  BY <1>6, <1>7, LowEndsAgree
<1>9. i0 \in Int
  <2> DEFINE lo == WindowLo(g, Y - g.b0 - 1)
  <2>1. lo \in Int /\ 2 * g.sn \in Int /\ 2 * g.sn > 0
    BY <1>7, WindowBounds
  <2>2. i0 \in Truncs(lo, 2 * g.sn)
    BY <1>6 DEF LoTruncs
  <2> HIDE DEF lo
  <2> QED BY <2>1, <2>2, TruncsAreInts
<1>10. CASE g.a0 + i0 >= Y
  <2>1. s = Y - g.b0 - 1 /\ s \in Int /\ Y = g.b0 + s + 1
    BY <1>1, <1>4, <1>6, <1>10
  <2>2. \A w \in FullWindows(g, s) : Y <= g.a0 + w.i0
    BY <1>1, <1>4, <1>8, <1>9, <1>10, <2>1 DEF Greatest
  <2> QED BY <1>4, <1>5, <2>1, <2>2
<1>11. CASE ~(g.a0 + i0 >= Y)
  <2>1. s = Y - g.b0 /\ s \in Int /\ Y = g.b0 + s /\ s - 1 = Y - g.b0 - 1
    BY <1>1, <1>4, <1>6, <1>11
  <2>2. \A w \in FullWindows(g, s - 1) : g.a0 + w.i0 < Y \/ w.i0 = 0
    BY <1>1, <1>4, <1>8, <1>9, <1>11, <2>1 DEF Greatest
  <2> QED BY <1>4, <1>5, <2>1, <2>2
<1> QED BY <1>10, <1>11

(* Which lines precede a line in the scan order.                           *)
LEMMA OrderOf ==
  ASSUME NEW g, Aligned(g), NEW split \in 0 .. g.bn, NEW n \in 0 .. g.bn - 1, NEW i \in 0 .. n - 1
  PROVE  LET m == ScanOrder(g, split)
         IN  /\ m[n] \in 0 .. g.bn - 1 /\ m[i] \in 0 .. g.bn - 1
             /\ n - 1 \in 0 .. g.bn - 1 /\ m[n - 1] \in 0 .. g.bn - 1
             /\ g.sn >= g.sd /\ n < split =>
                  m[n] < split /\ m[i] < m[n] /\ m[n - 1] = m[n] - 1
             /\ g.sn >= g.sd /\ n >= split =>
                  /\ split <= m[n]
                  /\ m[i] < split \/ (m[i] > m[n] /\ n > split /\ m[n - 1] = m[n] + 1)
             /\ g.sn < g.sd /\ n < split =>
                  m[n] + 1 < split /\ m[i] > m[n] /\ m[n - 1] = m[n] + 1
             /\ g.sn < g.sd /\ n >= split => split <= m[n] /\ m[i] < m[n]
<1>1. g.sn \in Int /\ g.sd \in Int /\ g.bn \in Nat
  BY AlignedTypes
<1>2. i \in 0 .. g.bn - 1 /\ n - 1 \in 0 .. g.bn - 1
  BY <1>1
<1>3. \A k \in 0 .. g.bn - 1 :
        ScanOrder(g, split)[k] =
          IF g.sn >= g.sd
          THEN IF k < split THEN k ELSE g.bn - 1 - (k - split)
          ELSE IF k < split THEN split - 1 - k ELSE k
  BY DEF ScanOrder
<1> QED BY <1>1, <1>2, <1>3

(* The order of the lines is the right one, however the split point and    *)
(* the windows are rounded: a source line that was written over and is     *)
(* needed once more is one that the line computed last has used            *)
(* (zoom.c:864-901).                                                       *)
LEMMA SplitIsSafe ==
  ASSUME NEW g, Aligned(g), g.overlap, ~MovedBackwards(g),
         NEW m \in ScanOrders(g), NEW n \in 0 .. g.bn - 1, NEW i \in 0 .. n - 1,
         NEW w \in FullWindows(g, m[n]), NEW v \in FullWindows(g, m[n - 1]),
         NEW k \in w.i0 .. w.i1 - 1, g.a0 + k = g.b0 + m[i]
  PROVE  k \in v.i0 .. v.i1 - 1
<1>1. /\ g.sn \in Int /\ g.sn > 0 /\ g.sd \in Int /\ g.sd > 0 /\ g.T \in Int
      /\ g.P \in Int /\ g.P >= g.sn
      /\ g.b0 \in Int /\ g.bn \in Nat /\ g.a0 \in Nat /\ g.an \in Nat
  BY AlignedTypes DEF Aligned
<1>2. PICK s \in IF g.sn = g.sd THEN {TranslateSplit(g)}
                 ELSE IF g.sn > g.sd THEN MagnifySplits(g) ELSE MinifySplits(g) :
        m = ScanOrder(g, Greatest(0, Least(s, g.bn)))
  BY DEF ScanOrders, SplitPoints
<1> DEFINE split == Greatest(0, Least(s, g.bn))
           y == g.b0 + m[n]   z == g.b0 + m[n - 1]   K == g.a0 + k
<1>3. s \in Int
  BY <1>1, <1>2, MagnifySplit, MinifySplit DEF TranslateSplit
<1>4. split \in 0 .. g.bn /\ (split < g.bn => s <= split) /\ (split > 0 => split <= s)
  BY <1>1, <1>3 DEF Greatest, Least
<1>5. /\ m[n] \in 0 .. g.bn - 1 /\ m[i] \in 0 .. g.bn - 1 /\ m[n - 1] \in 0 .. g.bn - 1
      /\ g.sn >= g.sd /\ n < split =>
           m[n] < split /\ m[i] < m[n] /\ m[n - 1] = m[n] - 1
      /\ g.sn >= g.sd /\ n >= split =>
           /\ split <= m[n]
           /\ m[i] < split \/ (m[i] > m[n] /\ n > split /\ m[n - 1] = m[n] + 1)
      /\ g.sn < g.sd /\ n < split =>
           m[n] + 1 < split /\ m[i] > m[n] /\ m[n - 1] = m[n] + 1
      /\ g.sn < g.sd /\ n >= split => split <= m[n] /\ m[i] < m[n]
  <2> HIDE DEF split
  <2> QED BY <1>2, <1>4, OrderOf DEF split
<1>6. m[n] \in Int /\ m[i] \in Int /\ m[n - 1] \in Int
  BY <1>5
<1>7. /\ w.i0 \in Nat /\ w.i1 \in Int /\ w.i1 <= g.an
      /\ \A l \in 0 .. g.an - 1 :
           /\ Distance(g, g.a0 + l, y) \in Int
           /\ w.i0 <= l => -g.P <= Distance(g, g.a0 + l, y)
           /\ l < w.i1 => Distance(g, g.a0 + l, y) <= g.P
  BY <1>6, RoundedWindow
<1>8. /\ v.i0 \in Nat /\ v.i1 \in Int
      /\ \A l \in 0 .. g.an - 1 :
           /\ -g.P < Distance(g, g.a0 + l, z) => v.i0 <= l
           /\ Distance(g, g.a0 + l, z) < g.P => l < v.i1
  BY <1>6, RoundedWindow
<1>9. k \in Int /\ k \in 0 .. g.an - 1 /\ w.i0 <= k /\ k < w.i1
  BY <1>1, <1>7
<1>10. -g.P <= Distance(g, K, y) /\ Distance(g, K, y) <= g.P
  BY <1>7, <1>9
<1>11. /\ -g.P < Distance(g, K, z) => v.i0 <= k
       /\ Distance(g, K, z) < g.P => k < v.i1
  BY <1>8, <1>9
<1>12. K \in Int /\ y \in Int /\ z \in Int
  BY <1>1, <1>6, <1>9
<1>13. /\ m[n - 1] = m[n] + 1 => z = y + 1
       /\ m[n - 1] = m[n] - 1 => z = y - 1
       /\ m[i] > m[n] => K > y
       /\ m[i] < m[n] => K < y
       /\ m[n] < split => y <= g.b0 + s - 1
       /\ m[n] + 1 < split => y + 1 <= g.b0 + s - 1
       /\ m[i] < split => K <= g.b0 + s - 1
       /\ split <= m[n] => g.b0 + s <= y
  <2>1. K = g.b0 + m[i]
    OBVIOUS
  <2> HIDE DEF split, K
  <2> QED BY <1>1, <1>3, <1>4, <1>5, <1>6, <2>1
<1> DEFINE dd(x) == 2 * g.sd * x   ss(x) == 2 * g.sn * x
           q == g.b0 + s - 1   f == 2 * (g.sn - g.sd)   e == 2 * (g.sd - g.sn)
<1>14. \A x \in Int : /\ dd(x) \in Int /\ ss(x) \in Int
                      /\ f * x = ss(x) - dd(x) /\ e * x = dd(x) - ss(x)
                      /\ dd(x + 1) = dd(x) + 2 * g.sd /\ dd(x - 1) = dd(x) - 2 * g.sd
                      /\ ss(x - 1) = ss(x) - 2 * g.sn /\ ss(x + 1) = ss(x) + 2 * g.sn
  <2> TAKE x \in Int
  <2>1. dd(x) \in Int /\ ss(x) \in Int
    BY <1>1
  <2>2. f * x = ss(x) - dd(x) /\ e * x = dd(x) - ss(x)
    BY <1>1
  <2>3. dd(x + 1) = dd(x) + 2 * g.sd /\ dd(x - 1) = dd(x) - 2 * g.sd
    BY <1>1
  <2>4. ss(x - 1) = ss(x) - 2 * g.sn /\ ss(x + 1) = ss(x) + 2 * g.sn
    BY <1>1
  <2> QED BY <2>1, <2>2, <2>3, <2>4
<1>15. \A a \in Int : \A b \in Int : a <= b => ss(a) <= ss(b) /\ dd(a) <= dd(b)
  <2>1. 2 * g.sn \in Int /\ 2 * g.sn > 0 /\ 2 * g.sd \in Int /\ 2 * g.sd > 0
    BY <1>1
  <2> QED BY <2>1, Scaled
<1>16. Distance(g, K, y) = ss(K) - dd(y) + g.T /\ Distance(g, K, z) = ss(K) - dd(z) + g.T
  BY DEF Distance
<1>17. /\ ss(K) \in Int /\ dd(y) \in Int /\ dd(z) \in Int /\ ss(y) \in Int /\ ss(z) \in Int
       /\ -g.P <= ss(K) - dd(y) + g.T /\ ss(K) - dd(y) + g.T <= g.P
       /\ -g.P < ss(K) - dd(z) + g.T => v.i0 <= k
       /\ ss(K) - dd(z) + g.T < g.P => k < v.i1
  <2> HIDE DEF ss, dd, K, y, z
  <2> QED BY <1>10, <1>11, <1>12, <1>14, <1>16
<1>18. v.i0 <= k /\ k < v.i1 => k \in v.i0 .. v.i1 - 1
  BY <1>8, <1>9
<1> HIDE DEF split
<1>19. f \in Int /\ e \in Int /\ q \in Int /\ q + 1 = g.b0 + s
  BY <1>1, <1>3
<1>20. CASE g.sn > g.sd
  <2>1. f * q <= g.sd - g.T - g.P /\ g.sd - g.T - g.P <= f * (q + 1)
    <3>1. s \in MagnifySplits(g)
      BY <1>1, <1>2, <1>20
    <3>2. f * q <= g.sd - g.T - g.P /\ g.sd - g.T - g.P <= f * (g.b0 + s)
      BY <1>20, <3>1, MagnifySplit
    <3> QED BY <1>19, <3>2
  <2>2. f > 0
    BY <1>1, <1>20
  <2>3. \A a \in Int : \A b \in Int : a <= b => f * a <= f * b
    <3> HIDE DEF f
    <3> QED BY <1>19, <2>2, Scaled
  <2>4. CASE n < split
    <3>1. y <= q /\ K < y
      BY <1>1, <1>5, <1>13, <1>20, <2>4
    <3> HIDE DEF f, q, y, z, K, ss, dd
    <3>2. f * y <= f * q /\ ss(K) <= ss(y - 1)
      <4>1. y - 1 \in Int /\ K <= y - 1
        BY <1>12, <3>1
      <4> QED BY <1>12, <1>15, <1>19, <2>3, <3>1, <4>1
    <3>3. f * y = ss(y) - dd(y) /\ ss(y - 1) = ss(y) - 2 * g.sn
      BY <1>12, <1>14
    <3>4. f * q \in Int
      BY <1>19
    <3> QED BY <1>1, <1>17, <1>20, <2>1, <3>2, <3>3, <3>4
  <2>5. CASE n >= split /\ m[i] < split
    <3>1. K <= q /\ q + 1 <= y
      BY <1>1, <1>5, <1>13, <1>19, <1>20, <2>5
    <3> HIDE DEF f, q, y, z, K, ss, dd
    <3>2. ss(K) <= ss(q) /\ dd(q + 1) <= dd(y)
      <4>1. q + 1 \in Int
        BY <1>19
      <4> QED BY <1>12, <1>15, <1>19, <3>1, <4>1
    <3>3. dd(q + 1) = dd(q) + 2 * g.sd /\ f * q = ss(q) - dd(q) /\ dd(q) \in Int /\ ss(q) \in Int
      BY <1>14, <1>19
    <3> QED BY <1>1, <1>17, <2>1, <3>2, <3>3
  <2>6. CASE n >= split /\ ~(m[i] < split)
    <3>1. split <= m[n] /\ m[i] > m[n] /\ m[n - 1] = m[n] + 1
      BY <1>1, <1>5, <1>20, <2>6
    <3>2. q + 1 <= y /\ K > y /\ z = y + 1
      BY <1>13, <1>19, <3>1
    <3> HIDE DEF f, q, y, z, K, ss, dd
    <3>3. f * (q + 1) <= f * z /\ ss(z) <= ss(K) /\ q + 1 \in Int
      <4>1. q + 1 \in Int /\ q + 1 <= z /\ z <= K
        BY <1>12, <1>19, <3>2
      <4> QED BY <1>12, <1>15, <2>3, <4>1
    <3>4. f * z = ss(z) - dd(z) /\ dd(z) = dd(y) + 2 * g.sd /\ f * (q + 1) \in Int
      BY <1>12, <1>14, <1>19, <3>2, <3>3
    <3>5. -g.P < ss(K) - dd(z) + g.T /\ ss(K) - dd(z) + g.T < g.P
      BY <1>1, <1>17, <2>1, <3>3, <3>4
    <3> QED BY <1>17, <1>18, <3>5
  <2> QED BY <1>3, <1>4, <2>4, <2>5, <2>6
<1>21. CASE g.sn < g.sd
  <2>1. s \in MinifySplits(g)
    BY <1>1, <1>2, <1>21
  <2>2. PICK Y \in Int :
           /\ e * (Y - 1) <= g.T + g.P
           /\ g.T + g.P <= e * Y
           /\ \/ /\ Y = g.b0 + s
                 /\ \A u \in FullWindows(g, s - 1) : g.a0 + u.i0 < Y \/ u.i0 = 0
              \/ /\ Y = g.b0 + s + 1
                 /\ \A u \in FullWindows(g, s) : Y <= g.a0 + u.i0
    BY <1>21, <2>1, MinifySplit
  <2>3. e > 0
    BY <1>1, <1>21
  <2>4. \A a \in Int : \A b \in Int : /\ a <= b => e * a <= e * b
                                      /\ a < b => e * a + e <= e * b
    <3> HIDE DEF e
    <3> QED BY <1>19, <2>3, Scaled
  <2>5. CASE n < split
    <3>1. m[n] + 1 < split /\ m[i] > m[n] /\ m[n - 1] = m[n] + 1
      BY <1>1, <1>5, <1>21, <2>5
    <3>2. z <= q /\ K > y /\ z = y + 1
      BY <1>13, <3>1
    <3>3. Y - 1 \in Int /\ z <= Y - 1 /\ z <= K
      BY <1>1, <1>3, <1>12, <2>2, <3>2, SMTT(30)
    <3>4. /\ e * z = dd(z) - ss(z) /\ dd(z) = dd(y) + 2 * g.sd
          /\ ss(z + 1) = ss(z) + 2 * g.sn /\ e * (Y - 1) \in Int
      <4> HIDE DEF e, q, y, z, K, ss, dd
      <4>1. e * z = dd(z) - ss(z) /\ ss(z + 1) = ss(z) + 2 * g.sn
        BY <1>12, <1>14
      <4>2. dd(z) = dd(y) + 2 * g.sd
        BY <1>12, <1>14, <3>2
      <4>3. e * (Y - 1) \in Int
        BY <1>19, <3>3
      <4> QED BY <4>1, <4>2, <4>3
    <3>5. k < v.i1
      <4> HIDE DEF e, q, y, z, K, ss, dd
      <4> QED BY <1>1, <1>17, <3>4
    <3>6. CASE K > z
      <4> HIDE DEF e, q, y, z, K, ss, dd
      <4>1. e * z <= e * (Y - 1) /\ ss(z + 1) <= ss(K)
        <5>1. z + 1 \in Int /\ z + 1 <= K
          BY <1>12, <3>6
        <5> QED BY <1>12, <1>15, <2>4, <3>3, <5>1
      <4>2. -g.P < ss(K) - dd(z) + g.T
        BY <1>1, <1>17, <2>2, <3>4, <4>1
      <4> QED BY <1>17, <1>18, <3>5, <4>2
    <3>7. CASE z < Y - 1
      <4> HIDE DEF e, q, y, z, K, ss, dd
      <4>1. e * z + e <= e * (Y - 1) /\ ss(z) <= ss(K)
        BY <1>12, <1>15, <2>4, <3>3, <3>7
      <4>2. -g.P < ss(K) - dd(z) + g.T
        BY <1>1, <1>17, <1>19, <2>2, <2>3, <3>4, <4>1
      <4> QED BY <1>17, <1>18, <3>5, <4>2
    <3>8. CASE K = z /\ z = Y - 1
      <4>1. Y = g.b0 + s /\ m[n - 1] = s - 1
        BY <1>1, <1>3, <1>6, <1>12, <2>2, <3>2, <3>8
      <4>2. g.a0 + v.i0 < Y \/ v.i0 = 0
        BY <1>1, <1>3, <2>2, <4>1
      <4>3. v.i0 <= k
        <5>1. g.a0 + k = Y - 1
          BY <3>8
        <5> QED BY <1>1, <1>8, <1>9, <2>2, <4>2, <5>1
      <4> QED BY <1>18, <3>5, <4>3
    <3> QED BY <1>12, <3>3, <3>6, <3>7, <3>8
  <2>6. CASE n >= split
    <3>1. split <= m[n] /\ m[i] < m[n]
      BY <1>1, <1>5, <1>21, <2>6
    <3>2. g.b0 + s <= y /\ K < y
      BY <1>13, <3>1
    <3>3. CASE Y <= y
      <4> HIDE DEF e, q, y, z, K, ss, dd
      <4>1. e * Y <= e * y /\ ss(K) <= ss(y)
        <5>1. K <= y
          BY <1>12, <3>2
        <5> QED BY <1>12, <1>15, <2>2, <2>4, <3>3, <5>1
      <4>2. ss(K) <= ss(y - 1) /\ ss(y - 1) = ss(y) - 2 * g.sn
        <5>1. y - 1 \in Int /\ K <= y - 1
          BY <1>12, <3>2
        <5> QED BY <1>12, <1>14, <1>15, <5>1
      <4>3. e * y = dd(y) - ss(y) /\ e * Y \in Int
        BY <1>12, <1>14, <1>19, <2>2
      <4> QED BY <1>1, <1>17, <2>2, <4>1, <4>2, <4>3
    <3>4. CASE ~(Y <= y)
      <4>1. Y = g.b0 + s + 1 /\ m[n] = s
        <5>1. Y = g.b0 + s \/ Y = g.b0 + s + 1
          BY <2>2
        <5>2. Y = g.b0 + s + 1 /\ y = g.b0 + s
          <6> HIDE DEF y, z, K, ss, dd, q, e, f
          <6> QED BY <1>1, <1>3, <1>12, <3>2, <3>4, <5>1
        <5> QED BY <1>1, <1>3, <1>6, <5>2
      <4>2. Y # g.b0 + s
        BY <1>1, <1>3, <4>1
      <4>3. Y <= g.a0 + w.i0
        BY <2>2, <4>1, <4>2
      <4>4. w.i0 <= k /\ g.a0 + k < y
        BY <1>9, <3>2
      <4> HIDE DEF y
      <4> QED BY <1>1, <1>7, <1>9, <1>12, <2>2, <3>4, <4>3, <4>4
    <3> QED BY <3>3, <3>4
  <2> QED BY <1>3, <1>4, <2>5, <2>6
<1>22. CASE g.sn = g.sd
  <2>1. s = IF g.a0 < g.b0 THEN 0 ELSE g.bn
    BY <1>2, <1>22 DEF TranslateSplit
  <2>2. split = s
    BY <1>1, <2>1 DEF split, Greatest, Least
  <2>3. IF g.a0 < g.b0 THEN -g.P < g.T ELSE g.T < g.P
    <3>1. g.b0 <= g.a0 => g.T # g.P
      BY <1>22 DEF Aligned
    <3>2. IF g.a0 < g.b0 THEN ~(g.T <= -g.P) ELSE ~(g.T > g.P)
      BY <1>22 DEF MovedBackwards
    <3>3. CASE g.a0 < g.b0
      BY <1>1, <3>2, <3>3
    <3>4. CASE g.b0 <= g.a0
      BY <1>1, <3>1, <3>2, <3>4
    <3> QED BY <1>1, <3>3, <3>4
  <2>4. dd(z) = ss(z)
    BY <1>22
  <2>5. CASE g.a0 < g.b0
    <3>1. m[i] < 0 \/ (m[i] > m[n] /\ m[n - 1] = m[n] + 1)
      BY <1>1, <1>5, <1>22, <2>1, <2>2, <2>5
    <3>2. K > y /\ z = y + 1
      BY <1>5, <1>13, <3>1
    <3> HIDE DEF y, z, K, ss, dd
    <3>3. ss(z) <= ss(K) /\ dd(z) = dd(y) + 2 * g.sd
      <4>1. z <= K
        BY <1>12, <3>2
      <4> QED BY <1>12, <1>14, <1>15, <3>2, <4>1
    <3>4. -g.P < ss(K) - dd(z) + g.T /\ ss(K) - dd(z) + g.T < g.P
      BY <1>1, <1>17, <2>3, <2>4, <2>5, <3>3
    <3> QED BY <1>17, <1>18, <3>4
  <2>6. CASE ~(g.a0 < g.b0)
    <3>1. m[i] < m[n] /\ m[n - 1] = m[n] - 1
      BY <1>1, <1>5, <1>22, <2>1, <2>2, <2>6
    <3>2. K < y /\ z = y - 1
      BY <1>5, <1>13, <3>1
    <3> HIDE DEF y, z, K, ss, dd
    <3>3. ss(K) <= ss(z) /\ dd(z) = dd(y) - 2 * g.sd
      <4>1. K <= z
        BY <1>12, <3>2
      <4> QED BY <1>12, <1>14, <1>15, <3>2, <4>1
    <3>4. -g.P < ss(K) - dd(z) + g.T /\ ss(K) - dd(z) + g.T < g.P
      BY <1>1, <1>17, <2>3, <2>4, <2>6, <3>3
    <3> QED BY <1>17, <1>18, <3>4
  <2> QED BY <2>5, <2>6
<1> QED BY <1>1, <1>20, <1>21, <1>22

(* The same in exact arithmetic, where the windows are known.              *)
LEMMA ExactSplitIsSafe ==
  ASSUME ~Roundoff, NEW g, Aligned(g), g.low = {}, g.overlap, ~MovedBackwards(g),
         NEW m \in ScanOrders(g), NEW n \in 0 .. g.bn - 1, NEW i \in 0 .. n - 1,
         m[n] \in Int, m[n - 1] \in Int,
         NEW k \in 0 .. g.an - 1, g.a0 + k = g.b0 + m[i],
         Near(g, g.a0 + k, g.b0 + m[n])
  PROVE  Near(g, g.a0 + k, g.b0 + m[n - 1])
<1>1. ASSUME NEW b \in Int PROVE \E w : w \in FullWindows(g, b)
  <2> DEFINE lo == WindowLo(g, b)  hi == WindowHi(g, b)  l == 2 * g.sn
  <2>1. TruncDiv(lo, l) \in LoTruncs(g, b)
    <3>1. TruncDiv(lo, l) \in Truncs(lo, l) /\ ~(TruncDiv(lo, l) < TruncDiv(lo, l))
      <4>1. lo \in Int /\ l \in Int /\ l > 0
        BY WindowBounds
      <4>2. TruncDiv(lo, l) \in Int
        <5> HIDE DEF lo, l
        <5> QED BY <4>1, Quotient
      <4> HIDE DEF lo, l
      <4> QED BY <4>2 DEF Truncs
    <3> QED BY <3>1 DEF LoTruncs
  <2>2. TruncDiv(hi, l) \in HiTruncs(g, b)
    BY DEF HiTruncs, Truncs, Unsure
  <2> WITNESS [i0 |-> Greatest(TruncDiv(lo, l), 0), i1 |-> Least(TruncDiv(hi, l), g.an)]
  <2> QED BY <2>1, <2>2 DEF FullWindows
<1>2. PICK w \in FullWindows(g, m[n]), v \in FullWindows(g, m[n - 1]) : TRUE
  BY <1>1
<1>3. k \in Int
  OBVIOUS
<1>4. k \in w.i0 .. w.i1 - 1
  BY <1>3, ExactWindow
<1>5. k \in v.i0 .. v.i1 - 1
  BY <1>2, <1>4, SplitIsSafe
<1> QED BY <1>3, <1>5, ExactWindow

-----------------------------------------------------------------------------
(* Lines less than the number of line buffers apart have different ones.   *)
LEMMA SlotsDiffer ==
  ASSUME NEW n \in Nat, n > 0, NEW k \in Nat, NEW l \in Nat, k < l, l - k < n
  PROVE  k % n # l % n
<1> SUFFICES ASSUME k % n = l % n PROVE FALSE
  OBVIOUS
<1> DEFINE p == k \div n   q == l \div n
<1>1. p \in Int /\ q \in Int /\ k % n \in Int /\ k % n = k - n * p /\ l % n = l - n * q
  OBVIOUS
<1>2. n * p < n * q /\ n * q < n * p + n
  <2> HIDE DEF p, q
  <2>1. n * p \in Int /\ n * q \in Int
    BY <1>1
  <2> QED BY <1>1, <2>1
<1>3. p < q /\ q < p + 1
  <2>1. p \in Int /\ q \in Int /\ p + 1 \in Int /\ n * (p + 1) = n * p + n
    BY <1>1
  <2> HIDE DEF p, q
  <2> QED BY <1>2, <2>1, Scaled
<1> QED BY <1>1, <1>3

(* The clipped destination consists of the lines asked for that lie in the *)
(* picture, strictly within the support of the mapped source window.       *)
LEMMA ClippingExact ==
  ASSUME NEW r \in Request, ~NothingToDo(r), NEW y \in Int
  PROVE  y \in DstFirst(r) .. DstLast(r) <=>
           /\ y \in r.b0 .. r.b1
           /\ r.bh # UNDEF => 0 <= y /\ y < r.bh
           /\ 2 * r.sn * SrcFirst(r) + r.T - Spread(r) < 2 * r.sd * y
           /\ 2 * r.sd * y < 2 * r.sn * SrcLast(r) + r.T + Spread(r)
<1>1. /\ r.sn \in Nat \ {0} /\ r.sd \in Nat \ {0} /\ r.T \in Int
      /\ r.b0 \in Int /\ r.b1 \in Int /\ r.bh \in Int
      /\ SrcFirst(r) \in Int /\ SrcLast(r) \in Int /\ Spread(r) \in Int
  BY Clipping DEF Request, UNDEF
<1> DEFINE x == 2 * r.sn * SrcFirst(r) - Spread(r) + r.T
           z == 2 * r.sn * SrcLast(r) + Spread(r) + r.T
           n == 2 * r.sd
           f == x \div n
           c == CeilDiv(z, n)
<1>2. x \in Int /\ z \in Int /\ n \in Int /\ n > 0
  BY <1>1
<1>3. f \in Int /\ n * f <= x /\ x < n * f + n
  <2> HIDE DEF x, n
  <2> QED BY <1>2, DivBounds
<1>4. c \in Int /\ z <= n * c /\ n * c < z + n
  <2> HIDE DEF z, n
  <2> QED BY <1>2, CeilBounds
<1>5. DstFirst(r) = Greatest(IF r.bh = UNDEF THEN r.b0 ELSE Greatest(r.b0, 0), f + 1)
  BY DEF DstFirst, FloorDiv
<1>6. DstLast(r) = Least(IF r.bh = UNDEF THEN r.b1 ELSE Least(r.b1, r.bh - 1), c - 1)
  BY DEF DstLast
<1>7. f + 1 <= y <=> x < n * y
  <2> HIDE DEF x, z, n, f, c
  <2>1. /\ f < y => n * f + n <= n * y
        /\ y <= f => n * y <= n * f
    BY <1>2, <1>3, Scaled
  <2>2. n * y \in Int /\ n * f \in Int
    BY <1>2, <1>3
  <2> QED BY <1>2, <1>3, <2>1, <2>2
<1>8. y <= c - 1 <=> n * y < z
  <2> HIDE DEF x, z, n, f, c
  <2>1. /\ y < c => n * y + n <= n * c
        /\ c <= y => n * c <= n * y
    BY <1>2, <1>4, Scaled
  <2>2. n * y \in Int /\ n * c \in Int
    BY <1>2, <1>4
  <2> QED BY <1>2, <1>4, <2>1, <2>2
<1>9. y \in DstFirst(r) .. DstLast(r) <=>
        /\ y \in r.b0 .. r.b1
        /\ r.bh # UNDEF => 0 <= y /\ y < r.bh
        /\ f + 1 <= y /\ y <= c - 1
  <2> HIDE DEF f, c
  <2> QED BY <1>1, <1>3, <1>4, <1>5, <1>6 DEF Greatest, Least
<1>10. /\ x < n * y <=> 2 * r.sn * SrcFirst(r) + r.T - Spread(r) < 2 * r.sd * y
       /\ n * y < z <=> 2 * r.sd * y < 2 * r.sn * SrcLast(r) + r.T + Spread(r)
  <2> DEFINE p == 2 * r.sn * SrcFirst(r)  q == 2 * r.sn * SrcLast(r)
  <2>1. p \in Int /\ q \in Int
    BY <1>1
  <2>2. x = p + r.T - Spread(r) /\ z = q + r.T + Spread(r)
    <3> HIDE DEF p, q
    <3> QED BY <1>1, <2>1 DEF p, q
  <2> QED BY <2>2
<1> QED BY <1>7, <1>8, <1>9, <1>10

(* A filter that is not made narrower finds a source line under it for     *)
(* every line of the clipped destination.                                  *)
LEMMA SomeLineNear ==
  ASSUME NEW r \in Request, ~NothingToDo(r), NEW wid, NEW low,
         Aligned(Geometry(r, wid, low)), Geometry(r, wid, low).P = Spread(r),
         NEW y \in DstFirst(r) .. DstLast(r)
  PROVE  \E K \in SrcFirst(r) .. SrcLast(r) : Near(Geometry(r, wid, low), K, y)
<1> DEFINE g == Geometry(r, wid, low)
<1>1. /\ r.sn \in Nat \ {0} /\ r.sd \in Nat \ {0} /\ r.T \in Int
      /\ SrcFirst(r) \in Int /\ SrcLast(r) \in Int /\ SrcFirst(r) <= SrcLast(r)
      /\ Spread(r) \in Int /\ Spread(r) >= r.sn
      /\ DstFirst(r) \in Int /\ DstLast(r) \in Int
  BY Clipping DEF Request
<1>2. g.sn = r.sn /\ g.sd = r.sd /\ g.T = r.T /\ g.P = Spread(r)
  BY DEF Geometry
<1>3. y \in Int
  BY <1>1
<1> DEFINE n == 2 * r.sn
           C == 2 * r.sd * y - r.T
           K == (C + Spread(r)) \div n
<1>4. n \in Int /\ n > 0 /\ C \in Int
  BY <1>1, <1>3
<1>5. /\ 2 * r.sn * SrcFirst(r) + r.T - Spread(r) < 2 * r.sd * y
      /\ 2 * r.sd * y < 2 * r.sn * SrcLast(r) + r.T + Spread(r)
  BY <1>3, ClippingExact
<1>6. n * SrcFirst(r) < C + Spread(r) /\ C < n * SrcLast(r) + Spread(r)
  <2> DEFINE p == n * SrcFirst(r)  q == n * SrcLast(r)  t == 2 * r.sd * y
  <2>1. p \in Int /\ q \in Int /\ t \in Int
    BY <1>1, <1>3, <1>4
  <2>2. p + r.T - Spread(r) < t /\ t < q + r.T + Spread(r)
    BY <1>5
  <2>3. C = t - r.T
    OBVIOUS
  <2> HIDE DEF p, q, t, C, n
  <2>4. p < C + Spread(r) /\ C < q + Spread(r)
    BY <1>1, <2>1, <2>2, <2>3
  <2> QED BY <2>4 DEF p, q
<1>7. K \in Int /\ n * K <= C + Spread(r) /\ C + Spread(r) < n * K + n
  <2> HIDE DEF n, C
  <2> QED BY <1>1, <1>4, DivBounds
<1>8. \A L : Near(g, L, y) <=> C - Spread(r) < n * L /\ n * L <= C + Spread(r)
  BY <1>2 DEF Near
<1>9. /\ n = 2 * r.sn
      /\ \A L \in Int : n * L \in Int
  BY <1>1
<1> HIDE DEF n, C, K, g
<1>10. SrcFirst(r) <= K
  <2> SUFFICES ASSUME K < SrcFirst(r) PROVE FALSE
    BY <1>1, <1>7
  <2>1. n * K + n <= n * SrcFirst(r)
    BY <1>1, <1>4, <1>7, Scaled
  <2> QED BY <1>1, <1>4, <1>6, <1>7, <1>9, <2>1
<1>11. CASE K <= SrcLast(r)
  <2>1. Near(g, K, y)
    BY <1>1, <1>4, <1>7, <1>8, <1>9
  <2> QED BY <1>1, <1>7, <1>10, <1>11, <2>1 DEF g
<1>12. CASE SrcLast(r) < K
  <2>1. n * SrcLast(r) <= n * K
    BY <1>1, <1>4, <1>7, <1>12, Scaled
  <2>2. Near(g, SrcLast(r), y)
    BY <1>1, <1>4, <1>6, <1>7, <1>8, <1>9, <2>1
  <2> QED BY <1>1, <2>2 DEF g
<1> QED BY <1>1, <1>7, <1>11, <1>12

-----------------------------------------------------------------------------
(* simplify_filter looks at the offset relative to the clipped windows;    *)
(* what it finds out is whether the translation is a whole number of lines.*)
LEMMA CoercedExact ==
  ASSUME NEW r \in Request, ~NothingToDo(r)
  PROVE  Coerced(r) <=>
           /\ r.coerce
           /\ \/ Spread(r) = r.sn
              \/ r.cardinal /\ r.sn = r.sd /\ r.T % (2 * r.sd) = 0
<1>1. /\ r.sn \in Nat \ {0} /\ r.sd \in Nat \ {0} /\ r.T \in Int
      /\ SrcFirst(r) \in Int /\ DstFirst(r) \in Int
      /\ Spread(r) \in Int /\ Spread(r) >= r.sn /\ Offset(r) \in Int
  BY Clipping DEF Request
<1>2. Spread(r) <= r.sn <=> Spread(r) = r.sn
  BY <1>1
<1>3. ASSUME r.sn = r.sd
      PROVE  (Offset(r) - r.sd) % (2 * r.sd) = 0 <=> r.T % (2 * r.sd) = 0
  <2> DEFINE n == 2 * r.sd   c == DstFirst(r) - SrcFirst(r)   x == Offset(r) - r.sd
  <2>1. n \in Int /\ n > 0 /\ c \in Int /\ x \in Int
    BY <1>1
  <2>2. x = n * c - r.T
    BY <1>1, <1>3 DEF Offset
  <2>3. \A p \in Int : n * c - n * p = n * (c - p)
    BY <2>1
  <2>4. n * c \in Int /\ \A p \in Int : n * p \in Int
    BY <2>1
  <2> HIDE DEF n, c, x
  <2>5. ASSUME NEW p \in Int, x = n * p PROVE r.T = n * (c - p)
    <3>1. r.T = n * c - n * p
      BY <1>1, <2>1, <2>2, <2>4, <2>5
    <3> QED BY <2>3, <3>1
  <2>6. ASSUME NEW p \in Int, r.T = n * p PROVE x = n * (c - p)
    BY <2>2, <2>3, <2>6
  <2>7. \A p \in Int : c - p \in Int
    BY <2>1
  <2>8. x % n = 0 <=> \E p \in Int : x = n * p
    BY <2>1, Divisible
  <2>9. r.T % n = 0 <=> \E p \in Int : r.T = n * p
    BY <1>1, <2>1, Divisible
  <2>10. x % n = 0 <=> r.T % n = 0
    BY <2>5, <2>6, <2>7, <2>8, <2>9
  <2> QED BY <2>10 DEF x, n
<1> QED BY <1>2, <1>3 DEF Coerced

(* What zoom_continuous prepares is aligned, however it is rounded: the    *)
(* destination is clipped strictly within the support.                     *)
LEMMA GeometryAligned ==
  ASSUME NEW r \in Request, ~NothingToDo(r), NEW wid \in Widths(r),
         NEW low \in Roundings(Geometry(r, 1, {}))
  PROVE  Aligned(Geometry(r, wid, low))
<1> DEFINE g == Geometry(r, wid, low)
<1>1. /\ r.sn \in Nat \ {0} /\ r.sd \in Nat \ {0} /\ r.T \in Int
      /\ Spread(r) \in Int /\ Spread(r) >= r.sn
      /\ SrcFirst(r) \in Int /\ DstFirst(r) \in Int /\ DstLast(r) \in Int
      /\ DstFirst(r) <= DstLast(r)
  BY Clipping DEF Request
<1>2. wid \in Nat \ {0}
  BY WidthsPositive
<1>3. g \in GeometryType
  <2>1. low \in SUBSET Int
    <3>1. Geometry(r, 1, {}).bn = DstLast(r) - DstFirst(r) + 1
      BY DEF Geometry
    <3>2. 0 .. Geometry(r, 1, {}).bn - 1 \subseteq Int
      BY <1>1, <3>1
    <3> QED BY <3>2 DEF Roundings
  <2> QED BY <1>2, <2>1, GeometryTyped
<1>4. Spread(r) <= r.sn * wid
  BY <1>1, RoundedQuotients DEF Widths
<1>5. /\ g.sn = r.sn /\ g.sd = r.sd /\ g.T = r.T
      /\ g.U = Offset(r) /\ g.a0 = SrcFirst(r) /\ g.b0 = DstFirst(r)
      /\ g.P = IF Coerced(r) THEN r.sn ELSE Spread(r)
      /\ g.wid = IF Coerced(r) THEN 1 ELSE wid
  BY DEF Geometry
<1>6. g.U = 2 * g.sd * g.b0 - g.sn * (2 * g.a0 - 1) - g.T
  BY <1>5 DEF Offset
<1>7. g.sn <= g.P /\ g.P <= g.sn * g.wid
  BY <1>1, <1>4, <1>5
<1>8. ASSUME r.sn = r.sd, DstFirst(r) <= SrcFirst(r) PROVE r.T # g.P
  <2>1. r.T < Spread(r)
    <3> DEFINE p == 2 * r.sn * SrcFirst(r)   q == 2 * r.sd * DstFirst(r)
    <3>1. p + r.T - Spread(r) < q
      <4>1. DstFirst(r) \in DstFirst(r) .. DstLast(r)
        BY <1>1
      <4> QED BY <1>1, <4>1, ClippingExact
    <3>2. q <= p /\ p \in Int /\ q \in Int
      <4>1. 2 * r.sn \in Int /\ 2 * r.sn > 0
        BY <1>1
      <4> QED BY <1>1, <1>8, <4>1, Scaled
    <3> HIDE DEF p, q
    <3> QED BY <1>1, <3>1, <3>2
  <2>2. CASE Coerced(r) /\ Spread(r) # r.sn
    <3>1. r.T % (2 * r.sd) = 0
      BY <2>2, CoercedExact
    <3>2. PICK p \in Int : r.T = 2 * r.sd * p
      <4>1. 2 * r.sd \in Int /\ 2 * r.sd > 0
        BY <1>1
      <4> QED BY <1>1, <3>1, <4>1, Divisible
    <3>3. r.T # r.sd
      <4>1. p <= 0 => 2 * r.sd * p <= 2 * r.sd * 0
        BY <1>1, Scaled
      <4>2. 1 <= p => 2 * r.sd * 1 <= 2 * r.sd * p
        BY <1>1, Scaled
      <4>3. 2 * r.sd * p \in Int
        BY <1>1
      <4> QED BY <1>1, <3>2, <4>1, <4>2, <4>3
    <3> QED BY <1>5, <1>8, <2>2, <3>3
  <2> QED BY <1>1, <1>5, <2>1, <2>2
<1> QED BY <1>3, <1>5, <1>6, <1>7, <1>8 DEF Aligned

(* In exact arithmetic nothing is rounded down.                            *)
LEMMA ExactGeometry ==
  ASSUME ~Roundoff, NEW r \in Request, ~NothingToDo(r), NEW wid \in Widths(r)
  PROVE  /\ Roundings(Geometry(r, 1, {})) = {{}}
         /\ Aligned(Geometry(r, wid, {}))
<1>1. Roundings(Geometry(r, 1, {})) = {{}}
  BY DEF Roundings, Unsure
<1> QED BY <1>1, GeometryAligned

(* A filter that keeps its width finds source lines, or columns, under     *)
(* every line, or column, of the clipped destination.                      *)
LEMMA NoWindowEmpty ==
  ASSUME ~Roundoff, NEW r \in Request, ~NothingToDo(r), ~Coerced(r), NEW wid \in Widths(r),
         NEW b \in 0 .. DstLast(r) - DstFirst(r), NEW v \in FullWindows(Geometry(r, wid, {}), b)
  PROVE  v.i0 \in Nat /\ v.i1 \in Int /\ v.i0 < v.i1
<1> DEFINE g == Geometry(r, wid, {})
<1>1. Aligned(g)
  BY ExactGeometry
<1>2. /\ g.P = Spread(r) /\ g.a0 = SrcFirst(r) /\ g.b0 = DstFirst(r)
      /\ g.an = SrcLast(r) - SrcFirst(r) + 1
  BY DEF Geometry
<1>3. /\ SrcFirst(r) \in Int /\ SrcLast(r) \in Int /\ DstFirst(r) \in Int /\ DstLast(r) \in Int
  BY Clipping
<1>4. b \in Int /\ g.b0 + b \in DstFirst(r) .. DstLast(r)
  BY <1>2, <1>3
<1>5. PICK K \in SrcFirst(r) .. SrcLast(r) : Near(g, K, g.b0 + b)
  BY <1>1, <1>2, <1>4, SomeLineNear
<1>6. K - g.a0 \in 0 .. g.an - 1 /\ g.a0 + (K - g.a0) = K /\ K - g.a0 \in Int
  BY <1>2, <1>3
<1>7. v.i0 \in Nat /\ v.i1 \in Int /\ K - g.a0 \in v.i0 .. v.i1 - 1
  BY <1>1, <1>4, <1>5, <1>6, ExactWindow
<1> QED BY <1>7

(* The weight tables of the columns (zoom.c:346-350) end the process only  *)
(* for a filter made narrower, or with negative lobes.                     *)
LEMMA ColumnsGivenUp ==
  ASSUME ~Roundoff, NEW r \in Request, ~NothingToDo(r)
  PROVE  /\ "xnull" \in XTables(r) => Coerced(r)
         /\ "xoverflow" \in XTables(r) => r.lobes /\ ~Coerced(r)
<1> DEFINE wid == CeilDiv(Spread(r), r.sn)   g == Geometry(r, 1, {})
<1>1. wid \in Widths(r)
  BY DEF Widths, Ceils
<1>2. XTables(r) = ColumnTables(g)
  BY <1>1, ExactGeometry DEF XTables
<1>3. g.bn - 1 = DstLast(r) - DstFirst(r)
  BY Clipping DEF Geometry
<1>4. \A b : FullWindows(g, b) = FullWindows(Geometry(r, wid, {}), b)
  <2> DEFINE h == Geometry(r, wid, {})
  <2>1. /\ g.sn = h.sn /\ g.sd = h.sd /\ g.U = h.U /\ g.P = h.P
        /\ g.an = h.an /\ g.low = h.low
    BY DEF Geometry
  <2> HIDE DEF g, h
  <2>2. \A b : WindowLo(g, b) = WindowLo(h, b) /\ WindowHi(g, b) = WindowHi(h, b)
    BY <2>1 DEF WindowLo, WindowHi
  <2>3. \A b : LoTruncs(g, b) = LoTruncs(h, b) /\ HiTruncs(g, b) = HiTruncs(h, b)
    BY <2>1, <2>2 DEF LoTruncs, HiTruncs
  <2>4. \A b : FullWindows(g, b) = FullWindows(h, b)
    BY <2>1, <2>3 DEF FullWindows
  <2> QED BY <2>4 DEF h
<1>5. ASSUME "xnull" \in XTables(r), ~Coerced(r) PROVE FALSE
  <2>1. PICK b \in 0 .. g.bn - 1 : \E w \in FullWindows(g, b) : w.i0 >= w.i1
    BY <1>2, <1>5 DEF ColumnTables
  <2>2. PICK w \in FullWindows(Geometry(r, wid, {}), b) : w.i0 >= w.i1
    BY <1>4, <2>1
  <2>3. b \in 0 .. DstLast(r) - DstFirst(r)
    BY <1>3, <2>1
  <2>4. w.i0 \in Nat /\ w.i1 \in Int /\ w.i0 < w.i1
    BY <1>1, <1>5, <2>2, <2>3, NoWindowEmpty
  <2> QED BY <2>2, <2>4
<1>6. "xoverflow" \in XTables(r) => g.lobes
  BY <1>2 DEF ColumnTables
<1>7. g.lobes => r.lobes /\ ~Coerced(r)
  BY DEF Geometry
<1> QED BY <1>5, <1>6, <1>7

(* A cardinal filter of width F is zero at the lines a whole number of     *)
(* units from its center, from 1 to F of them.                             *)
LEMMA ZerosExact ==
  ASSUME NEW r \in Request, ~NothingToDo(r), NEW x \in Int, -Spread(r) <= x, x <= Spread(r)
  PROVE  LET unit == IF r.sn >= r.sd THEN 2 * r.sn ELSE 2 * r.sd
         IN  x # 0 /\ x % (2 * Greatest(r.sn, r.sd)) = 0
               <=> \E n \in 1 .. r.F : x \in {n * unit, -n * unit}
<1> DEFINE unit == IF r.sn >= r.sd THEN 2 * r.sn ELSE 2 * r.sd
           M == Greatest(r.sn, r.sd)
<1>1. /\ r.sn \in Nat \ {0} /\ r.sd \in Nat \ {0} /\ r.F \in Nat /\ Spread(r) \in Int
  BY Clipping DEF Request
<1>2. M \in Int /\ M > 0 /\ M >= r.sn /\ unit = 2 * M
  BY <1>1 DEF Greatest
<1>3. Spread(r) = Greatest(r.sn, r.F * M)
  BY DEF Spread
<1>4. 2 * M \in Int /\ 2 * M > 0
  BY <1>2
<1>5. \A n \in Int : n * unit = (2 * M) * n /\ -n * unit = (2 * M) * (-n) /\ (2 * M) * n = M * (2 * n)
  <2> HIDE DEF M
  <2> QED BY <1>2
<1> HIDE DEF M, unit
<1>6. ASSUME NEW p \in Int, x = (2 * M) * p, x # 0
      PROVE  p # 0 /\ p <= r.F /\ -p <= r.F
  <2>1. p # 0
    BY <1>2, <1>6
  <2>2. \A n \in Nat : n > 0 /\ M * (2 * n) <= Spread(r) => n <= r.F
    <3> SUFFICES ASSUME NEW n \in Nat, n > 0, M * (2 * n) <= Spread(r) PROVE n <= r.F
      OBVIOUS
    <3>1. r.F * M \in Int /\ r.F * M = M * r.F
      BY <1>1, <1>2
    <3>2. M * 1 < M * (2 * n)
      BY <1>2, Scaled
    <3>3. M * (2 * n) <= M * r.F
      BY <1>1, <1>2, <1>3, <3>1, <3>2 DEF Greatest
    <3>4. 2 * n <= r.F
      BY <1>1, <1>2, <3>3, Scaled
    <3> QED BY <1>1, <3>4
  <2>3. CASE p > 0
    <3>1. M * (2 * p) <= Spread(r)
      BY <1>5, <1>6
    <3>2. p <= r.F
      BY <2>2, <2>3, <3>1
    <3> QED BY <1>1, <2>1, <2>3, <3>2
  <2>4. CASE p < 0
    <3>1. -p \in Nat /\ -p > 0
      BY <2>4
    <3>2. M * (2 * (-p)) = -x
      BY <1>2, <1>6
    <3>3. M * (2 * (-p)) <= Spread(r)
      BY <1>1, <3>2
    <3>4. -p <= r.F
      BY <2>2, <3>1, <3>3
    <3> QED BY <1>1, <2>1, <2>4, <3>4
  <2> QED BY <2>1, <2>3, <2>4
<1>7. x % (2 * M) = 0 <=> \E p \in Int : x = (2 * M) * p
  BY <1>4, Divisible
<1>8. ASSUME x # 0, NEW p \in Int, x = (2 * M) * p
      PROVE  \E n \in 1 .. r.F : x \in {n * unit, -n * unit}
  <2>1. p # 0 /\ p <= r.F /\ -p <= r.F
    BY <1>6, <1>8
  <2>2. CASE p > 0
    <3>1. p \in 1 .. r.F /\ x = p * unit
      BY <1>1, <1>5, <1>8, <2>1, <2>2
    <3> QED BY <3>1
  <2>3. CASE p < 0
    <3>1. -p \in 1 .. r.F /\ -(-p) = p
      BY <1>1, <2>1, <2>3
    <3>2. -(-p) * unit = (2 * M) * (-(-p))
      BY <1>5, <3>1
    <3>3. x = -(-p) * unit
      BY <1>8, <3>1, <3>2
    <3> QED BY <3>1, <3>3
  <2> QED BY <2>1, <2>2, <2>3
<1>9. ASSUME NEW n \in 1 .. r.F, x \in {n * unit, -n * unit}
      PROVE  x # 0 /\ \E p \in Int : x = (2 * M) * p
  <2>1. n \in Int /\ -n \in Int /\ n > 0
    BY <1>1
  <2>2. x = (2 * M) * n \/ x = (2 * M) * (-n)
    BY <1>5, <1>9, <2>1
  <2>3. (2 * M) * n > 0 /\ (2 * M) * (-n) = -((2 * M) * n) /\ (2 * M) * n \in Int
    BY <1>4, <2>1
  <2> QED BY <2>1, <2>2, <2>3
<1>10. x # 0 /\ x % (2 * M) = 0 <=> \E n \in 1 .. r.F : x \in {n * unit, -n * unit}
  BY <1>7, <1>8, <1>9
<1> QED BY <1>10 DEF M, unit

-----------------------------------------------------------------------------
(***************************************************************************)
(* zoom() maps the source window onto the destination window exactly.      *)
(***************************************************************************)
FromZoom(r) ==
  /\ r.a0 <= r.a1 /\ r.b0 <= r.b1
  /\ [sn |-> r.sn, sd |-> r.sd, T |-> r.T] = WindowMap(r.a0, r.a1, r.b0, r.b1)

(* A window that leaves the source picture is cut off, and the rest is no  *)
(* longer mapped onto the destination window: the zeros of a wide cardinal *)
(* filter (catrom) may be all that a line beyond the rest finds.           *)
FilterFinds(r) == r.cardinal /\ r.F > 2 => 0 <= r.a0 /\ r.a1 < r.ah

(* The mapping zoom() computes from its windows has integer coefficients   *)
(* (zoom.c:676-679).                                                       *)
LEMMA ZoomMapping ==
  ASSUME NEW r \in Request, FromZoom(r)
  PROVE  /\ r.sn = r.b1 - r.b0 + 1 /\ r.sd = r.a1 - r.a0 + 1
         /\ r.T = r.sd * (2 * r.b0 - 1) - r.sn * (2 * r.a0 - 1)
         /\ r.a0 \in Int /\ r.a1 \in Int /\ r.b0 \in Int /\ r.b1 \in Int
         /\ r.sn \in Int /\ r.sn > 0 /\ r.sd \in Int /\ r.sd > 0 /\ r.T \in Int
BY DEF Request, FromZoom, WindowMap

(* Moved up, the clipped destination window starts above the source window *)
(* or at it; moved down by more than the filter supports, below it.        *)
LEMMA ZoomNotBackwards ==
  ASSUME NEW r \in Request, ~NothingToDo(r), FromZoom(r), FilterFinds(r), NEW wid
  PROVE  ~MovedBackwards(Geometry(r, wid, {}))
<1> DEFINE g == Geometry(r, wid, {})
<1>1. /\ r.sn = r.b1 - r.b0 + 1 /\ r.sd = r.a1 - r.a0 + 1
      /\ r.T = r.sd * (2 * r.b0 - 1) - r.sn * (2 * r.a0 - 1)
      /\ r.a0 \in Int /\ r.a1 \in Int /\ r.b0 \in Int /\ r.b1 \in Int
      /\ r.sn \in Int /\ r.sn > 0 /\ r.sd \in Int /\ r.sd > 0 /\ r.T \in Int
  BY ZoomMapping
<1>2. /\ SrcFirst(r) \in Nat /\ SrcLast(r) \in Int /\ DstFirst(r) \in Int /\ DstLast(r) \in Int
      /\ Spread(r) \in Int /\ Spread(r) >= r.sn /\ DstFirst(r) <= DstLast(r)
  BY Clipping
<1>3. /\ g.sn = r.sn /\ g.sd = r.sd /\ g.T = r.T /\ g.a0 = SrcFirst(r) /\ g.b0 = DstFirst(r)
      /\ g.P = IF Coerced(r) THEN r.sn ELSE Spread(r)
  BY DEF Geometry
<1>4. SUFFICES ASSUME r.sn = r.sd,
                      IF SrcFirst(r) < DstFirst(r) THEN r.T <= -g.P ELSE r.T > g.P
               PROVE  FALSE
  BY <1>3 DEF MovedBackwards
<1> DEFINE n == r.sn   d == r.b0 - r.a0   A == SrcFirst(r)   B == DstFirst(r)
<1>5. r.T = 2 * n * d /\ n \in Int /\ n > 0 /\ d \in Int
  BY <1>1, <1>4
<1>6. g.P \in Int /\ g.P >= n
  BY <1>2, <1>3, <1>5
<1>7. A >= r.a0
  BY <1>1 DEF SrcFirst, Greatest
<1>8. /\ B >= r.b0 /\ B <= r.b1 /\ (r.bh # UNDEF => B < r.bh)
      /\ 2 * n * A + r.T - Spread(r) < 2 * n * B
      /\ 2 * n * B < 2 * n * SrcLast(r) + r.T + Spread(r)
  <2>1. B \in DstFirst(r) .. DstLast(r) /\ B \in Int
    BY <1>2
  <2> QED BY <1>1, <1>4, <2>1, ClippingExact
<1>9. 2 * n \in Int /\ 2 * n > 0 /\ A \in Nat /\ B \in Int
  BY <1>2, <1>5
<1>10. CASE A < B
  <2> DEFINE y == B - 1
  <2>1. y \in Int /\ A <= y /\ y < B
    BY <1>9, <1>10
  <2>2. r.T < 0 /\ d < 0
    <3>1. r.T < 0
      BY <1>1, <1>4, <1>5, <1>6, <1>10
    <3>2. d >= 0 => 2 * n * 0 <= 2 * n * d
      BY <1>5, <1>9, Scaled
    <3> QED BY <1>5, <3>1, <3>2
  <2>3. /\ 2 * n * A <= 2 * n * y /\ 2 * n * y < 2 * n * B
        /\ 2 * n * A \in Int /\ 2 * n * B \in Int /\ 2 * n * y \in Int
        /\ 2 * n * SrcLast(r) \in Int
    <3> HIDE DEF n, A, B, y
    <3> QED BY <1>2, <1>9, <2>1, Scaled
  <2>4. 2 * n * A + r.T - Spread(r) < 2 * n * y
    <3> HIDE DEF n, A, B, y
    <3> QED BY <1>1, <1>2, <1>5, <2>2, <2>3 DEF n
  <2>5. 2 * n * y < 2 * n * SrcLast(r) + r.T + Spread(r)
    <3> HIDE DEF n, A, B, y
    <3> QED BY <1>1, <1>2, <1>8, <2>3
  <2>6. /\ y \in r.b0 .. r.b1 /\ (r.bh # UNDEF => 0 <= y /\ y < r.bh)
    <3>1. r.bh \in Int
      BY DEF Request, UNDEF
    <3>2. y >= r.a0 /\ y >= r.b0
      BY <1>1, <1>7, <1>9, <2>1, <2>2
    <3> HIDE DEF y, A, B
    <3> QED BY <1>1, <1>8, <1>9, <2>1, <3>1, <3>2
  <2>7. y \in DstFirst(r) .. DstLast(r)
    <3> HIDE DEF y
    <3> QED BY <1>4, <2>1, <2>4, <2>5, <2>6, ClippingExact DEF n, A
  <2> QED BY <1>2, <2>1, <2>7
<1>11. CASE ~(A < B)
  <2>1. r.T > g.P
    BY <1>4, <1>11
  <2>2. d > 0
    <3>1. r.T > 0
      BY <1>1, <1>5, <1>6, <2>1
    <3>2. d <= 0 => 2 * n * d <= 2 * n * 0
      BY <1>5, <1>9, Scaled
    <3> QED BY <1>5, <3>1, <3>2
  <2>3. CASE 0 <= r.a0
    <3>1. A = r.a0
      BY <1>1, <2>3 DEF SrcFirst, Greatest
    <3> QED BY <1>1, <1>8, <1>9, <1>11, <2>2, <3>1
  <2>4. CASE ~r.cardinal
    <3>1. g.P = Spread(r)
      <4>1. Coerced(r) => Spread(r) = r.sn
        BY <2>4, CoercedExact
      <4> QED BY <1>3, <4>1
    <3>2. 2 * n * A < 2 * n * B
      <4>1. 2 * n * A \in Int /\ 2 * n * B \in Int
        BY <1>9
      <4> HIDE DEF n, A, B
      <4> QED BY <1>1, <1>2, <1>8, <2>1, <3>1, <4>1
    <3>3. A < B
      <4> HIDE DEF n, A, B
      <4> QED BY <1>9, <3>2, Scaled
    <3> QED BY <1>11, <3>3
  <2>5. CASE r.F <= 2
    <3>1. Spread(r) <= 2 * n
      <4>1. r.F \in {0, 1, 2}
        BY <2>5 DEF Request
      <4> QED BY <1>1, <1>4, <4>1 DEF Spread, Greatest
    <3>2. 2 * n * d = 2 * n + 2 * n * (d - 1) /\ 2 * n * 0 <= 2 * n * (d - 1)
          /\ 2 * n * (d - 1) \in Int /\ 2 * n * 0 = 0
      <4>1. d - 1 \in Int /\ 0 <= d - 1
        BY <1>5, <2>2
      <4>2. 2 * n * 0 <= 2 * n * (d - 1)
        <5> HIDE DEF n, d
        <5> QED BY <1>9, <4>1, Scaled
      <4>3. 2 * n * d = 2 * n + 2 * n * (d - 1) /\ 2 * n * (d - 1) \in Int
        <5> HIDE DEF n, d
        <5> QED BY <1>5
      <4> QED BY <1>5, <4>2, <4>3
    <3>3. 2 * n * A < 2 * n * B
      <4>1. 2 * n * A \in Int /\ 2 * n * B \in Int
        BY <1>9
      <4> HIDE DEF n, A, B, d
      <4> QED BY <1>2, <1>5, <1>8, <3>1, <3>2, <4>1
    <3>4. A < B
      <4> HIDE DEF n, A, B
      <4> QED BY <1>9, <3>3, Scaled
    <3> QED BY <1>11, <3>4
  <2>6. 0 <= r.a0 \/ ~r.cardinal \/ r.F <= 2
    BY DEF FilterFinds, Request
  <2> QED BY <2>3, <2>4, <2>5, <2>6
<1> QED BY <1>10, <1>11

-----------------------------------------------------------------------------
(***************************************************************************)
(* The windows of Resample, which is stated in coordinates of the pictures,*)
(* are those of the code.                                                  *)
(***************************************************************************)
LEMMA IdealLines ==
  ASSUME NEW r \in Request, ~NothingToDo(r), NEW wid, NEW low
  PROVE  /\ Ideal!SourceLines(r) = SrcFirst(r) .. SrcLast(r)
         /\ Ideal!FullSpread(r) = Spread(r)
         /\ Ideal!SamplesPoints(r) <=> Coerced(r)
         /\ Ideal!UsedSpread(r) = Geometry(r, wid, low).P
         /\ Ideal!DestLines(r) = DstFirst(r) .. DstLast(r)
<1>1. /\ r.sn \in Nat \ {0} /\ r.sd \in Nat \ {0} /\ r.T \in Int /\ r.F \in Nat
      /\ r.a0 \in Int /\ r.a1 \in Int /\ r.b0 \in Int /\ r.b1 \in Int /\ r.ah \in Nat
      /\ SrcFirst(r) \in Int /\ SrcLast(r) \in Int /\ SrcFirst(r) <= SrcLast(r)
      /\ DstFirst(r) \in Int /\ DstLast(r) \in Int
      /\ Spread(r) \in Int /\ Spread(r) >= r.sn
  BY Clipping DEF Request
<1>2. Ideal!SourceLines(r) = SrcFirst(r) .. SrcLast(r)
  BY <1>1 DEF Ideal!SourceLines, SrcFirst, SrcLast, Greatest, Least
<1>3. Ideal!FullSpread(r) = Spread(r)
  <2>1. r.F * r.sn \in Int /\ r.F * r.sd \in Int
    BY <1>1
  <2>2. r.F * Greatest(r.sn, r.sd) = IF r.sn >= r.sd THEN r.F * r.sn ELSE r.F * r.sd
    BY <1>1 DEF Greatest
  <2> QED BY <1>1, <2>1, <2>2 DEF Ideal!FullSpread, Spread, Greatest
<1>4. Ideal!SamplesPoints(r) <=> Coerced(r)
  BY <1>1, <1>3, CoercedExact DEF Ideal!SamplesPoints
<1>5. Ideal!UsedSpread(r) = Geometry(r, wid, low).P
  BY <1>3, <1>4 DEF Ideal!UsedSpread, Geometry
<1>6. ASSUME NEW y
      PROVE  y \in Ideal!DestLines(r) <=> y \in DstFirst(r) .. DstLast(r)
  <2>1. y \in Ideal!DestLines(r) <=>
          /\ y \in r.b0 .. r.b1
          /\ r.bh # UNDEF => 0 <= y /\ y < r.bh
          /\ 2 * r.sn * SrcFirst(r) + r.T - Spread(r) < 2 * r.sd * y
          /\ 2 * r.sd * y < 2 * r.sn * SrcLast(r) + r.T + Spread(r)
    <3>1. SrcFirst(r) \in SrcFirst(r) .. SrcLast(r) /\ SrcLast(r) \in SrcFirst(r) .. SrcLast(r)
      BY <1>1
    <3>2. \A first, last \in SrcFirst(r) .. SrcLast(r) :
             (\A k \in SrcFirst(r) .. SrcLast(r) : first <= k /\ k <= last)
                <=> first = SrcFirst(r) /\ last = SrcLast(r)
      BY <1>1, <3>1
    <3>3. y \in Ideal!DestLines(r) <=>
            /\ y \in r.b0 .. r.b1
            /\ r.bh # UNDEF => 0 <= y /\ y < r.bh
            /\ \E first, last \in SrcFirst(r) .. SrcLast(r) :
                 /\ \A k \in SrcFirst(r) .. SrcLast(r) : first <= k /\ k <= last
                 /\ 2 * r.sn * first + r.T - Spread(r) < 2 * r.sd * y
                 /\ 2 * r.sd * y < 2 * r.sn * last + r.T + Spread(r)
      <4>1. y \in Ideal!DestLines(r) <=>
              /\ y \in r.b0 .. r.b1
              /\ r.sn > 0
              /\ r.bh # UNDEF => 0 <= y /\ y < r.bh
              /\ \E first, last \in Ideal!SourceLines(r) :
                   /\ \A k \in Ideal!SourceLines(r) : first <= k /\ k <= last
                   /\ 2 * r.sn * first + r.T - Ideal!FullSpread(r) < 2 * r.sd * y
                   /\ 2 * r.sd * y < 2 * r.sn * last + r.T + Ideal!FullSpread(r)
        BY Zenon DEF Ideal!DestLines
      <4>2. r.sn > 0
        BY <1>1
      <4> QED BY <1>2, <1>3, <4>1, <4>2, Zenon
    <3> QED BY <3>1, <3>2, <3>3
  <2>2. y \in r.b0 .. r.b1 \/ y \in DstFirst(r) .. DstLast(r) => y \in Int
    BY <1>1
  <2>3. y \in Int =>
          (y \in DstFirst(r) .. DstLast(r) <=>
             /\ y \in r.b0 .. r.b1
             /\ r.bh # UNDEF => 0 <= y /\ y < r.bh
             /\ 2 * r.sn * SrcFirst(r) + r.T - Spread(r) < 2 * r.sd * y
             /\ 2 * r.sd * y < 2 * r.sn * SrcLast(r) + r.T + Spread(r))
    BY ClippingExact
  <2> QED BY <2>1, <2>2, <2>3
<1>7. Ideal!DestLines(r) = DstFirst(r) .. DstLast(r)
  BY <1>6
<1> QED BY <1>2, <1>3, <1>4, <1>5, <1>7
=============================================================================
