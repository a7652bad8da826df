-------------------------- MODULE WeightTableProofs --------------------------
(***************************************************************************)
(* A table of weights stays within the source and within the memory that   *)
(* was allocated for it, for all filters, centers, scales and lengths: the *)
(* truncations of the range of the filter never give more lines than its   *)
(* support, rounded up, has.                                               *)
(***************************************************************************)
EXTENDS WeightTable, SequenceTheorems, WellFoundedInduction, TLAPS

(* Division that truncates towards zero, as a cast to int does.            *)
LEMMA Truncated ==
  ASSUME NEW x \in Int, NEW n \in Nat \ {0}
  PROVE  /\ TruncDiv(x, n) \in Int
         /\ x >= 0 => /\ 0 <= TruncDiv(x, n)
                      /\ n * TruncDiv(x, n) <= x
                      /\ x < n * TruncDiv(x, n) + n
         /\ x < 0 => TruncDiv(x, n) <= 0
<1>1. ASSUME NEW y \in Nat
      PROVE  /\ y \div n \in Int /\ 0 <= y \div n
             /\ n * (y \div n) <= y /\ y < n * (y \div n) + n
  OBVIOUS
<1>2. CASE x >= 0
  BY <1>1, <1>2 DEF TruncDiv
<1>3. CASE x < 0
  <2>1. -x \in Nat
    BY <1>3
  <2>2. (-x) \div n \in Int /\ 0 <= (-x) \div n
    BY <1>1, <2>1
  <2> QED
    BY <1>3, <2>2 DEF TruncDiv
<1> QED
  BY <1>2, <1>3

(* The least number of a set.                                              *)
LEMMA LeastOf ==
  ASSUME NEW T, T \subseteq Nat, T # {}
  PROVE  \E x \in T : \A y \in T : x <= y
<1> DEFINE R == OpToRel(<, Nat)
<1>1. IsWellFoundedOn(R, Nat)
  BY NatLessThanWellFounded
<1>2. \E x \in T : \A y \in T : ~ (<<y, x>> \in R)
  <2> HIDE DEF R
  <2> QED
    BY <1>1, WFMin
<1>3. PICK x \in T : \A y \in T : ~ (<<y, x>> \in R)
  <2> HIDE DEF R
  <2> QED
    BY <1>2
<1>4. \A y \in T : ~ (y < x)
  BY <1>3 DEF OpToRel
<1> HIDE DEF R
<1>5. \A y \in T : x <= y
  BY <1>4
<1> QED
  BY <1>5

(* u holds the sums of f[m] to f[n-1].                                     *)
Adds(u, f, m, n) == u[m] = 0 /\ \A k \in m .. n - 1 : u[k + 1] = u[k] + f[k]
Sums(u, f, m, n) == u \in [m .. n -> Int] /\ Adds(u, f, m, n)

(* There are such sums: the shortest stretch without them could be         *)
(* extended.                                                               *)
LEMMA SumsExist ==
  ASSUME NEW m \in Int, NEW n \in Int, m <= n, NEW f \in [m .. n - 1 -> Int]
  PROVE  \E u : Sums(u, f, m, n)
<1> DEFINE Without == {d \in 0 .. n - m : ~ \E u : Sums(u, f, m, m + d)}
<1>1. Without = {}
  <2> SUFFICES ASSUME Without # {} PROVE FALSE
    OBVIOUS
  <2>1. PICK d \in Without : \A e \in Without : d <= e
    <3>1. Without \subseteq Nat
      OBVIOUS
    <3> HIDE DEF Without
    <3> QED
      BY <3>1, LeastOf
  <2>2. d \in 0 .. n - m /\ ~ \E u : Sums(u, f, m, m + d)
    BY <2>1
  <2>3. d # 0
    <3>1. Sums([k \in m .. m |-> 0], f, m, m)
      BY DEF Sums, Adds
    <3>2. m + 0 = m
      OBVIOUS
    <3> QED
      BY <2>2, <3>1, <3>2
  <2>4. d - 1 \in 0 .. n - m /\ ~ (d <= d - 1)
    BY <2>2, <2>3
  <2>5. d - 1 \notin Without
    <3> HIDE DEF Without
    <3> QED
      BY <2>1, <2>4
  <2>6. PICK u : Sums(u, f, m, m + (d - 1))
    BY <2>4, <2>5
  <2> DEFINE l == m + (d - 1)
             v == [k \in m .. m + d |-> IF k = m + d THEN u[l] + f[l] ELSE u[k]]
  <2>7. l \in Int /\ m <= l /\ l <= n - 1 /\ m + d = l + 1
    BY <2>2, <2>3
  <2>8. u \in [m .. l -> Int] /\ u[m] = 0 /\ \A k \in m .. l - 1 : u[k + 1] = u[k] + f[k]
    BY <2>6 DEF Sums, Adds
  <2> HIDE DEF l
  <2>9. v = [k \in m .. l + 1 |-> IF k = l + 1 THEN u[l] + f[l] ELSE u[k]]
    BY <2>7
  <2> HIDE DEF v
  <2>10. Sums(v, f, m, l + 1)
    <3>1. u[l] \in Int /\ f[l] \in Int /\ u[l] + f[l] \in Int
      BY <2>7, <2>8
    <3>2. v \in [m .. l + 1 -> Int]
      BY <2>7, <2>8, <2>9, <3>1
    <3>3. v[m] = 0
      BY <2>7, <2>8, <2>9
    <3>4. ASSUME NEW k \in m .. (l + 1) - 1 PROVE v[k + 1] = v[k] + f[k]
      <4>1. k \in m .. l /\ k + 1 \in m .. l + 1 /\ k \in m .. l + 1
        BY <2>7
      <4>2. CASE k = l
        BY <2>7, <2>9, <4>1, <4>2
      <4>3. CASE k # l
        BY <2>7, <2>8, <2>9, <4>1, <4>3
      <4> QED
        BY <4>2, <4>3
    <3> QED
      BY <3>2, <3>3, <3>4 DEF Sums, Adds
  <2> QED
    BY <2>2, <2>7, <2>10
<1>2. n - m \in 0 .. n - m /\ m + (n - m) = n
  OBVIOUS
<1> QED
  BY <1>1, <1>2

(* There is only one: the first difference could not have come about.      *)
LEMMA SumsUnique ==
  ASSUME NEW m \in Int, NEW n \in Int, m <= n, NEW f,
         NEW u, Adds(u, f, m, n), NEW v, Adds(v, f, m, n)
  PROVE  \A k \in m .. n : u[k] = v[k]
<1> DEFINE Differ == {d \in 0 .. n - m : u[m + d] # v[m + d]}
<1>1. Differ = {}
  <2> SUFFICES ASSUME Differ # {} PROVE FALSE
    OBVIOUS
  <2>1. PICK d \in Differ : \A e \in Differ : d <= e
    <3>1. Differ \subseteq Nat
      OBVIOUS
    <3> HIDE DEF Differ
    <3> QED
      BY <3>1, LeastOf
  <2>2. d \in 0 .. n - m /\ u[m + d] # v[m + d]
    BY <2>1
  <2>3. d # 0
    BY <2>2 DEF Adds
  <2>4. d - 1 \in 0 .. n - m /\ ~ (d <= d - 1)
    BY <2>2, <2>3
  <2>5. d - 1 \notin Differ
    <3> HIDE DEF Differ
    <3> QED
      BY <2>1, <2>4
  <2>6. u[m + (d - 1)] = v[m + (d - 1)]
    BY <2>4, <2>5
  <2>7. m + (d - 1) \in m .. n - 1 /\ (m + (d - 1)) + 1 = m + d
    BY <2>2, <2>3
  <2> QED
    BY <2>2, <2>6, <2>7 DEF Adds
<1>2. ASSUME NEW k \in m .. n PROVE k - m \in 0 .. n - m /\ m + (k - m) = k
  OBVIOUS
<1> QED
  BY <1>1, <1>2

(* SumsFrom of WeightTable gives them.                                     *)
LEMMA SumsFromIs ==
  ASSUME NEW m \in Int, NEW n \in Int, m <= n, NEW f \in [m .. n - 1 -> Int]
  PROVE  Sums(SumsFrom(f, m, n), f, m, n)
<1> DEFINE Is(u) == u = [k \in m .. n |-> IF k = m THEN 0 ELSE u[k - 1] + f[k - 1]]
           w == CHOOSE u : Is(u)
<1>1. PICK u : Sums(u, f, m, n)
  BY SumsExist
<1>2. Is(u)
  <2>1. ASSUME NEW k \in m .. n PROVE u[k] = IF k = m THEN 0 ELSE u[k - 1] + f[k - 1]
    <3>1. CASE k = m
      BY <1>1, <3>1 DEF Sums, Adds
    <3>2. CASE k # m
      <4>1. k - 1 \in m .. n - 1 /\ (k - 1) + 1 = k
        BY <3>2
      <4> QED
        BY <1>1, <3>2, <4>1 DEF Sums, Adds
    <3> QED
      BY <3>1, <3>2
  <2>2. u \in [m .. n -> Int]
    BY <1>1 DEF Sums, Adds
  <2> QED
    BY <2>1, <2>2
<1>3. Is(w)
  BY <1>2
<1>4. SumsFrom(f, m, n) = w
  BY DEF SumsFrom
<1>5. Sums(w, f, m, n)
  <2> HIDE DEF w
  <2>1. ASSUME NEW k \in m .. n PROVE w[k] = IF k = m THEN 0 ELSE w[k - 1] + f[k - 1]
    BY <1>3
  <2>2. ASSUME NEW k \in m .. n - 1 PROVE w[k + 1] = w[k] + f[k]
    <3>1. k + 1 \in m .. n /\ k + 1 # m /\ (k + 1) - 1 = k
      OBVIOUS
    <3> QED
      BY <2>1, <3>1
  <2>3. w[m] = 0
    BY <2>1
  <2>4. DOMAIN w = m .. n /\ w = [k \in m .. n |-> w[k]]
    BY <1>3
  <2>5. \A k \in m .. n : w[k] = u[k]
    <3>1. Adds(w, f, m, n) /\ Adds(u, f, m, n)
      BY <1>1, <2>2, <2>3 DEF Sums, Adds
    <3> QED
      BY <3>1, SumsUnique
  <2>6. w \in [m .. n -> Int]
    BY <1>1, <2>4, <2>5 DEF Sums, Adds
  <2> QED
    BY <2>2, <2>3, <2>6 DEF Sums, Adds
<1> QED
  BY <1>4, <1>5

(* Every filter has a support.                                             *)
LEMMA Supported ==
  ASSUME call \in Calls
  PROVE  Spread4 \in Nat /\ 2 <= Spread4
<1>1. call.filter \in Filters /\ call.scale2 \in Nat
  BY WeightAssumption
<1>2. \A f \in Filters : Width[f] \in Nat
  BY DEF Filters, Width
<1>3. call.scale2 * Width[call.filter] \in Nat
  BY <1>1, <1>2
<1> QED
  BY <1>3 DEF Spread4

(* The filter reaches no more lines of the source than were allocated for  *)
(* (zoom.c:81, 326, 756-759).                                              *)
LEMMA RangeFits ==
  ASSUME call \in Calls
  PROVE  /\ FilterRange.i0 \in Int /\ FilterRange.i1 \in Int
         /\ 0 <= FilterRange.i0 /\ FilterRange.i1 <= call.len
         /\ wid \in Int /\ 1 <= wid
         /\ FilterRange.i1 - FilterRange.i0 <= wid
<1> DEFINE s == Spread4
           a == 4 * call.cen + 2 * Grid
           n == 4 * Grid
           lo == 4 * call.cen + Grid * (-s) + 2 * Grid
           hi == 4 * call.cen + Grid * s + 2 * Grid
           L == TruncDiv(lo, n)
           U == TruncDiv(hi, n)
<1>1. /\ Grid \in Nat \ {0} /\ call.cen \in Int /\ call.len \in Nat
      /\ s \in Nat /\ 2 <= s
  BY WeightAssumption, Supported
<1>2. wid \in Int /\ s <= 2 * wid
  BY <1>1 DEF wid
<1>3. /\ FilterRange.i0 = IF L < 0 THEN 0 ELSE L
      /\ FilterRange.i1 = IF U > call.len THEN call.len ELSE U
  BY DEF FilterRange, RangeEnd
<1> HIDE DEF s
<1>4. lo \in Int /\ hi \in Int /\ n \in Nat \ {0} /\ hi = lo + 2 * (Grid * s)
  BY <1>1
<1>5. Grid * s \in Int
  BY <1>1
<1> HIDE DEF lo, hi, n
<1>6. /\ L \in Int /\ U \in Int
      /\ lo >= 0 => 0 <= L /\ lo < n * L + n
      /\ hi >= 0 => 0 <= U /\ n * U <= hi
      /\ hi < 0 => U <= 0
  BY <1>4, Truncated
<1> HIDE DEF L, U
<1>7. n * U \in Int /\ n * L \in Int
  BY <1>4, <1>6
<1>8. CASE hi < 0
  BY <1>1, <1>2, <1>3, <1>6, <1>8
<1>9. CASE hi >= 0 /\ lo >= 0
  <2>1. n * U - n * L < 2 * (Grid * s) + n
    BY <1>4, <1>5, <1>6, <1>7, <1>9
  <2>2. n * U - n * L = 2 * (Grid * (2 * (U - L))) /\ 2 * (Grid * s) + n = 2 * (Grid * (s + 2))
    BY <1>1, <1>6 DEF n
  <2>3. Grid * (2 * (U - L)) < Grid * (s + 2)
    <3>1. Grid * (2 * (U - L)) \in Int /\ Grid * (s + 2) \in Int
      BY <1>1, <1>6
    <3> QED
      BY <2>1, <2>2, <3>1
  <2>4. 2 * (U - L) < s + 2
    <3>1. \A y, z \in Int : Grid * y < Grid * z => y < z
      BY <1>1
    <3> QED
      BY <1>1, <1>6, <2>3, <3>1
  <2> QED
    BY <1>1, <1>2, <1>3, <1>6, <1>9, <2>4
<1>10. CASE hi >= 0 /\ lo < 0
  <2>1. n * U < 2 * (Grid * s)
    BY <1>4, <1>5, <1>6, <1>7, <1>10
  <2>2. n * U = 2 * (Grid * (2 * U)) /\ Grid * (2 * U) \in Int
    BY <1>1, <1>6 DEF n
  <2>3. Grid * (2 * U) < Grid * s
    BY <1>5, <2>1, <2>2
  <2>4. 2 * U < s
    <3>1. \A y, z \in Int : Grid * y < Grid * z => y < z
      BY <1>1
    <3> QED
      BY <1>1, <1>6, <2>3, <3>1
  <2> QED
    BY <1>1, <1>2, <1>3, <1>6, <2>4
<1> QED
  BY <1>4, <1>8, <1>9, <1>10
(* Every filter is a polynomial in pieces, and its unit is a number.       *)
LEMMA SampledWhole ==
  ASSUME call \in Calls, NEW k \in Int
  PROVE  Sampled(k) \in Int /\ Unit(call.filter, Step) \in Nat \ {0}
<1> DEFINE p == 2 * (Grid * k - call.cen) + Grid
           q == Step
<1>1. /\ call.filter \in Filters /\ call.cen \in Int /\ Grid \in Nat \ {0}
      /\ call.scale2 \in Nat \ {0}
  BY WeightAssumption
<1>2. p \in Int /\ q \in Nat \ {0} /\ q \in Int
  BY <1>1 DEF Step
<1> HIDE DEF p, q
<1>3. ASSUME NEW a \in Int, NEW b \in Int, NEW c \in Int, NEW d \in Int, NEW r \in Int
      PROVE  Poly(<<a, b, c, d>>, r, q) \in Int
  BY <1>2 DEF Poly
<1>4. Abs(p) \in Int
  BY <1>2 DEF Abs
<1>5. Value(call.filter, p, q) \in Int /\ Unit(call.filter, q) \in Nat \ {0}
  <2>1. CASE call.filter \in {"point", "box"}
    BY <2>1 DEF Value, Unit, filt_box
  <2>2. CASE call.filter = "triangle"
    BY <1>2, <1>4, <2>2 DEF Value, Unit, filt_triangle
  <2>3. CASE call.filter = "quadratic"
    <3>1. filt_quadratic(Abs(p), q) \in Int
      BY <1>2, <1>4 DEF filt_quadratic
    <3>2. 8 * q * q \in Nat \ {0}
      BY <1>2
    <3> QED
      BY <2>3, <3>1, <3>2 DEF Value, Unit
  <2>4. q * q * q \in Nat \ {0}
    BY <1>2
  <2>5. CASE call.filter = "cubic"
    <3>1. filt_cubic(Abs(p), q) \in Int
      BY <1>3, <1>4 DEF filt_cubic, TwoPieces
    <3>2. 6 * q * q * q \in Nat \ {0}
      BY <1>2, <2>4
    <3> QED
      BY <2>5, <3>1, <3>2 DEF Value, Unit
  <2>6. CASE call.filter = "catrom"
    <3>1. filt_catrom(Abs(p), q) \in Int
      BY <1>3, <1>4 DEF filt_catrom, TwoPieces
    <3>2. 2 * q * q * q \in Nat \ {0}
      BY <1>2, <2>4
    <3> QED
      BY <2>6, <3>1, <3>2 DEF Value, Unit
  <2>7. CASE call.filter = "mitchell"
    <3>1. filt_mitchell(Abs(p), q) \in Int
      BY <1>3, <1>4 DEF filt_mitchell, TwoPieces
    <3>2. 18 * q * q * q \in Nat \ {0}
      BY <1>2, <2>4
    <3> QED
      BY <2>7, <3>1, <3>2 DEF Value, Unit
  <2> QED
    BY <1>1, <2>1, <2>2, <2>3, <2>5, <2>6, <2>7 DEF Filters
<1> QED
  BY <1>5 DEF Sampled, p, q

(* The area under the samples is a number.                                 *)
LEMMA AreaWhole ==
  ASSUME call \in Calls, NEW r \in [i0 : Int, i1 : Int], r.i0 < r.i1
  PROVE  Area(r) \in Int
<1> DEFINE f == [k \in r.i0 .. r.i1 - 1 |-> Sampled(k)]
<1>1. f \in [r.i0 .. r.i1 - 1 -> Int] /\ r.i0 \in Int /\ r.i1 \in Int /\ r.i0 <= r.i1
  BY SampledWhole
<1> HIDE DEF f
<1>2. Sums(SumsFrom(f, r.i0, r.i1), f, r.i0, r.i1)
  BY <1>1, SumsFromIs
<1>3. SumsFrom(f, r.i0, r.i1)[r.i1] \in Int
  BY <1>1, <1>2 DEF Sums
<1> QED
  BY <1>3 DEF Area, f

(* t is an integer nearest to the normalized filter at line k.             *)
Nearest(k, t) ==
  LET area == Area(FilterRange)
  IN  area > 0 => /\ 2 * t * area <= 2 * WEIGHTONE * Sampled(k) + area
                  /\ 2 * t * area > 2 * WEIGHTONE * Sampled(k) - area

(* Rounding gives the nearest integer.                                     *)
LEMMA RoundedNearest ==
  ASSUME call \in Calls, wtab = FilterRange, FilterRange.i0 < FilterRange.i1, NEW k \in Int
  PROVE  Rounded(k) \in Int /\ Nearest(k, Rounded(k))
<1> DEFINE s == Sampled(k)
           area == Area(FilterRange)
           tr == Normalized(k)
           t == Rounded(k)
<1>1. s \in Int /\ Unit(call.filter, Step) \in Nat \ {0} /\ WEIGHTONE \in Nat \ {0}
  BY SampledWhole, WeightAssumption
<1>2. area \in Int
  <2>1. FilterRange \in [i0 : Int, i1 : Int]
    BY RangeFits DEF FilterRange
  <2> QED
    BY <2>1, AreaWhole
<1>3. den = area
  BY DEF den
<1>4. tr.num \in Int /\ tr.over \in Nat \ {0} /\ (area > 0 => tr.num = WEIGHTONE * s /\ tr.over = area)
  <2>1. WEIGHTONE * s \in Int /\ -WEIGHTONE * s \in Int
    BY <1>1
  <2> HIDE DEF s, area
  <2>2. CASE area = 0
    <3>1. tr = [num |-> WEIGHTONE * s, over |-> Unit(call.filter, Step)]
      BY <1>3, <2>2 DEF Normalized, s
    <3> QED
      BY <1>1, <2>1, <2>2, <3>1
  <2>3. CASE area > 0
    <3>1. tr = [num |-> WEIGHTONE * s, over |-> area]
      BY <1>2, <1>3, <2>3 DEF Normalized, s
    <3> QED
      BY <1>2, <2>1, <2>3, <3>1
  <2>4. CASE area < 0
    <3>1. tr = [num |-> -WEIGHTONE * s, over |-> -area]
      BY <1>2, <1>3, <2>4 DEF Normalized, s
    <3> QED
      BY <1>2, <2>1, <2>4, <3>1
  <2> QED
    BY <1>2, <2>2, <2>3, <2>4
<1>5. t = (2 * tr.num + tr.over) \div (2 * tr.over)
  BY DEF Rounded
<1> HIDE DEF tr, t, s, area
<1>6. /\ t \in Int
      /\ (2 * tr.over) * t <= 2 * tr.num + tr.over
      /\ 2 * tr.num + tr.over < (2 * tr.over) * t + 2 * tr.over
  <2>1. \A a \in Int, n \in Nat \ {0} :
          a \div n \in Int /\ n * (a \div n) <= a /\ a < n * (a \div n) + n
    OBVIOUS
  <2>2. 2 * tr.num + tr.over \in Int /\ 2 * tr.over \in Nat \ {0}
    BY <1>4
  <2> QED
    BY <1>5, <2>1, <2>2
<1>7. ASSUME area > 0
      PROVE  2 * t * area <= 2 * WEIGHTONE * s + area /\ 2 * t * area > 2 * WEIGHTONE * s - area
  <2>1. (2 * area) * t <= 2 * (WEIGHTONE * s) + area /\ 2 * (WEIGHTONE * s) + area < (2 * area) * t + 2 * area
    BY <1>4, <1>6, <1>7
  <2>2. (2 * area) * t = 2 * t * area /\ 2 * (WEIGHTONE * s) = 2 * WEIGHTONE * s
    BY <1>1, <1>2, <1>6
  <2>3. 2 * t * area \in Int /\ 2 * WEIGHTONE * s \in Int
    BY <1>1, <1>2, <1>6
  <2> QED
    BY <1>2, <2>1, <2>2, <2>3
<1> QED
  BY <1>6, <1>7 DEF Nearest, t, s, area

-----------------------------------------------------------------------------
(* The inductive invariant: the range sampled is that of the filter, there *)
(* is a weight for every sample from i0 on, and lastnonzero is one of      *)
(* them once anything was added up.                                        *)
Sampling ==
  /\ wtab = FilterRange /\ i1 = wtab.i1 /\ wtab.i0 < wtab.i1
  /\ wtab.i0 <= i0 /\ i0 <= i /\ i <= i1
  /\ Len(weight) = i - i0
  /\ stillzero => i0 = i
  /\ ~call.trimzeros => ~stillzero /\ i0 = wtab.i0
  /\ IF lastnonzero = Unassigned THEN sum = 0
     ELSE ~stillzero /\ i0 <= lastnonzero /\ lastnonzero < i

TableInv ==
  /\ call \in Calls
  /\ pc \in {"entry", "sample", "done", "null", "overflow"}
  /\ \E S : weight \in Seq(S)
  /\ i \in Int /\ i0 \in Int /\ i1 \in Int /\ lastnonzero \in Int
  /\ pc = "entry" => sum = 0 /\ lastnonzero = Unassigned
  /\ pc \in {"entry", "null"} => weight = <<>>
  /\ pc \in {"sample", "overflow"} => Sampling
  /\ pc = "done" => /\ 0 <= wtab.i0 /\ wtab.i0 < wtab.i1 /\ wtab.i1 <= call.len
                    /\ wtab.i1 - wtab.i0 <= Len(weight) /\ Len(weight) <= wid

(* Nothing is sampled yet.                                                 *)
LEMMA TableInit == Init => TableInv
<1> SUFFICES ASSUME Init PROVE TableInv
  OBVIOUS
<1>1. weight \in Seq({})
  BY DEF Init
<1> QED
  BY <1>1 DEF Init, TableInv, Unassigned

(* A weight more, or another one, makes no gap in the table.               *)
LEMMA WeightAdded ==
  ASSUME NEW s, NEW e, \E S : s \in Seq(S)
  PROVE  Len(Append(s, e)) = Len(s) + 1 /\ \E S : Append(s, e) \in Seq(S)
<1>1. PICK S : s \in Seq(S)
  OBVIOUS
<1>2. s \in Seq(S \cup {e})
  BY <1>1
<1>3. Append(s, e) \in Seq(S \cup {e}) /\ Len(Append(s, e)) = Len(s) + 1
  BY <1>2
<1> QED
  BY <1>3

LEMMA WeightReplaced ==
  ASSUME NEW s, NEW k \in 1 .. Len(s), NEW e, \E S : s \in Seq(S)
  PROVE  Len([s EXCEPT ![k] = e]) = Len(s) /\ \E S : [s EXCEPT ![k] = e] \in Seq(S)
<1>1. PICK S : s \in Seq(S)
  OBVIOUS
<1>2. s \in Seq(S \cup {e})
  BY <1>1
<1>3. [s EXCEPT ![k] = e] \in Seq(S \cup {e}) /\ Len([s EXCEPT ![k] = e]) = Len(s)
  BY <1>2, ExceptSeq
<1> QED
  BY <1>3
(* The weight that makes up for the rounding is one of the table.          *)
LEMMA FudgedInside ==
  ASSUME call \in Calls, NEW first \in Int, NEW last \in Int, first < last
  PROVE  Fudged(first, last) \in Int /\ first <= Fudged(first, last) /\ Fudged(first, last) < last
<1>1. 2 * call.cen + Grid \in Int /\ 2 * Grid \in Nat \ {0}
  BY WeightAssumption
<1>2. TruncDiv(2 * call.cen + Grid, 2 * Grid) \in Int
  BY <1>1, Truncated
<1> QED
  BY <1>2 DEF Fudged

(* A step of make_weighttab keeps the table in order.                      *)
LEMMA TableStep == TableInv /\ [Next]_vars => TableInv'
<1> SUFFICES ASSUME TableInv, [Next]_vars PROVE TableInv'
  OBVIOUS
<1>0. /\ call \in Calls /\ i \in Int /\ i0 \in Int /\ i1 \in Int /\ lastnonzero \in Int
      /\ \E S : weight \in Seq(S)
      /\ FilterRange.i0 \in Int /\ FilterRange.i1 \in Int
      /\ 0 <= FilterRange.i0 /\ FilterRange.i1 <= call.len /\ call.len \in Int
      /\ wid \in Int /\ 1 <= wid /\ FilterRange.i1 - FilterRange.i0 <= wid
  BY RangeFits, WeightAssumption DEF TableInv
<1>1. CASE Bounds
  <2>1. /\ wtab' = FilterRange /\ FilterRange' = FilterRange /\ call' = call
        /\ weight = <<>> /\ weight' = <<>> /\ sum' = 0 /\ lastnonzero' = Unassigned
        /\ pc' = "sample" /\ i' = FilterRange.i0 /\ i0' = FilterRange.i0 /\ i1' = FilterRange.i1
        /\ FilterRange.i0 < FilterRange.i1 /\ stillzero' = call.trimzeros
    BY <1>1 DEF Bounds, TableInv, FilterRange, RangeEnd, Spread4
  <2>2. Sampling'
    BY <1>0, <2>1 DEF Sampling
  <2> QED
    BY <1>0, <1>1, <2>1, <2>2 DEF TableInv, Unassigned
<1>2. CASE NullFilter
  BY <1>0, <1>2 DEF NullFilter, TableInv
<1>3. CASE Overflow
  <2>1. /\ pc = "sample" /\ pc' = "overflow" /\ FilterRange' = FilterRange
        /\ UNCHANGED <<call, i, i0, i1, wtab, weight, sum, stillzero, lastnonzero>>
    BY <1>3 DEF Overflow, FilterRange, RangeEnd, Spread4
  <2>2. Sampling'
    BY <2>1 DEF TableInv, Sampling
  <2> QED
    BY <1>0, <2>1, <2>2 DEF TableInv
<1>4. CASE SkipZero
  <2>1. /\ pc = "sample" /\ i < i1 /\ stillzero /\ i' = i + 1 /\ i0' = i0 + 1
        /\ UNCHANGED <<call, pc, i1, wtab, weight, sum, stillzero, lastnonzero>>
        /\ FilterRange' = FilterRange
    BY <1>4 DEF SkipZero, FilterRange, RangeEnd, Spread4
  <2>2. Sampling /\ wtab.i0 = FilterRange.i0
    BY <2>1 DEF TableInv, Sampling
  <2>3. Sampling'
    BY <1>0, <2>1, <2>2 DEF Sampling
  <2> QED
    BY <1>0, <2>1, <2>3 DEF TableInv
<1>5. CASE AddWeight
  <2> DEFINE t == Rounded(i)
  <2>1. /\ pc = "sample" /\ i < i1 /\ i' = i + 1
        /\ stillzero' = FALSE
        /\ weight' = Append(weight, t) /\ sum' = sum + t
        /\ lastnonzero' = IF t # 0 THEN i ELSE lastnonzero
        /\ UNCHANGED <<call, pc, i0, i1, wtab>>
        /\ FilterRange' = FilterRange
    BY <1>5 DEF AddWeight, FilterRange, RangeEnd, Spread4
  <2> HIDE DEF t
  <2>2. Sampling /\ wtab.i0 = FilterRange.i0
    BY <2>1 DEF TableInv, Sampling
  <2>3. Len(weight') = Len(weight) + 1 /\ \E S : weight' \in Seq(S)
    BY <1>0, <2>1, WeightAdded
  <2>4. Sampling'
    <3>1. /\ (wtab = FilterRange /\ i1 = wtab.i1 /\ wtab.i0 < wtab.i1)'
          /\ (wtab.i0 <= i0 /\ i0 <= i /\ i <= i1)'
          /\ Len(weight') = i' - i0'
          /\ (stillzero => i0 = i)'
          /\ (~call.trimzeros => ~stillzero /\ i0 = wtab.i0)'
      BY <1>0, <2>1, <2>2, <2>3, SMTT(30) DEF Sampling
    <3>2. CASE t # 0
      BY <1>0, <2>1, <2>2, <3>1, <3>2 DEF Sampling, Unassigned
    <3>3. CASE t = 0 /\ lastnonzero = Unassigned
      BY <1>0, <2>1, <2>2, <3>1, <3>3 DEF Sampling
    <3>4. CASE t = 0 /\ lastnonzero # Unassigned
      BY <1>0, <2>1, <2>2, <3>1, <3>4 DEF Sampling
    <3> QED
      BY <3>2, <3>3, <3>4
  <2>5. lastnonzero' \in Int
    BY <1>0, <2>1
  <2> QED
    BY <1>0, <2>1, <2>3, <2>4, <2>5 DEF TableInv
<1>6. CASE CenterOnly
  <2> DEFINE mid == (wtab.i0 + wtab.i1) \div 2
  <2>1. /\ pc = "sample" /\ pc' = "done"
        /\ wtab' = [i0 |-> mid, i1 |-> mid + 1]
        /\ weight' = <<WEIGHTONE>>
        /\ UNCHANGED <<call, i, i0, i1, sum, stillzero, lastnonzero>>
        /\ wid' = wid
    BY <1>6 DEF CenterOnly, wid, Spread4
  <2>2. /\ wtab.i0 = FilterRange.i0 /\ wtab.i1 = FilterRange.i1 /\ wtab.i0 < wtab.i1
    BY <2>1 DEF TableInv, Sampling
  <2>3. mid \in Int /\ wtab.i0 <= mid /\ mid < wtab.i1
    BY <1>0, <2>2, SMTT(30)
  <2> HIDE DEF mid
  <2>4. /\ wtab'.i0 = mid /\ wtab'.i1 = mid + 1
        /\ Len(weight') = 1
    BY <2>1
  <2>5. \E S : weight' \in Seq(S)
    <3>1. weight' \in Seq({WEIGHTONE})
      BY <2>1
    <3> QED
      BY <3>1
  <2> QED
    BY <1>0, <2>1, <2>2, <2>3, <2>4, <2>5 DEF TableInv
<1>7. CASE Fudge
  <2> DEFINE last == IF call.trimzeros THEN lastnonzero + 1 ELSE i1
             k == Fudged(i0, last) - i0 + 1
  <2>1. /\ pc = "sample" /\ i = i1 /\ sum # 0 /\ pc' = "done"
        /\ i1' = last
        /\ wtab' = IF call.trimzeros THEN [i0 |-> i0, i1 |-> last] ELSE wtab
        /\ UNCHANGED <<call, i, i0, sum, stillzero, lastnonzero>>
        /\ wid' = wid
    BY <1>7 DEF Fudge, wid, Spread4
  <2>8. weight' = weight \/ \E e : weight' = [weight EXCEPT ![k] = e]
    BY <1>7 DEF Fudge
  <2>2. /\ Sampling /\ wtab.i0 = FilterRange.i0 /\ wtab.i1 = FilterRange.i1
        /\ lastnonzero # Unassigned
    BY <2>1 DEF TableInv, Sampling
  <2>3. /\ last \in Int /\ i0 < last /\ last <= i
        /\ Len(weight) = i - i0
    BY <1>0, <2>1, <2>2, SMTT(30) DEF Sampling
  <2>4. k \in 1 .. Len(weight)
    <3>1. Fudged(i0, last) \in Int /\ i0 <= Fudged(i0, last) /\ Fudged(i0, last) < last
      BY <1>0, <2>3, FudgedInside
    <3> HIDE DEF last
    <3> QED
      BY <1>0, <2>3, <3>1, SMTT(30)
  <2> HIDE DEF last, k
  <2>5. Len(weight') = Len(weight) /\ \E S : weight' \in Seq(S)
    <3>1. CASE weight' = weight
      BY <1>0, <3>1
    <3>2. ASSUME NEW e, weight' = [weight EXCEPT ![k] = e]
          PROVE  Len(weight') = Len(weight) /\ \E S : weight' \in Seq(S)
      BY <1>0, <2>4, <3>2, WeightReplaced
    <3> QED
      BY <2>8, <3>1, <3>2
  <2>6. 0 <= wtab'.i0 /\ wtab'.i0 < wtab'.i1 /\ wtab'.i1 <= call.len
        /\ wtab'.i1 - wtab'.i0 <= Len(weight) /\ Len(weight) <= wid
    <3>1. /\ FilterRange.i0 <= i0 /\ i <= FilterRange.i1
          /\ FilterRange.i0 < FilterRange.i1
          /\ ~call.trimzeros => i0 = FilterRange.i0
          /\ i = FilterRange.i1
      BY <2>1, <2>2 DEF Sampling
    <3>2. CASE call.trimzeros
      <4>1. wtab'.i0 = i0 /\ wtab'.i1 = last
        BY <2>1, <3>2
      <4> QED
        BY <1>0, <2>3, <3>1, <4>1, SMTT(30)
    <3>3. CASE ~call.trimzeros
      <4>1. wtab'.i0 = FilterRange.i0 /\ wtab'.i1 = FilterRange.i1
        BY <2>1, <2>2, <3>3
      <4> QED
        BY <1>0, <2>3, <3>1, <3>3, <4>1
    <3> QED
      BY <3>2, <3>3
  <2> QED
    BY <1>0, <2>1, <2>3, <2>5, <2>6 DEF TableInv
<1>8. CASE UNCHANGED vars
  <2>1. FilterRange' = FilterRange /\ wid' = wid
    BY <1>8 DEF vars, FilterRange, RangeEnd, wid, Spread4
  <2> QED
    BY <1>8, <2>1 DEF vars, TableInv, Sampling
<1> QED
  BY <1>1, <1>2, <1>3, <1>4, <1>5, <1>6, <1>7, <1>8 DEF Next, Returned
(* The invariant holds of every state of every behaviour.                  *)
THEOREM TableInvariant == Spec => []TableInv
BY TableInit, TableStep, PTL DEF Spec

(* The table holds the weights sampled so far, from i0 on, and its final   *)
(* range lies within the source, for all filters, scales and centers       *)
(* (zoom.c:756-826).                                                       *)
THEOREM TypeCorrect == Spec => []TypeOK
<1>1. TableInv => TypeOK
  BY DEF TableInv, Sampling, TypeOK
<1> QED
  BY <1>1, TableInvariant, PTL

(* make_weighttab writes no weight beyond the memory that was allocated    *)
(* for them, in the table of one line and in the block of all columns      *)
(* (zoom.c:81, 326, 756-796).                                              *)
THEOREM AllocationSuffices == Spec => []WeightsFit
<1>1. TableInv => WeightsFit
  <2> SUFFICES ASSUME TableInv PROVE Len(weight) <= wid
    BY DEF WeightsFit
  <2>1. /\ FilterRange.i0 \in Int /\ FilterRange.i1 \in Int
        /\ wid \in Int /\ 1 <= wid /\ FilterRange.i1 - FilterRange.i0 <= wid
        /\ i \in Int /\ i0 \in Int
    BY RangeFits DEF TableInv
  <2>2. CASE pc \in {"entry", "null"}
    BY <2>1, <2>2 DEF TableInv
  <2>3. CASE pc \in {"sample", "overflow"}
    BY <2>1, <2>3 DEF TableInv, Sampling
  <2>4. CASE pc = "done"
    BY <2>4 DEF TableInv
  <2> QED
    BY <2>2, <2>3, <2>4 DEF TableInv
<1> QED
  BY <1>1, TableInvariant, PTL
-----------------------------------------------------------------------------
(* Every weight in the table is the nearest integer, and so is the zero    *)
(* for every line before the table and after the last weight.              *)
NearSoFar ==
  /\ \A k \in i0 .. i - 1 : Nearest(k, weight[k - i0 + 1])
  /\ \A k \in FilterRange.i0 .. i0 - 1 : Nearest(k, 0)
  /\ lastnonzero # Unassigned => \A k \in lastnonzero + 1 .. i - 1 : Nearest(k, 0)

NearInv ==
  /\ pc = "sample" => NearSoFar
  /\ TrimsOnlyZeros

(* Nothing else of an entry is disturbed.                                  *)
LEMMA Appended ==
  ASSUME NEW s, NEW e, \E S : s \in Seq(S)
  PROVE  /\ Len(s) \in Nat
         /\ \A k \in 1 .. Len(s) : Append(s, e)[k] = s[k]
         /\ Append(s, e)[Len(s) + 1] = e
<1>1. PICK S : s \in Seq(S)
  OBVIOUS
<1>2. s \in Seq(S \cup {e})
  BY <1>1
<1> QED
  BY <1>2

LEMMA Replaced ==
  ASSUME NEW s, NEW k \in 1 .. Len(s), NEW e, \E S : s \in Seq(S)
  PROVE  /\ [s EXCEPT ![k] = e][k] = e
         /\ \A m \in 1 .. Len(s) : m # k => [s EXCEPT ![k] = e][m] = s[m]
<1>1. PICK S : s \in Seq(S)
  OBVIOUS
<1>2. s \in Seq(S \cup {e}) /\ e \in S \cup {e}
  BY <1>1
<1> QED
  BY <1>2, ExceptSeq

(* What the filter is does not change.                                     *)
LEMMA SameFilter ==
  ASSUME call' = call
  PROVE  /\ FilterRange' = FilterRange
         /\ \A k, t : Nearest(k, t)' <=> Nearest(k, t)
<1>1. Spread4' = Spread4
  BY DEF Spread4
<1>2. FilterRange' = FilterRange
  BY <1>1 DEF FilterRange, RangeEnd
<1>3. \A k : Sampled(k)' = Sampled(k)
  BY DEF Sampled, Step
<1>4. Area(FilterRange)' = Area(FilterRange)
  BY <1>2, <1>3 DEF Area
<1> QED
  BY <1>2, <1>3, <1>4 DEF Nearest

(* A step of make_weighttab keeps the weights the nearest.                 *)
LEMMA NearStep == TableInv /\ NearInv /\ [Next]_vars => NearInv'
<1> SUFFICES ASSUME TableInv, NearInv, [Next]_vars PROVE NearInv'
  OBVIOUS
<1>0. /\ call \in Calls /\ i \in Int /\ i0 \in Int /\ i1 \in Int /\ lastnonzero \in Int
      /\ \E S : weight \in Seq(S)
      /\ FilterRange.i0 \in Int /\ FilterRange.i1 \in Int /\ 0 <= FilterRange.i0
  BY RangeFits DEF TableInv
<1>1. CASE Bounds
  <2>1. /\ pc' = "sample" /\ call' = call
        /\ i' = FilterRange.i0 /\ i0' = FilterRange.i0 /\ lastnonzero' = Unassigned
    BY <1>1 DEF Bounds, TableInv
  <2> QED
    BY <1>0, <2>1, SameFilter DEF NearInv, NearSoFar, TrimsOnlyZeros
<1>2. CASE NullFilter \/ Overflow
  <2>1. pc' \in {"null", "overflow"}
    BY <1>2 DEF NullFilter, Overflow
  <2> QED
    BY <2>1 DEF NearInv, TrimsOnlyZeros
<1>3. CASE SkipZero
  <2>1. /\ pc = "sample" /\ i < i1 /\ stillzero /\ i' = i + 1 /\ i0' = i0 + 1 /\ Rounded(i) = 0
        /\ UNCHANGED <<call, pc, i1, wtab, weight, sum, stillzero, lastnonzero>>
    BY <1>3 DEF SkipZero
  <2>2. Sampling /\ NearSoFar /\ lastnonzero = Unassigned
    BY <2>1 DEF TableInv, Sampling, NearInv
  <2>3. Nearest(i, 0)
    BY <1>0, <2>1, <2>2, RoundedNearest DEF Sampling
  <2>4. i0 = i
    BY <2>1, <2>2 DEF Sampling
  <2> QED
    BY <1>0, <2>1, <2>2, <2>3, <2>4, SameFilter DEF NearInv, NearSoFar, TrimsOnlyZeros
<1>4. CASE AddWeight
  <2> DEFINE t == Rounded(i)
  <2>1. /\ pc = "sample" /\ i < i1 /\ i' = i + 1 /\ pc' = "sample"
        /\ weight' = Append(weight, t)
        /\ lastnonzero' = IF t # 0 THEN i ELSE lastnonzero
        /\ call' = call /\ i0' = i0
    BY <1>4 DEF AddWeight
  <2>2. Sampling /\ NearSoFar
    BY <2>1 DEF TableInv, NearInv
  <2>3. Nearest(i, t)
    BY <1>0, <2>2, RoundedNearest DEF Sampling
  <2> HIDE DEF t
  <2>4. /\ Len(weight) = i - i0 /\ i0 <= i
        /\ \A k \in 1 .. i - i0 : weight'[k] = weight[k]
        /\ weight'[i - i0 + 1] = t
    BY <1>0, <2>1, <2>2, Appended DEF Sampling
  <2>5. \A k \in i0 .. i : Nearest(k, weight'[k - i0 + 1])
    <3>1. ASSUME NEW k \in i0 .. i, k # i PROVE Nearest(k, weight'[k - i0 + 1])
      <4>1. k \in i0 .. i - 1 /\ k - i0 + 1 \in 1 .. i - i0
        BY <1>0, <3>1
      <4> QED
        BY <2>2, <2>4, <4>1 DEF NearSoFar
    <3> QED
      BY <2>3, <2>4, <3>1
  <2>6. ASSUME lastnonzero' # Unassigned, NEW k \in lastnonzero' + 1 .. i PROVE Nearest(k, 0)
    <3>1. t = 0 /\ lastnonzero' = lastnonzero
      BY <1>0, <2>1, <2>6
    <3>2. CASE k = i
      BY <2>3, <3>1, <3>2
    <3>3. CASE k # i
      <4>1. k \in lastnonzero + 1 .. i - 1
        BY <1>0, <2>6, <3>1, <3>3
      <4> QED
        BY <2>2, <2>6, <3>1, <4>1 DEF NearSoFar
    <3> QED
      BY <3>2, <3>3
  <2>7. (i + 1) - 1 = i
    BY <1>0
  <2> QED
    BY <1>0, <2>1, <2>2, <2>5, <2>6, <2>7, SameFilter DEF NearInv, NearSoFar, TrimsOnlyZeros
<1>5. CASE CenterOnly
  <2>1. sum' = 0 /\ pc' = "done"
    BY <1>5 DEF CenterOnly
  <2> QED
    BY <2>1 DEF NearInv, TrimsOnlyZeros
<1>6. CASE Fudge
  <2> DEFINE last == IF call.trimzeros THEN lastnonzero + 1 ELSE i1
             g == Fudged(i0, last)
             all == FilterRange.i0 .. FilterRange.i1 - 1
  <2>1. /\ pc = "sample" /\ i = i1 /\ sum # 0 /\ pc' = "done" /\ call' = call
        /\ wtab' = IF call.trimzeros THEN [i0 |-> i0, i1 |-> last] ELSE wtab
        /\ \/ weight' = weight
           \/ \E e : weight' = [weight EXCEPT ![g - i0 + 1] = e]
    BY <1>6 DEF Fudge
  <2>2. /\ Sampling /\ NearSoFar /\ lastnonzero # Unassigned
        /\ i = FilterRange.i1 /\ wtab.i0 = FilterRange.i0 /\ wtab.i1 = FilterRange.i1
    BY <2>1 DEF TableInv, Sampling, NearInv
  <2>3. /\ last \in Int /\ i0 < last /\ last <= i /\ FilterRange.i0 <= i0
        /\ Len(weight) = i - i0
    BY <1>0, <2>1, <2>2 DEF Sampling
  <2>4. wtab'.i0 = i0 /\ wtab'.i1 = last
    BY <2>1, <2>2 DEF Sampling
  <2>5. g \in Int /\ i0 <= g /\ g < last
    BY <1>0, <2>3, FudgedInside
  <2>6. ASSUME NEW k \in all, ~InTable(k)' PROVE Nearest(k, 0)
    <3>1. k < i0 \/ last <= k
      BY <1>0, <2>3, <2>4, <2>6 DEF InTable
    <3>2. CASE k < i0
      BY <1>0, <2>2, <3>2 DEF NearSoFar
    <3>3. CASE last <= k
      <4>1. k \in lastnonzero + 1 .. i - 1
        BY <1>0, <2>1, <2>2, <3>3
      <4> QED
        BY <2>2, <4>1 DEF NearSoFar
    <3> QED
      BY <3>1, <3>2, <3>3
  <2>7. ASSUME NEW k \in all \ {g}, InTable(k)' PROVE Nearest(k, WeightOf(k)')
    <3>1. k \in Int /\ i0 <= k /\ k < last /\ k # g
      BY <1>0, <2>4, <2>7 DEF InTable
    <3>2. WeightOf(k)' = weight'[k - i0 + 1]
      BY <2>4 DEF WeightOf
    <3>3. /\ k - i0 + 1 \in 1 .. Len(weight) /\ g - i0 + 1 \in 1 .. Len(weight)
          /\ k - i0 + 1 # g - i0 + 1 /\ k \in i0 .. i - 1
      <4> HIDE DEF g, last
      <4> QED
        BY <1>0, <2>3, <2>5, <3>1
    <3>4. weight'[k - i0 + 1] = weight[k - i0 + 1]
      <4>1. ASSUME NEW e PROVE [weight EXCEPT ![g - i0 + 1] = e][k - i0 + 1] = weight[k - i0 + 1]
        <5> HIDE DEF g
        <5> QED
          BY <1>0, <3>3, Replaced
      <4> QED
        BY <2>1, <4>1
    <3> QED
      BY <2>2, <3>2, <3>3, <3>4 DEF NearSoFar
  <2>8. g \in all
    <3> HIDE DEF g, last
    <3> QED
      BY <1>0, <2>2, <2>3, <2>5, SMTT(30)
  <2>9. TrimsOnlyZeros'
    <3> HIDE DEF g
    <3>1. /\ \A k \in all : ~InTable(k)' => Nearest(k, 0)'
          /\ \A k \in all \ {g} : InTable(k)' => Nearest(k, WeightOf(k)')
      BY <2>1, <2>6, <2>7, SameFilter
    <3>2. \A k \in all \ {g} : InTable(k)' => Nearest(k, WeightOf(k))'
      BY <2>1, <3>1, SameFilter DEF Nearest
    <3>3. FilterRange' = FilterRange
      BY <2>1, SameFilter
    <3> QED
      BY <2>8, <3>1, <3>2, <3>3 DEF TrimsOnlyZeros, Nearest
  <2> QED
    BY <2>1, <2>9 DEF NearInv
<1>7. CASE UNCHANGED vars
  <2>1. /\ UNCHANGED <<call, pc, i, i0, i1, wtab, weight, sum, stillzero, lastnonzero>>
    BY <1>7 DEF vars
  <2>2. pc = "sample" => NearSoFar'
    BY <2>1, SameFilter DEF NearInv, NearSoFar
  <2>3. TrimsOnlyZeros'
    <3>1. Area(FilterRange)' = Area(FilterRange)
      BY <2>1 DEF Area, FilterRange, RangeEnd, Spread4, Sampled, Step
    <3> QED
      BY <2>1, <3>1, SameFilter DEF NearInv, TrimsOnlyZeros, InTable, WeightOf, Sampled, Step
  <2> QED
    BY <2>1, <2>2, <2>3 DEF NearInv
<1> QED
  BY <1>1, <1>2, <1>3, <1>4, <1>5, <1>6, <1>7 DEF Next, Returned

(* Only zeros are trimmed, and all weights in use but one are the nearest  *)
(* integers to the normalized filter, for all filters, scales, centers and *)
(* sizes of weights (zoom.c:737-741, 776-826).                             *)
THEOREM WeightsNearest == Spec => []TrimsOnlyZeros
<1>1. Init => NearInv
  BY DEF Init, NearInv, TrimsOnlyZeros
<1>2. NearInv => TrimsOnlyZeros
  BY DEF NearInv
<1> QED
  BY <1>1, <1>2, NearStep, TableInvariant, PTL DEF Spec
-----------------------------------------------------------------------------
(* sum is the sum of the weights, and also of those up to the last nonzero *)
(* one.                                                                    *)
SumSoFar ==
  \E u : /\ Sums(u, weight, 1, Len(weight) + 1)
         /\ u[Len(weight) + 1] = sum
         /\ lastnonzero # Unassigned => u[lastnonzero - i0 + 2] = sum

SumInv ==
  /\ weight \in Seq(Int) /\ sum \in Int
  /\ pc \in {"entry", "sample"} => SumSoFar
  /\ SumIsOne

(* The weight that makes up for the rounding still fits a short then.      *)
FudgeFits ==
  pc = "sample" /\ i = i1 /\ sum \notin {0, WEIGHTONE} =>
    LET last == IF call.trimzeros THEN lastnonzero + 1 ELSE i1
        w    == weight[Fudged(i0, last) - i0 + 1]
    IN  -2 * WEIGHTONE <= w + WEIGHTONE - sum /\ w + WEIGHTONE - sum < 2 * WEIGHTONE

(* Nothing is added up at the start.                                       *)
LEMMA SumInit == Init => SumInv
<1> SUFFICES ASSUME Init PROVE SumInv
  OBVIOUS
<1>1. /\ weight = <<>> /\ weight \in Seq(Int) /\ Len(weight) = 0
      /\ sum = 0 /\ lastnonzero = Unassigned /\ pc = "entry"
  BY DEF Init
<1> DEFINE u == [k \in 1 .. 1 |-> 0]
<1>2. Sums(u, weight, 1, 0 + 1) /\ u[0 + 1] = 0
  BY DEF Sums, Adds
<1> HIDE DEF u
<1>3. SumSoFar
  BY <1>1, <1>2 DEF SumSoFar
<1> QED
  BY <1>1, <1>3 DEF SumInv, SumIsOne

(* A weight is added in.                                                   *)
LEMMA SumAddWeight ==
  ASSUME TableInv, SumInv, AddWeight
  PROVE  SumInv'
<1> DEFINE t == Rounded(i)
           n == Len(weight)
<1>1. /\ pc = "sample" /\ pc' = "sample" /\ i < i1
      /\ weight' = Append(weight, t) /\ sum' = sum + t
      /\ lastnonzero' = IF t # 0 THEN i ELSE lastnonzero
      /\ i0' = i0
  BY DEF AddWeight, TableInv
<1>2. /\ Sampling /\ i \in Int /\ i0 \in Int /\ lastnonzero \in Int
      /\ weight \in Seq(Int) /\ sum \in Int /\ n \in Nat
  BY <1>1 DEF TableInv, SumInv
<1>3. t \in Int
  BY <1>2, RoundedNearest DEF Sampling, TableInv
<1> HIDE DEF t
<1>4. /\ weight' \in Seq(Int) /\ Len(weight') = n + 1 /\ sum' \in Int
      /\ \A k \in 1 .. n : weight'[k] = weight[k]
      /\ weight'[n + 1] = t
  BY <1>1, <1>2, <1>3
<1>5. n = i - i0
  BY <1>2 DEF Sampling
<1>6. PICK u : /\ Sums(u, weight, 1, n + 1)
               /\ u[n + 1] = sum
               /\ lastnonzero # Unassigned => u[lastnonzero - i0 + 2] = sum
  BY <1>1 DEF SumInv, SumSoFar
<1> HIDE DEF n
<1> DEFINE v == [k \in 1 .. n + 2 |-> IF k = n + 2 THEN sum + t ELSE u[k]]
<1>7. /\ u \in [1 .. n + 1 -> Int] /\ u[1] = 0
      /\ \A k \in 1 .. n : u[k + 1] = u[k] + weight[k]
  <2>1. (n + 1) - 1 = n
    BY <1>2
  <2> QED
    BY <1>6, <2>1 DEF Sums, Adds
<1>8. Sums(v, weight', 1, (n + 1) + 1)
  <2>1. v \in [1 .. n + 2 -> Int] /\ v[1] = 0
    BY <1>2, <1>3, <1>7
  <2>2. ASSUME NEW k \in 1 .. n + 1 PROVE v[k + 1] = v[k] + weight'[k]
    <3>1. CASE k = n + 1
      BY <1>2, <1>4, <1>6, <3>1
    <3>2. CASE k # n + 1
      <4>1. k \in 1 .. n
        BY <1>2, <3>2
      <4>2. v[k] = u[k] /\ v[k + 1] = u[k + 1]
        BY <1>2, <4>1
      <4> QED
        BY <1>4, <1>7, <4>1, <4>2
    <3> QED
      BY <3>1, <3>2
  <2>3. (n + 1) + 1 = n + 2 /\ (n + 2) - 1 = n + 1
    BY <1>2
  <2> HIDE DEF v
  <2> QED
    BY <2>1, <2>2, <2>3 DEF Sums, Adds
<1>9. v[(n + 1) + 1] = sum'
  BY <1>1, <1>2
<1>10. lastnonzero' # Unassigned => v[lastnonzero' - i0' + 2] = sum'
  <2>1. CASE t # 0
    BY <1>1, <1>2, <1>5, <2>1
  <2>2. CASE t = 0 /\ lastnonzero # Unassigned
    <3>1. lastnonzero - i0 + 2 \in 1 .. n + 1
      BY <1>2, <1>5, <2>2 DEF Sampling
    <3>2. v[lastnonzero - i0 + 2] = u[lastnonzero - i0 + 2]
      BY <1>2, <3>1
    <3> HIDE DEF v
    <3> QED
      BY <1>1, <1>2, <1>6, <2>2, <3>2
  <2>3. CASE t = 0 /\ lastnonzero = Unassigned
    BY <1>1, <2>3
  <2> QED
    BY <2>1, <2>2, <2>3
<1> HIDE DEF v
<1>11. SumSoFar'
  BY <1>4, <1>8, <1>9, <1>10 DEF SumSoFar
<1> QED
  BY <1>1, <1>4, <1>11 DEF SumInv, SumIsOne

(* The sum is made up for.                                                 *)
LEMMA SumFudge ==
  ASSUME TableInv, SumInv, FudgeFits, Fudge
  PROVE  SumInv'
<1> DEFINE last == IF call.trimzeros THEN lastnonzero + 1 ELSE i1
           g == Fudged(i0, last)
           d == WEIGHTONE - sum
           n == Len(weight)
<1>1. /\ pc = "sample" /\ i = i1 /\ sum # 0 /\ pc' = "done" /\ call' = call /\ sum' = sum
      /\ wtab' = IF call.trimzeros THEN [i0 |-> i0, i1 |-> last] ELSE wtab
      /\ weight' = IF sum = WEIGHTONE THEN weight
                   ELSE [weight EXCEPT ![g - i0 + 1] = Short(@ + WEIGHTONE - sum)]
  BY DEF Fudge
<1>2. /\ Sampling /\ i \in Int /\ i0 \in Int /\ lastnonzero \in Int /\ call \in Calls
      /\ weight \in Seq(Int) /\ sum \in Int /\ n \in Nat
      /\ i = FilterRange.i1 /\ FilterRange.i1 \in Int /\ wtab.i0 = FilterRange.i0 /\ wtab.i1 = FilterRange.i1
      /\ lastnonzero # Unassigned
      /\ WEIGHTONE \in Nat \ {0} /\ d \in Int
  BY <1>1, RangeFits, WeightAssumption DEF TableInv, SumInv, Sampling
<1>3. /\ last \in Int /\ i0 < last /\ last <= i /\ n = i - i0
  BY <1>1, <1>2 DEF Sampling
<1>4. wtab'.i0 = i0 /\ wtab'.i1 = last
  BY <1>1, <1>2 DEF Sampling
<1>5. g \in Int /\ i0 <= g /\ g < last
  BY <1>2, <1>3, FudgedInside
<1>6. PICK u : /\ Sums(u, weight, 1, n + 1)
               /\ u[n + 1] = sum
               /\ u[lastnonzero - i0 + 2] = sum
  BY <1>1, <1>2 DEF SumInv, SumSoFar
<1>7. u[last - i0 + 1] = sum
  <2>1. CASE call.trimzeros
    <3>1. last - i0 + 1 = lastnonzero - i0 + 2
      BY <1>2, <2>1
    <3> QED
      BY <1>6, <3>1
  <2>2. CASE ~call.trimzeros
    <3>1. last - i0 + 1 = n + 1
      BY <1>1, <1>2, <1>3, <2>2
    <3> QED
      BY <1>6, <3>1
  <2> QED
    BY <2>1, <2>2
<1>8. \/ /\ -2 * WEIGHTONE <= weight[g - i0 + 1] + d
         /\ weight[g - i0 + 1] + d < 2 * WEIGHTONE
      \/ sum = WEIGHTONE
  <2>1. g - i0 + 1 \in 1 .. n
    <3> HIDE DEF g, last, n
    <3> QED
      BY <1>2, <1>3, <1>5, SMTT(30)
  <2>2. weight[g - i0 + 1] \in Int
    <3> HIDE DEF g
    <3> QED
      BY <1>2, <2>1
  <2>3. \/ sum = WEIGHTONE
        \/ /\ -2 * WEIGHTONE <= weight[g - i0 + 1] + WEIGHTONE - sum
           /\ weight[g - i0 + 1] + WEIGHTONE - sum < 2 * WEIGHTONE
    BY <1>1 DEF FudgeFits
  <2> HIDE DEF g
  <2> QED
    BY <1>2, <2>2, <2>3
<1> HIDE DEF last, g, n
<1>9. /\ weight' \in Seq(Int)
      /\ \A m \in 1 .. n : weight'[m] = IF m = g - i0 + 1 THEN weight[m] + d ELSE weight[m]
  <2>1. g - i0 + 1 \in 1 .. n /\ \A m \in 1 .. n : weight[m] \in Int
    BY <1>2, <1>3, <1>5, SMTT(30) DEF n
  <2>2. CASE sum = WEIGHTONE
    BY <1>1, <1>2, <2>1, <2>2
  <2>3. CASE sum # WEIGHTONE
    <3> DEFINE w == weight[g - i0 + 1]
    <3>1. w \in Int /\ w + WEIGHTONE - sum = w + d /\ w + d \in Int
      BY <1>2, <2>1
    <3>2. -2 * WEIGHTONE <= w + d /\ w + d < 2 * WEIGHTONE
      BY <1>8, <2>3
    <3> HIDE DEF w, d
    <3>3. Short(w + d) = w + d
      <4>1. /\ 4 * WEIGHTONE \in Nat \ {0}
            /\ (w + d) + 2 * WEIGHTONE \in 0 .. 4 * WEIGHTONE - 1
        BY <1>2, <3>1, <3>2
      <4>2. \A m \in Nat \ {0} : \A y \in 0 .. m - 1 : y % m = y
        OBVIOUS
      <4>3. ((w + d) + 2 * WEIGHTONE) % (4 * WEIGHTONE) = (w + d) + 2 * WEIGHTONE
        BY <4>1, <4>2
      <4> QED
        BY <1>2, <3>1, <4>3 DEF Short
    <3>4. weight' = [weight EXCEPT ![g - i0 + 1] = w + d]
      BY <1>1, <2>3, <3>1, <3>3 DEF w
    <3>5. /\ weight' \in Seq(Int)
          /\ weight'[g - i0 + 1] = w + d
          /\ \A m \in 1 .. n : m # g - i0 + 1 => weight'[m] = weight[m]
      BY <1>2, <2>1, <3>1, <3>4, ExceptSeq DEF n
    <3> QED
      BY <3>5 DEF w
  <2> QED
    BY <2>2, <2>3
<1> DEFINE f == [k \in i0 .. last - 1 |-> weight'[k - i0 + 1]]
           v == [k \in i0 .. last |-> u[k - i0 + 1] + (IF k > g THEN d ELSE 0)]
<1>10. /\ u \in [1 .. n + 1 -> Int] /\ u[1] = 0
       /\ \A k \in 1 .. n : u[k + 1] = u[k] + weight[k]
       /\ \A k \in 1 .. n : weight[k] \in Int
  <2>1. (n + 1) - 1 = n
    BY <1>2
  <2>2. \A k \in 1 .. n : weight[k] \in Int
    BY <1>2 DEF n
  <2> QED
    BY <1>6, <2>1, <2>2 DEF Sums, Adds
<1>11. Adds(v, f, i0, last)
  <2>1. v[i0] = 0
    <3>1. i0 \in i0 .. last /\ i0 - i0 + 1 = 1 /\ ~ (i0 > g)
      BY <1>2, <1>3, <1>5
    <3> QED
      BY <1>10, <3>1
  <2>2. ASSUME NEW k \in i0 .. last - 1 PROVE v[k + 1] = v[k] + f[k]
    <3> DEFINE m == k - i0 + 1
    <3>1. /\ m \in 1 .. n /\ k \in Int /\ k \in i0 .. last /\ k + 1 \in i0 .. last
          /\ (k + 1) - i0 + 1 = m + 1 /\ m + 1 \in 1 .. n + 1 /\ m \in 1 .. n + 1
          /\ (m = g - i0 + 1 <=> k = g)
      BY <1>2, <1>3, <1>5, SMTT(30)
    <3>2. /\ v[k + 1] = u[m + 1] + (IF k + 1 > g THEN d ELSE 0)
          /\ v[k] = u[m] + (IF k > g THEN d ELSE 0)
          /\ f[k] = weight'[m]
      BY <3>1
    <3>3. u[m + 1] = u[m] + weight[m] /\ u[m] \in Int /\ weight[m] \in Int
      BY <1>10, <3>1
    <3>4. weight'[m] = IF k = g THEN weight[m] + d ELSE weight[m]
      BY <1>9, <3>1
    <3> HIDE DEF m, v, f, d
    <3> QED
      BY <1>2, <1>5, <3>1, <3>2, <3>3, <3>4, SMTT(30)
  <2> HIDE DEF v, f
  <2> QED
    BY <2>1, <2>2 DEF Adds
<1>12. v[last] = WEIGHTONE
  <2>1. last \in i0 .. last /\ last > g
    BY <1>2, <1>3, <1>5
  <2>2. v[last] = sum + d
    BY <1>7, <2>1
  <2> HIDE DEF v
  <2> QED
    BY <1>2, <2>2
<1>13. f \in [i0 .. last - 1 -> Int]
  <2>1. ASSUME NEW k \in i0 .. last - 1 PROVE weight'[k - i0 + 1] \in Int
    <3>1. k - i0 + 1 \in 1 .. n
      BY <1>2, <1>3
    <3>2. \A m \in 1 .. n : weight'[m] \in Int
      <4>1. ASSUME NEW m \in 1 .. n PROVE weight'[m] \in Int
        <5>1. weight[m] \in Int /\ weight[m] + d \in Int
          BY <1>2, <1>10, SMTT(30)
        <5> HIDE DEF d
        <5> QED
          BY <1>9, <5>1
      <4> QED
        BY <4>1
    <3> QED
      BY <3>1, <3>2
  <2> QED
    BY <2>1
<1>14. SumsFrom(f, i0, last)[last] = WEIGHTONE
  <2> HIDE DEF f, v
  <2>1. Adds(SumsFrom(f, i0, last), f, i0, last)
    BY <1>2, <1>3, <1>13, SumsFromIs DEF Sums
  <2>2. last \in i0 .. last /\ i0 <= last
    BY <1>2, <1>3
  <2>3. SumsFrom(f, i0, last)[last] = v[last]
    BY <1>2, <1>3, <1>11, <2>1, <2>2, SumsUnique
  <2> QED
    BY <1>12, <2>3
<1>15. SumIsOne'
  BY <1>4, <1>14 DEF SumIsOne, WeightOf
<1> QED
  BY <1>1, <1>2, <1>9, <1>15 DEF SumInv

(* A step of make_weighttab keeps the sum that of the weights.             *)
LEMMA SumStep == TableInv /\ SumInv /\ FudgeFits /\ [Next]_vars => SumInv'
<1> SUFFICES ASSUME TableInv, SumInv, FudgeFits, [Next]_vars PROVE SumInv'
  OBVIOUS
<1>0. weight \in Seq(Int) /\ sum \in Int /\ i0 \in Int /\ lastnonzero \in Int
  BY DEF TableInv, SumInv
<1>1. CASE Bounds
  <2>1. /\ pc = "entry" /\ pc' = "sample"
        /\ lastnonzero' = lastnonzero /\ lastnonzero = Unassigned
        /\ UNCHANGED <<weight, sum>>
    BY <1>1 DEF Bounds, TableInv
  <2> QED
    BY <2>1 DEF SumInv, SumSoFar, SumIsOne
<1>2. CASE NullFilter \/ Overflow
  BY <1>2 DEF NullFilter, Overflow, SumInv, SumIsOne
<1>3. CASE SkipZero
  <2>1. /\ pc = "sample" /\ pc' = pc /\ stillzero
        /\ UNCHANGED <<weight, sum, lastnonzero>>
    BY <1>3 DEF SkipZero
  <2>2. lastnonzero = Unassigned
    BY <2>1 DEF TableInv, Sampling
  <2> QED
    BY <2>1, <2>2 DEF SumInv, SumSoFar, SumIsOne
<1>4. CASE AddWeight
  BY <1>4, SumAddWeight
<1>5. CASE CenterOnly
  <2> DEFINE mid == (wtab.i0 + wtab.i1) \div 2
  <2>1. /\ pc = "sample" /\ pc' = "done" /\ sum' = sum
        /\ wtab' = [i0 |-> mid, i1 |-> mid + 1]
        /\ weight' = <<WEIGHTONE>>
    BY <1>5 DEF CenterOnly
  <2>2. mid \in Int
    BY <2>1, RangeFits DEF TableInv, Sampling
  <2> HIDE DEF mid
  <2> DEFINE end == mid + 1
             f == [k \in mid .. end - 1 |-> weight'[k - mid + 1]]
  <2>3. WEIGHTONE \in Int
    BY WeightAssumption
  <2>4. weight' \in Seq(Int) /\ weight'[1] = WEIGHTONE
    BY <2>1, <2>3
  <2>5. /\ end \in Int /\ mid <= end /\ mid \in mid .. end - 1
        /\ mid - mid + 1 = 1 /\ \A k \in mid .. end - 1 : k = mid
    BY <2>2
  <2>6. f \in [mid .. end - 1 -> Int] /\ f[mid] = WEIGHTONE
    BY <2>3, <2>4, <2>5
  <2>7. SumsFrom(f, mid, end)[end] = WEIGHTONE
    <3> DEFINE u == SumsFrom(f, mid, end)
    <3>1. Sums(u, f, mid, end)
      <4> HIDE DEF f, end
      <4> QED
        BY <2>2, <2>5, <2>6, SumsFromIs
    <3> HIDE DEF u, f
    <3>2. u[mid] = 0 /\ u[end] = u[mid] + f[mid]
      BY <2>5, <3>1 DEF Sums, Adds
    <3> QED
      BY <2>3, <2>6, <3>2 DEF u
  <2> HIDE DEF end
  <2>8. wtab'.i0 = mid /\ wtab'.i1 = end
    BY <2>1 DEF end
  <2>9. SumIsOne'
    BY <2>7, <2>8 DEF SumIsOne, WeightOf
  <2> QED
    BY <1>0, <2>1, <2>4, <2>9 DEF SumInv
<1>6. CASE Fudge
  BY <1>6, SumFudge
<1>7. CASE UNCHANGED vars
  BY <1>7 DEF vars, SumInv, SumSoFar, SumIsOne, WeightOf
<1> QED
  BY <1>1, <1>2, <1>3, <1>4, <1>5, <1>6, <1>7 DEF Next, Returned

(* The weights in use sum to WEIGHTONE exactly, for all filters, scales,   *)
(* centers and sizes of weights, whatever was rounded and trimmed, unless  *)
(* the fudged weight overflows its short (zoom.c:739, 816-824).            *)
THEOREM WeightsSumToOne == Spec /\ []FudgeFits => []SumIsOne
<1>1. SumInv => SumIsOne
  BY DEF SumInv
<1> QED
  BY <1>1, SumInit, SumStep, TableInvariant, PTL DEF Spec
-----------------------------------------------------------------------------
(* Every line adds half a unit at most to what the sum is off.             *)
SampleSums ==
  SumsFrom([k \in FilterRange.i0 .. FilterRange.i1 - 1 |-> Sampled(k)],
           FilterRange.i0, FilterRange.i1)

SlightSoFar ==
  LET area == Area(FilterRange)
      off  == 2 * (sum * area - WEIGHTONE * SampleSums[i])
      most == (i - FilterRange.i0) * area
  IN  -most <= off /\ off <= most

SlightInv ==
  /\ sum \in Int
  /\ pc = "sample" /\ Area(FilterRange) > 0 => SlightSoFar

(* What the running sums of the samples are.                               *)
LEMMA SampleSumsAre ==
  ASSUME call \in Calls, FilterRange.i0 < FilterRange.i1
  PROVE  /\ Area(FilterRange) = SampleSums[FilterRange.i1]
         /\ SampleSums[FilterRange.i0] = 0
         /\ \A k \in FilterRange.i0 .. FilterRange.i1 : SampleSums[k] \in Int
         /\ \A k \in FilterRange.i0 .. FilterRange.i1 - 1 :
              SampleSums[k + 1] = SampleSums[k] + Sampled(k)
<1> DEFINE lo == FilterRange.i0
           hi == FilterRange.i1
           f == [k \in lo .. hi - 1 |-> Sampled(k)]
           u == SumsFrom(f, lo, hi)
<1>1. lo \in Int /\ hi \in Int /\ lo <= hi
  BY RangeFits
<1>2. f \in [lo .. hi - 1 -> Int]
  BY <1>1, SampledWhole
<1>3. Sums(u, f, lo, hi)
  <2> HIDE DEF f, lo, hi
  <2> QED
    BY <1>1, <1>2, SumsFromIs
<1>4. SampleSums = u /\ Area(FilterRange) = u[hi]
  BY DEF SampleSums, Area
<1> HIDE DEF u, lo, hi
<1>5. /\ u[lo] = 0
      /\ \A k \in lo .. hi : u[k] \in Int
      /\ \A k \in lo .. hi - 1 : u[k + 1] = u[k] + Sampled(k)
  BY <1>1, <1>3 DEF Sums, Adds
<1> QED
  BY <1>4, <1>5 DEF lo, hi

(* One line more, whose weight is the nearest integer.                     *)
LEMMA SlightOneMore ==
  ASSUME call \in Calls, FilterRange.i0 < FilterRange.i1, Area(FilterRange) > 0,
         i \in FilterRange.i0 .. FilterRange.i1 - 1, sum \in Int,
         SlightSoFar, NEW t \in Int, Nearest(i, t),
         call' = call, i' = i + 1, sum' = sum + t
  PROVE  SlightSoFar'
<1> DEFINE area == Area(FilterRange)
           r == SampleSums[i]
           s == Sampled(i)
           n == i - FilterRange.i0
           w == WEIGHTONE
<1>1. FilterRange.i0 \in Int /\ FilterRange.i1 \in Int /\ i \in Int /\ i \in FilterRange.i0 .. FilterRange.i1
  BY RangeFits
<1>2. /\ area \in Int /\ area > 0 /\ r \in Int /\ s \in Int /\ n \in Int /\ w \in Int
      /\ SampleSums[i + 1] = r + s
  <2>1. FilterRange.i1 \in FilterRange.i0 .. FilterRange.i1
    BY <1>1
  <2> QED
    BY <1>1, <2>1, SampleSumsAre, SampledWhole, WeightAssumption
<1>3. /\ Area(FilterRange)' = area /\ FilterRange' = FilterRange
      /\ SampleSums'[i'] = r + s /\ (i - FilterRange.i0)' = n + 1
  <2>1. FilterRange' = FilterRange
    BY SameFilter
  <2>2. /\ SampleSums' = SampleSums /\ Area(FilterRange)' = area
    BY <2>1 DEF SampleSums, Area, Sampled, Step
  <2>3. (i + 1) - FilterRange.i0 = n + 1
    BY <1>1
  <2> QED
    BY <1>2, <2>1, <2>2, <2>3
<1>4. /\ 2 * t * area <= 2 * w * s + area
      /\ 2 * t * area > 2 * w * s - area
  BY <1>2 DEF Nearest
<1>5. /\ -(n * area) <= 2 * (sum * area - w * r)
      /\ 2 * (sum * area - w * r) <= n * area
  BY DEF SlightSoFar
<1> HIDE DEF area, r, s, n, w
<1>6. /\ 2 * t * area = 2 * (t * area) /\ 2 * w * s = 2 * (w * s)
      /\ (sum + t) * area = sum * area + t * area
      /\ w * (r + s) = w * r + w * s
      /\ (n + 1) * area = n * area + area
      /\ t * area \in Int /\ w * s \in Int /\ sum * area \in Int /\ w * r \in Int /\ n * area \in Int
  BY <1>2
<1>7. /\ -((n + 1) * area) <= 2 * ((sum + t) * area - w * (r + s))
      /\ 2 * ((sum + t) * area - w * (r + s)) <= (n + 1) * area
  BY <1>2, <1>4, <1>5, <1>6
<1> QED
  BY <1>3, <1>7 DEF SlightSoFar, w

(* A step of make_weighttab keeps the sum near that of the samples.        *)
LEMMA SlightStep == TableInv /\ SlightInv /\ [Next]_vars => SlightInv'
<1> SUFFICES ASSUME TableInv, SlightInv, [Next]_vars PROVE SlightInv'
  OBVIOUS
<1>0. call \in Calls /\ i \in Int /\ i0 \in Int /\ sum \in Int
      /\ FilterRange.i0 \in Int /\ FilterRange.i1 \in Int
  BY RangeFits DEF TableInv, SlightInv
<1>1. CASE Bounds
  <2>1. /\ pc' = "sample" /\ call' = call /\ i' = FilterRange.i0 /\ sum' = 0
        /\ FilterRange.i0 < FilterRange.i1
    BY <1>1 DEF Bounds, TableInv
  <2>2. FilterRange' = FilterRange /\ SampleSums' = SampleSums /\ Area(FilterRange)' = Area(FilterRange)
    BY <2>1 DEF SampleSums, Area, Sampled, Step, FilterRange, RangeEnd, Spread4
  <2>3. SampleSums[FilterRange.i0] = 0 /\ Area(FilterRange) \in Int /\ WEIGHTONE \in Int
    <3>1. FilterRange.i1 \in FilterRange.i0 .. FilterRange.i1
      BY <1>0, <2>1
    <3> QED
      BY <1>0, <2>1, <3>1, SampleSumsAre, WeightAssumption
  <2> DEFINE a == Area(FilterRange)
  <2>4. /\ 2 * (0 * a - WEIGHTONE * 0) = 0
        /\ (FilterRange.i0 - FilterRange.i0) * a = 0
    BY <1>0, <2>3
  <2>5. SlightSoFar'
    BY <2>1, <2>2, <2>3, <2>4 DEF SlightSoFar
  <2> QED
    BY <2>1, <2>5 DEF SlightInv
<1>2. CASE NullFilter \/ Overflow \/ CenterOnly \/ Fudge
  BY <1>2 DEF NullFilter, Overflow, CenterOnly, Fudge, SlightInv
<1>3. CASE SkipZero \/ AddWeight
  <2> DEFINE t == Rounded(i)
  <2>1. /\ pc = "sample" /\ pc' = pc /\ i < i1 /\ i' = i + 1 /\ call' = call
        /\ (SkipZero => t = 0 /\ sum' = sum)
        /\ (AddWeight => sum' = sum + t)
    BY <1>3 DEF SkipZero, AddWeight
  <2>2. /\ Sampling /\ FilterRange.i0 < FilterRange.i1
        /\ i \in FilterRange.i0 .. FilterRange.i1 - 1
    BY <1>0, <2>1 DEF TableInv, Sampling
  <2>3. t \in Int /\ Nearest(i, t)
    BY <1>0, <2>2, RoundedNearest DEF Sampling
  <2> HIDE DEF t
  <2>4. sum' = sum + t
    <3>1. CASE SkipZero
      BY <1>0, <2>1, <3>1
    <3>2. CASE AddWeight
      BY <2>1, <3>2
    <3> QED
      BY <1>3, <3>1, <3>2
  <2>5. Area(FilterRange)' = Area(FilterRange)
    BY <2>1 DEF Area, Sampled, Step, FilterRange, RangeEnd, Spread4
  <2>6. CASE Area(FilterRange) > 0
    <3>1. SlightSoFar'
      BY <1>0, <2>1, <2>2, <2>3, <2>4, <2>6, SlightOneMore DEF SlightInv
    <3> QED
      BY <1>0, <2>3, <2>4, <3>1 DEF SlightInv
  <2>7. CASE ~ (Area(FilterRange) > 0)
    BY <1>0, <2>3, <2>4, <2>5, <2>7 DEF SlightInv
  <2> QED
    BY <2>6, <2>7
<1>4. CASE UNCHANGED vars
  <2>1. FilterRange' = FilterRange /\ SampleSums' = SampleSums /\ Area(FilterRange)' = Area(FilterRange)
    BY <1>4 DEF vars, SampleSums, Area, Sampled, Step, FilterRange, RangeEnd, Spread4
  <2> QED
    BY <1>4, <2>1 DEF vars, SlightInv, SlightSoFar
<1> QED
  BY <1>1, <1>2, <1>3, <1>4 DEF Next, Returned

(* The center is fudged slightly, by half a unit per line at most, for all *)
(* filters, scales, centers and sizes of weights (zoom.c:814-824).         *)
THEOREM FudgedSlightly == Spec => []FudgeSlight
<1>1. Init => SlightInv
  BY DEF Init, SlightInv
<1>2. TableInv /\ SlightInv => FudgeSlight
  <2> SUFFICES ASSUME TableInv, SlightInv, pc = "sample", i = i1, Area(FilterRange) > 0
               PROVE  2 * Abs(WEIGHTONE - sum) <= FilterRange.i1 - FilterRange.i0
    BY DEF FudgeSlight
  <2> DEFINE area == Area(FilterRange)
             n == FilterRange.i1 - FilterRange.i0
             d == WEIGHTONE - sum
  <2>1. /\ FilterRange.i0 \in Int /\ FilterRange.i1 \in Int /\ FilterRange.i0 < FilterRange.i1
        /\ i = FilterRange.i1 /\ sum \in Int /\ WEIGHTONE \in Int /\ call \in Calls
    BY RangeFits, WeightAssumption DEF TableInv, Sampling, SlightInv
  <2>2. area \in Int /\ area > 0 /\ SampleSums[i] = area
    <3>1. FilterRange.i1 \in FilterRange.i0 .. FilterRange.i1
      BY <2>1
    <3> QED
      BY <2>1, <3>1, SampleSumsAre
  <2>3. /\ -(n * area) <= 2 * (sum * area - WEIGHTONE * area)
        /\ 2 * (sum * area - WEIGHTONE * area) <= n * area
    BY <2>1, <2>2 DEF SlightInv, SlightSoFar
  <2>4. n \in Int /\ d \in Int
    BY <2>1
  <2>5. 2 * (sum * area - WEIGHTONE * area) = area * (-2 * d)
    BY <2>1, <2>2
  <2> HIDE DEF area, n
  <2>6. /\ area * (-n) <= area * (-2 * d) /\ area * (-2 * d) <= area * n
    BY <2>2, <2>3, <2>4, <2>5
  <2> HIDE DEF d
  <2>7. -n <= -2 * d /\ -2 * d <= n
    <3>1. \A y, z \in Int : area * y <= area * z => y <= z
      BY <2>2
    <3>2. -n \in Int /\ -2 * d \in Int
      BY <2>4
    <3> QED
      BY <2>4, <2>6, <3>1, <3>2
  <2>8. 2 * Abs(d) <= n
    BY <2>4, <2>7 DEF Abs
  <2> QED
    BY <2>8 DEF n, d
<1> QED
  BY <1>1, <1>2, SlightStep, TableInvariant, PTL DEF Spec
-----------------------------------------------------------------------------
(* What the shapes of the filters imply.  A filter without lobes is        *)
(* nowhere negative.                                                       *)
LEMMA InnerCubicPositive ==
  ASSUME NEW r \in Nat, NEW q \in Nat, r < q
  PROVE  Poly(<<4, 0, -6, 3>>, r, q) >= 0
<1> DEFINE d == q - r
<1>1. d \in Nat /\ q = r + d
  OBVIOUS
<1> HIDE DEF d
<1>2. Poly(<<4, 0, -6, 3>>, r, q) = r * r * r + 6 * (r * r * d) + 12 * (r * d * d) + 4 * (d * d * d)
  BY <1>1, SMTT(30) DEF Poly
<1>3. /\ r * r \in Nat /\ r * d \in Nat /\ d * d \in Nat
      /\ r * r * r \in Nat /\ r * r * d \in Nat /\ r * d * d \in Nat /\ d * d * d \in Nat
  BY <1>1
<1> QED
  BY <1>2, <1>3

LEMMA OuterCubicPositive ==
  ASSUME NEW r \in Nat, NEW q \in Nat, r < 2 * q
  PROVE  Poly(<<8, -12, 6, -1>>, r, q) >= 0
<1> DEFINE d == 2 * q - r
<1>1. d \in Nat /\ r = 2 * q - d
  OBVIOUS
<1> HIDE DEF d
<1>2. Poly(<<8, -12, 6, -1>>, r, q) = d * d * d
  BY <1>1, SMTT(30) DEF Poly
<1>3. d * d \in Nat /\ d * d * d \in Nat
  BY <1>1
<1> QED
  BY <1>2, <1>3

LEMMA QuadraticPositive ==
  ASSUME NEW r \in Nat, NEW q \in Nat
  PROVE  filt_quadratic(r, q) >= 0
<1>1. CASE 2 * r <= q
  <2> DEFINE d == q - 2 * r
  <2>1. d \in Nat /\ q = d + 2 * r
    BY <1>1
  <2> HIDE DEF d
  <2>2. 6 * q * q - 8 * r * r = 6 * (d * d) + 24 * (d * r) + 16 * (r * r)
    BY <2>1, SMTT(30)
  <2>3. d * d \in Nat /\ d * r \in Nat /\ r * r \in Nat
    BY <2>1
  <2>4. 6 * q * q - 8 * r * r >= 0
    BY <2>2, <2>3
  <2> QED
    BY <1>1, <2>4 DEF filt_quadratic
<1>2. CASE ~(2 * r <= q)
  <2>1. \A x \in Int : x * x >= 0
    OBVIOUS
  <2>2. 2 * r - 3 * q \in Int
    OBVIOUS
  <2>3. (2 * r - 3 * q) * (2 * r - 3 * q) >= 0
    BY <2>1, <2>2
  <2> QED
    BY <1>2, <2>3 DEF filt_quadratic
<1> QED
  BY <1>1, <1>2

LEMMA LobeFree ==
  ASSUME call \in Calls, ~HasLobes(call.filter), NEW k \in Int
  PROVE  Sampled(k) >= 0
<1> DEFINE p == 2 * (Grid * k - call.cen) + Grid
           q == Step
<1>1. /\ call.filter \in Filters /\ call.cen \in Int /\ Grid \in Nat \ {0}
      /\ call.scale2 \in Nat \ {0}
  BY WeightAssumption
<1>2. p \in Int /\ q \in Nat
  BY <1>1 DEF Step
<1> HIDE DEF p, q
<1>3. Abs(p) \in Nat
  BY <1>2 DEF Abs
<1>4. Value(call.filter, p, q) >= 0
  <2>1. CASE call.filter \in {"point", "box"}
    BY <2>1 DEF Value, filt_box
  <2>2. CASE call.filter = "triangle"
    BY <1>2, <1>3, <2>2 DEF Value, filt_triangle
  <2>3. CASE call.filter = "quadratic"
    BY <1>2, <1>3, <2>3, QuadraticPositive DEF Value
  <2>4. CASE call.filter = "cubic"
    <3>1. filt_cubic(Abs(p), q) >= 0
      BY <1>2, <1>3, InnerCubicPositive, OuterCubicPositive DEF filt_cubic, TwoPieces
    <3> QED
      BY <2>4, <3>1 DEF Value
  <2> QED
    BY <1>1, <2>1, <2>2, <2>3, <2>4 DEF Filters, HasLobes
<1> QED
  BY <1>4 DEF Sampled, p, q

(* Running sums of what is nowhere negative never fall.                    *)
LEMMA NeverFalling ==
  ASSUME NEW m \in Int, NEW n \in Int, NEW u, NEW f,
         \A k \in m .. n : u[k] \in Int,
         \A k \in m .. n - 1 : f[k] \in Nat /\ u[k + 1] = u[k] + f[k]
  PROVE  \A j, k \in m .. n : j <= k => u[j] <= u[k]
<1> SUFFICES ASSUME NEW j \in m .. n PROVE \A k \in m .. n : j <= k => u[j] <= u[k]
  OBVIOUS
<1> DEFINE Fallen == {d \in 0 .. n - j : ~(u[j] <= u[j + d])}
<1>1. Fallen = {}
  <2> SUFFICES ASSUME Fallen # {} PROVE FALSE
    OBVIOUS
  <2>1. PICK d \in Fallen : \A e \in Fallen : d <= e
    <3>1. Fallen \subseteq Nat
      OBVIOUS
    <3> HIDE DEF Fallen
    <3> QED
      BY <3>1, LeastOf
  <2>2. d \in 0 .. n - j /\ ~(u[j] <= u[j + d]) /\ u[j] \in Int /\ j \in Int
    BY <2>1
  <2>3. d # 0
    <3>1. j + 0 = j
      BY <2>2
    <3> QED
      BY <2>2, <3>1
  <2> DEFINE l == j + (d - 1)
  <2>4. d - 1 \in 0 .. n - j /\ ~(d <= d - 1) /\ l \in m .. n - 1 /\ l \in m .. n /\ l + 1 = j + d
    BY <2>2, <2>3
  <2>5. d - 1 \notin Fallen
    <3> HIDE DEF Fallen, l
    <3> QED
      BY <2>1, <2>4
  <2>6. u[j] <= u[l]
    BY <2>4, <2>5
  <2> HIDE DEF l
  <2>7. u[l + 1] = u[l] + f[l] /\ f[l] \in Nat /\ u[l] \in Int
    BY <2>4
  <2>8. u[j] <= u[l + 1]
    BY <2>2, <2>6, <2>7
  <2> QED
    BY <2>2, <2>4, <2>8
<1> SUFFICES ASSUME NEW k \in m .. n, j <= k PROVE u[j] <= u[k]
  OBVIOUS
<1>2. k - j \in 0 .. n - j /\ j + (k - j) = k
  OBVIOUS
<1> QED
  BY <1>1, <1>2

(* No sample of a filter without lobes is more than all of them.           *)
LEMMA PartOfArea ==
  ASSUME call \in Calls, ~HasLobes(call.filter), FilterRange.i0 < FilterRange.i1,
         NEW k \in FilterRange.i0 .. FilterRange.i1 - 1
  PROVE  0 <= Sampled(k) /\ Sampled(k) <= Area(FilterRange)
<1> DEFINE lo == FilterRange.i0
           hi == FilterRange.i1
           u == SampleSums
           f == [j \in lo .. hi - 1 |-> Sampled(j)]
<1>1. lo \in Int /\ hi \in Int
  BY RangeFits
<1>2. /\ Area(FilterRange) = u[hi] /\ u[lo] = 0
      /\ \A j \in lo .. hi : u[j] \in Int
      /\ \A j \in lo .. hi - 1 : u[j + 1] = u[j] + Sampled(j)
  BY SampleSumsAre
<1>3. \A j \in lo .. hi - 1 : Sampled(j) \in Nat
  BY <1>1, LobeFree, SampledWhole
<1>4. k \in lo .. hi - 1 /\ lo < hi
  OBVIOUS
<1>5. \A j \in lo .. hi - 1 : f[j] = Sampled(j)
  OBVIOUS
<1> HIDE DEF lo, hi, u, f
<1>6. \A j \in lo .. hi - 1 : f[j] \in Nat /\ u[j + 1] = u[j] + f[j]
  BY <1>2, <1>3, <1>5
<1>7. \A j, l \in lo .. hi : j <= l => u[j] <= u[l]
  BY <1>1, <1>2, <1>6, NeverFalling
<1>8. lo \in lo .. hi /\ k \in lo .. hi /\ k + 1 \in lo .. hi /\ hi \in lo .. hi /\ lo <= k /\ k + 1 <= hi
  BY <1>1, <1>4
<1>9. u[lo] <= u[k] /\ u[k + 1] <= u[hi]
  BY <1>7, <1>8
<1> QED
  BY <1>2, <1>3, <1>4, <1>8, <1>9

(* So no weight is more than one, and it fits a short.                     *)
LEMMA LobeFreeFits ==
  ASSUME call \in Calls, ~HasLobes(call.filter), FilterRange.i0 < FilterRange.i1,
         wtab = FilterRange, NEW k \in FilterRange.i0 .. FilterRange.i1 - 1
  PROVE  FitsShort(k)
<1> DEFINE s == Sampled(k)
           area == Area(FilterRange)
           w == WEIGHTONE
           unit == Unit(call.filter, Step)
<1>1. k \in Int
  BY RangeFits
<1>2. s \in Nat /\ area \in Nat /\ s <= area /\ unit \in Nat \ {0} /\ w \in Nat \ {0}
  <2>1. FilterRange \in [i0 : Int, i1 : Int]
    BY RangeFits DEF FilterRange
  <2>2. area \in Int /\ s \in Int
    BY <1>1, <2>1, AreaWhole, SampledWhole
  <2> QED
    BY <1>1, <2>2, PartOfArea, SampledWhole, WeightAssumption
<1>3. Normalized(k) = IF area = 0 THEN [num |-> w * s, over |-> unit]
                      ELSE IF area > 0 THEN [num |-> w * s, over |-> area]
                      ELSE [num |-> -w * s, over |-> -area]
  BY DEF Normalized, den
<1> HIDE DEF s, area, w, unit
<1>4. CASE area = 0
  <2>1. s = 0 /\ w * s = 0
    BY <1>2, <1>4
  <2>2. Normalized(k).num = 0 /\ Normalized(k).over = unit
    BY <1>3, <1>4, <2>1
  <2>3. -2 * w * unit <= 0 /\ 0 <= (2 * w - 1) * unit
    BY <1>2
  <2> QED
    BY <2>2, <2>3 DEF FitsShort, w
<1>5. CASE area > 0
  <2>1. Normalized(k).num = w * s /\ Normalized(k).over = area
    BY <1>3, <1>5
  <2>2. 0 <= w * s /\ w * s <= w * area /\ -2 * w * area <= 0
    BY <1>2
  <2>3. w * area <= (2 * w - 1) * area
    <3>1. w <= 2 * w - 1 /\ 2 * w - 1 \in Nat
      BY <1>2
    <3>2. \A x, y, z \in Nat : x <= y => x * z <= y * z
      OBVIOUS
    <3> QED
      BY <1>2, <3>1, <3>2
  <2>4. -2 * w * area <= w * s /\ w * s <= (2 * w - 1) * area
    <3>1. w * s \in Int /\ w * area \in Int /\ (2 * w - 1) * area \in Int /\ -2 * w * area \in Int
      BY <1>2
    <3> QED
      BY <2>2, <2>3, <3>1
  <2> QED
    BY <2>1, <2>4 DEF FitsShort, w
<1> QED
  BY <1>2, <1>4, <1>5

(* Only a filter with negative lobes can stop the program with a weight    *)
(* that is too large for its table, at all scales, centers and sizes of    *)
(* weights: the first half of OverflowOnlyIfCutOff (zoom.c:784-787).       *)
OverflowHasLobes == pc = "overflow" => HasLobes(call.filter)

(* Without lobes no sample is more than the area, so no weight more than  *)
(* one: the check of zoom.c:784-787 passes.                                *)
THEOREM OverflowNeedsLobes == Spec => []OverflowHasLobes
<1>1. Init => OverflowHasLobes
  BY DEF Init, OverflowHasLobes
<1>2. TableInv /\ OverflowHasLobes /\ [Next]_vars => OverflowHasLobes'
  <2> SUFFICES ASSUME TableInv, OverflowHasLobes, [Next]_vars PROVE OverflowHasLobes'
    OBVIOUS
  <2>1. CASE Overflow
    <3>1. pc = "sample" /\ i < i1 /\ ~FitsShort(i) /\ call' = call
      BY <2>1 DEF Overflow
    <3>2. /\ call \in Calls /\ wtab = FilterRange /\ FilterRange.i0 < FilterRange.i1
          /\ i \in Int /\ i0 \in Int /\ FilterRange.i0 <= i /\ i < FilterRange.i1
          /\ FilterRange.i0 \in Int /\ FilterRange.i1 \in Int
      BY <3>1, RangeFits DEF TableInv, Sampling
    <3>3. i \in FilterRange.i0 .. FilterRange.i1 - 1
      BY <3>2
    <3>4. HasLobes(call.filter)
      BY <3>1, <3>2, <3>3, LobeFreeFits
    <3> QED
      BY <3>1, <3>4 DEF OverflowHasLobes
  <2>2. CASE Bounds \/ NullFilter \/ SkipZero \/ AddWeight \/ CenterOnly \/ Fudge
    BY <2>2 DEF Bounds, NullFilter, SkipZero, AddWeight, CenterOnly, Fudge, OverflowHasLobes
  <2>3. CASE UNCHANGED vars
    BY <2>3 DEF vars, OverflowHasLobes
  <2> QED
    BY <2>1, <2>2, <2>3 DEF Next, Returned
<1> QED
  BY <1>1, <1>2, TableInvariant, PTL DEF Spec

-----------------------------------------------------------------------------
(* A cardinal filter is zero a whole number of its units away from its     *)
(* center.                                                                 *)
LEMMA MultipleOf ==
  ASSUME NEW x \in Int, NEW q \in Nat \ {0}, x # 0, x % q = 0
  PROVE  Abs(x) = q \/ Abs(x) >= 2 * q
<1> DEFINE m == x \div q
<1>1. m \in Int /\ x = q * m
  OBVIOUS
<1> HIDE DEF m
<1>2. m # 0
  BY <1>1
<1>3. CASE m = 1 \/ m = -1
  BY <1>1, <1>3 DEF Abs
<1>4. CASE m >= 2
  <2>1. q * m >= q * 2
    BY <1>1, <1>4
  <2> QED
    BY <1>1, <2>1 DEF Abs
<1>5. CASE m <= -2
  <2>1. q * m <= q * (-2)
    BY <1>1, <1>5
  <2> QED
    BY <1>1, <2>1 DEF Abs
<1> QED
  BY <1>1, <1>2, <1>3, <1>4, <1>5

LEMMA ZeroAtUnits ==
  ASSUME call \in Calls, Cardinal(call.filter), NEW k \in Int,
         2 * (Grid * k - call.cen) + Grid # 0,
         (2 * (Grid * k - call.cen) + Grid) % Step = 0
  PROVE  Sampled(k) = 0
<1> DEFINE p == 2 * (Grid * k - call.cen) + Grid
           q == Step
<1>1. /\ call.filter \in Filters /\ call.cen \in Int /\ Grid \in Nat \ {0}
      /\ call.scale2 \in Nat \ {0}
  BY WeightAssumption
<1>2. p \in Int /\ q \in Nat \ {0} /\ p # 0 /\ p % q = 0
  BY <1>1 DEF Step
<1> HIDE DEF p, q
<1>3. Abs(p) = q \/ Abs(p) >= 2 * q
  BY <1>2, MultipleOf
<1>4. Abs(p) \in Nat /\ Abs(p) >= q
  BY <1>2, <1>3 DEF Abs
<1>5. Value(call.filter, p, q) = 0
  <2>1. CASE call.filter \in {"point", "box"}
    <3>1. filt_box(p, q) = 0
      BY <1>2, <1>4 DEF filt_box, Abs
    <3> QED
      BY <2>1, <3>1 DEF Value
  <2>2. CASE call.filter = "triangle"
    BY <1>2, <1>4, <2>2 DEF Value, filt_triangle
  <2>3. CASE call.filter = "catrom"
    <3>1. Poly(<<4, -8, 5, -1>>, q, q) = 0
      BY <1>2, SMTT(30) DEF Poly
    <3>2. filt_catrom(Abs(p), q) = 0
      BY <1>2, <1>3, <1>4, <3>1 DEF filt_catrom, TwoPieces
    <3> QED
      BY <2>3, <3>2 DEF Value
  <2> QED
    BY <2>1, <2>2, <2>3 DEF Cardinal
<1> QED
  BY <1>5 DEF Sampled, p, q

LEMMA ZeroRounded ==
  ASSUME call \in Calls, wtab = FilterRange, FilterRange.i0 < FilterRange.i1,
         NEW k \in Int, Sampled(k) = 0
  PROVE  Rounded(k) = 0
<1> DEFINE area == Area(FilterRange)
           unit == Unit(call.filter, Step)
           tr == Normalized(k)
<1>1. area \in Int /\ unit \in Nat \ {0} /\ WEIGHTONE \in Nat
  <2>1. FilterRange \in [i0 : Int, i1 : Int]
    BY RangeFits DEF FilterRange
  <2> QED
    BY <2>1, AreaWhole, SampledWhole, WeightAssumption
<1>2. WEIGHTONE * Sampled(k) = 0 /\ -WEIGHTONE * Sampled(k) = 0
  BY <1>1
<1>3. tr = IF area = 0 THEN [num |-> WEIGHTONE * Sampled(k), over |-> unit]
           ELSE IF area > 0 THEN [num |-> WEIGHTONE * Sampled(k), over |-> area]
           ELSE [num |-> -WEIGHTONE * Sampled(k), over |-> -area]
  BY DEF Normalized, den
<1> HIDE DEF area, unit, tr
<1>4. tr.num = 0 /\ tr.over \in Nat \ {0}
  BY <1>1, <1>2, <1>3
<1>5. \A d \in Nat \ {0} : (2 * 0 + d) \div (2 * d) = 0
  OBVIOUS
<1> QED
  BY <1>4, <1>5 DEF Rounded, tr

(* If the filter has zeros only at the lines of its window, nothing is     *)
(* ever added up, and the window shrinks to its middle line, at all scales *)
(* and sizes of weights: the half of CenterOnlyIffWeightless on which the  *)
(* feedback after a line without weights rests (zoom.c:798-804).           *)
NothingAddsUp == pc = "sample" /\ AtZerosOnly => sum = 0

(* Each of these lines has a sample of zero, which is rounded to zero      *)
(* whatever the area: zoom.c:798-804 finds the sum 0.                      *)
THEOREM WeightlessShrinks == Spec => []NothingAddsUp
<1>1. Init => NothingAddsUp
  BY DEF Init, NothingAddsUp
<1>2. TableInv /\ NothingAddsUp /\ [Next]_vars => NothingAddsUp'
  <2> SUFFICES ASSUME TableInv, NothingAddsUp, [Next]_vars, pc' = "sample", AtZerosOnly'
               PROVE  sum' = 0
    BY DEF NothingAddsUp
  <2>1. CASE Bounds
    BY <2>1 DEF Bounds, TableInv
  <2>2. CASE SkipZero
    <3>1. pc = "sample" /\ sum' = sum /\ call' = call /\ wtab' = wtab
      BY <2>2 DEF SkipZero
    <3> QED
      BY <3>1 DEF NothingAddsUp, AtZerosOnly, Step
  <2>3. CASE AddWeight
    <3>1. /\ pc = "sample" /\ i < i1 /\ sum' = sum + Rounded(i)
          /\ call' = call /\ wtab' = wtab
      BY <2>3 DEF AddWeight
    <3>2. AtZerosOnly /\ sum = 0
      BY <3>1 DEF NothingAddsUp, AtZerosOnly, Step
    <3>3. /\ call \in Calls /\ wtab = FilterRange /\ FilterRange.i0 < FilterRange.i1
          /\ i \in Int /\ i0 \in Int /\ FilterRange.i0 <= i /\ i < FilterRange.i1
          /\ FilterRange.i0 \in Int /\ FilterRange.i1 \in Int
      BY <3>1, RangeFits DEF TableInv, Sampling
    <3>4. i \in wtab.i0 .. wtab.i1 - 1
      BY <3>3
    <3>5. Sampled(i) = 0
      BY <3>2, <3>3, <3>4, ZeroAtUnits DEF AtZerosOnly
    <3> QED
      BY <3>1, <3>2, <3>3, <3>5, ZeroRounded
  <2>4. CASE NullFilter \/ Overflow \/ CenterOnly \/ Fudge
    BY <2>4 DEF NullFilter, Overflow, CenterOnly, Fudge
  <2>5. CASE UNCHANGED vars
    BY <2>5 DEF vars, NothingAddsUp, AtZerosOnly, Step
  <2> QED
    BY <2>1, <2>2, <2>3, <2>4, <2>5 DEF Next, Returned
<1> QED
  BY <1>1, <1>2, TableInvariant, PTL DEF Spec
=============================================================================
