------------------------- MODULE ScanlineSumsProofs -------------------------
(***************************************************************************)
(* What the two filters do to a pixel, for all widths of pixels and        *)
(* weights and for all tables of weights that sum to one: a picture of one *)
(* color keeps it, no sum outgrows an int, and the pixel written is the    *)
(* one nearest to the exact sum but for what the shift between the filters *)
(* loses.                                                                  *)
(***************************************************************************)
EXTENDS ScanlineSums, WellFoundedInduction, TLAPS

(* A shift drops what is less than its unit.                               *)
LEMMA ShiftOf ==
  ASSUME NEW a \in Int, NEW n \in Nat \ {0}, NEW h \in 0 .. n - 1
  PROVE  (a * n + h) \div n = a
<1>1. a * n \in Int /\ n * a = a * n
  OBVIOUS
<1>2. n * a <= a * n + h /\ a * n + h < n * a + n
  BY <1>1
<1> QED
  BY <1>1, <1>2, SMTT(30)

(* The units are whole, and the rounding constants less than the units.    *)
LEMMA Units ==
  /\ CHANWHITE \in Nat /\ WEIGHTONE \in Nat \ {0} /\ Final \in Nat \ {0}
  /\ Chan \in Nat \ {0} /\ Spare \in Nat \ {0}
  /\ Chan \div 2 \in 0 .. Chan - 1
  /\ Final \div 2 \in 0 .. Final - 1
<1>1. Chan \in Nat \ {0} /\ Spare \in Nat \ {0}
  BY SumsAssumption
<1>2. WEIGHTONE \in Nat \ {0}
  BY <1>1 DEF WEIGHTONE
<1>3. Final \in Nat \ {0}
  BY <1>1, <1>2 DEF Final
<1>4. \A n \in Nat \ {0} : n \div 2 \in 0 .. n - 1
  OBVIOUS
<1> QED
  BY <1>1, <1>2, <1>3, <1>4 DEF CHANWHITE

(* A color that went through the first filter comes out with the spare     *)
(* bits of the weights, and fits in a short.                               *)
LEMMA BetweenOf ==
  ASSUME NEW v \in 0 .. CHANWHITE, NEW h \in 0 .. Chan - 1
  PROVE  Between(h + v * WEIGHTONE) = v * Spare
<1> DEFINE a == v * Spare
<1>1. /\ v \in Nat /\ v <= Chan - 1
      /\ Chan \in Nat \ {0} /\ Spare \in Nat \ {0} /\ WEIGHTONE \in Nat \ {0}
  BY Units DEF CHANWHITE
<1>2. a \in Nat
  BY <1>1
<1>3. v * WEIGHTONE = a * Chan
  BY <1>1 DEF WEIGHTONE
<1>4. a <= WEIGHTONE
  <2>1. v * Spare <= Chan * Spare
    BY <1>1
  <2> QED
    BY <2>1 DEF WEIGHTONE
<1>5. (h + v * WEIGHTONE) \div Chan = a
  <2>1. a * Chan \in Int
    BY <1>1, <1>2
  <2>2. h + v * WEIGHTONE = a * Chan + h
    BY <1>3, <2>1
  <2>3. (a * Chan + h) \div Chan = a
    BY <1>1, <1>2, ShiftOf
  <2> QED
    BY <2>2, <2>3
<1>6. Short(a) = a
  <2> HIDE DEF a
  <2>1. (a + 2 * WEIGHTONE) % (4 * WEIGHTONE) = a + 2 * WEIGHTONE
    <3>1. /\ 4 * WEIGHTONE \in Nat \ {0}
          /\ a + 2 * WEIGHTONE \in 0 .. 4 * WEIGHTONE - 1
      BY <1>1, <1>2, <1>4
    <3>2. \A m \in Nat \ {0} : \A x \in 0 .. m - 1 : x % m = x
      OBVIOUS
    <3> QED
      BY <3>1, <3>2
  <2> QED
    BY <1>1, <1>2, <2>1 DEF Short
<1> QED
  BY <1>5, <1>6 DEF Between

(* The last shift gives the color back.                                    *)
LEMMA LastShift ==
  ASSUME NEW v \in 0 .. CHANWHITE, NEW x, x = Final \div 2 + v * Spare * WEIGHTONE
  PROVE  Peg(x \div Final) = v
<1>1. /\ v \in Int /\ 0 <= v /\ v <= CHANWHITE /\ CHANWHITE \in Nat
      /\ Spare \in Nat \ {0} /\ WEIGHTONE \in Nat \ {0}
      /\ Final \in Nat \ {0} /\ Final \div 2 \in 0 .. Final - 1
  BY Units
<1>2. v * Spare * WEIGHTONE = v * Final
  BY <1>1 DEF Final
<1>3. v * Final \in Int
  BY <1>1
<1>4. x = v * Final + Final \div 2
  BY <1>1, <1>2, <1>3
<1>5. x \div Final = v
  BY <1>1, <1>4, ShiftOf
<1> QED
  BY <1>1, <1>5 DEF Peg

(* One more weight times a color.                                          *)
LEMMA OneMore ==
  ASSUME NEW t \in Tables, NEW k \in Nat, k < t.size, NEW c \in Int
  PROVE  /\ t.upto[k] \in Int /\ t.upto[k + 1] \in Int
         /\ c * t.upto[k] + Weight(t, k) * c = c * t.upto[k + 1]
<1>1. t.size \in Nat /\ t.upto \in [0 .. t.size -> Int]
  BY SumsAssumption
<1>2. t.upto[k] \in Int /\ t.upto[k + 1] \in Int
  BY <1>1
<1>3. \A x, y \in Int : c * x + (y - x) * c = c * y
  OBVIOUS
<1> QED
  BY <1>2, <1>3 DEF Weight
-----------------------------------------------------------------------------
(* The inductive invariant: where the two filters are, and what the sums   *)
(* hold when there is one color.                                           *)
SumsType ==
  /\ order \in {"xy", "yx"}
  /\ xtab \in Tables /\ ytab \in Tables
  /\ colors \in Pictures
  /\ i \in Nat /\ j \in Nat
  /\ i <= (IF order = "xy" THEN xtab.size ELSE ytab.size)
  /\ j <= (IF order = "xy" THEN ytab.size ELSE xtab.size)

SumsOf(v) ==
  /\ order = "xy" => /\ sum = Chan \div 2 + v * xtab.upto[i]
                     /\ accum = v * Spare * ytab.upto[j]
  /\ order = "yx" => /\ accum = v * ytab.upto[i]
                     /\ sum = Final \div 2 + v * Spare * xtab.upto[j]
  /\ pixel \in {Unwritten, v}

SumsInv == SumsType /\ \A v \in colors : colors = {v} => SumsOf(v)

(* What SumsAssumption says of a table of weights: it starts at nothing    *)
(* and ends at WEIGHTONE.                                                  *)
LEMMA TableFacts ==
  ASSUME NEW t \in Tables
  PROVE  t.size \in Nat \ {0} /\ t.upto[0] = 0 /\ t.upto[t.size] = WEIGHTONE
BY SumsAssumption

(* The accumulators start with the rounding term and nothing else.         *)
LEMMA SumsInit == Init => SumsInv
<1> SUFFICES ASSUME Init PROVE SumsInv
  OBVIOUS
<1>1. /\ xtab.size \in Nat \ {0} /\ xtab.upto[0] = 0
      /\ ytab.size \in Nat \ {0} /\ ytab.upto[0] = 0
  BY TableFacts DEF Init
<1>2. SumsType
  BY <1>1 DEF Init, SumsType
<1>3. ASSUME NEW v \in colors PROVE SumsOf(v)
  <2>1. v \in Int
    BY SumsAssumption, Units DEF Init
  <2>2. /\ v * xtab.upto[0] = 0 /\ v * Spare * xtab.upto[0] = 0
        /\ v * ytab.upto[0] = 0 /\ v * Spare * ytab.upto[0] = 0
    BY <1>1, <2>1, Units
  <2>3. Chan \div 2 \in Int /\ Final \div 2 \in Int
    BY Units
  <2> QED
    BY <2>2, <2>3 DEF Init, SumsOf, FilterStart
<1> QED
  BY <1>2, <1>3 DEF SumsInv

(* Every step of the scanline routines keeps the sums at color times       *)
(* weight used up.                                                         *)
LEMMA SumsStep == SumsInv /\ [Next]_vars => SumsInv'
<1> SUFFICES ASSUME SumsInv, [Next]_vars PROVE SumsInv'
  OBVIOUS
<1> USE DEF SumsType
<1>0. /\ SumsType
      /\ xtab.size \in Nat \ {0} /\ xtab.upto[0] = 0 /\ xtab.upto[xtab.size] = WEIGHTONE
      /\ ytab.size \in Nat \ {0} /\ ytab.upto[0] = 0 /\ ytab.upto[ytab.size] = WEIGHTONE
  BY TableFacts DEF SumsInv
<1>1. ASSUME NEW v \in colors, colors = {v} PROVE v \in 0 .. CHANWHITE /\ v \in Int /\ SumsOf(v)
  BY <1>0, <1>1, SumsAssumption, Units DEF SumsInv
<1>2. CASE Filter12
  <2>1. SumsType'
    BY <1>0, <1>2 DEF Filter12
  <2>2. ASSUME NEW v \in colors, colors = {v} PROVE SumsOf(v)'
    <3>1. sum' = sum + Weight(xtab, i) * v
      BY <1>2, <2>2 DEF Filter12
    <3>2. /\ xtab.upto[i] \in Int /\ xtab.upto[i + 1] \in Int
          /\ v * xtab.upto[i] + Weight(xtab, i) * v = v * xtab.upto[i + 1]
      BY <1>0, <1>1, <1>2, <2>2, OneMore DEF Filter12
    <3>3. Weight(xtab, i) * v \in Int /\ v * xtab.upto[i] \in Int /\ Chan \div 2 \in Int
      <4>1. Weight(xtab, i) \in Int
        BY <3>2 DEF Weight
      <4> QED
        BY <1>1, <2>2, <3>2, <4>1, Units
    <3>4. sum' = Chan \div 2 + v * xtab.upto[i + 1]
      BY <1>1, <1>2, <2>2, <3>1, <3>2, <3>3 DEF Filter12, SumsOf
    <3> QED
      BY <1>1, <1>2, <2>2, <3>4 DEF Filter12, SumsOf
  <2> QED
    BY <1>2, <2>1, <2>2 DEF Filter12, SumsInv
<1>3. CASE Accum24
  <2>1. SumsType'
    BY <1>0, <1>3 DEF Accum24
  <2>2. ASSUME NEW v \in colors, colors = {v} PROVE SumsOf(v)'
    <3>1. sum = Chan \div 2 + v * WEIGHTONE
      BY <1>0, <1>1, <1>3, <2>2 DEF Accum24, SumsOf
    <3>2. Between(sum) = v * Spare
      BY <1>1, <2>2, <3>1, BetweenOf, Units
    <3>3. v * Spare \in Int
      BY <1>1, <2>2, Units
    <3>4. /\ ytab.upto[j] \in Int /\ ytab.upto[j + 1] \in Int
          /\ v * Spare * ytab.upto[j] + Weight(ytab, j) * (v * Spare) = v * Spare * ytab.upto[j + 1]
      BY <1>0, <1>3, <3>3, OneMore DEF Accum24
    <3>5. accum' = v * Spare * ytab.upto[j + 1]
      BY <1>1, <1>3, <2>2, <3>2, <3>4 DEF Accum24, SumsOf
    <3>6. v * xtab.upto[0] = 0 /\ Chan \div 2 \in Int
      BY <1>0, <1>1, <2>2, Units
    <3>7. sum' = Chan \div 2 + v * xtab.upto[0]
      BY <1>3, <3>6 DEF Accum24, FilterStart
    <3> QED
      BY <1>1, <1>3, <2>2, <3>5, <3>7 DEF Accum24, SumsOf
  <2> QED
    BY <1>3, <2>1, <2>2 DEF Accum24, SumsInv
<1>4. CASE Shift41
  <2>1. SumsType'
    BY <1>0, <1>4 DEF Shift41
  <2>2. ASSUME NEW v \in colors, colors = {v} PROVE SumsOf(v)'
    <3>1. accum = v * Spare * WEIGHTONE
      BY <1>0, <1>1, <1>4, <2>2 DEF Shift41, SumsOf
    <3>2. v * Spare * WEIGHTONE \in Int /\ Final \div 2 \in Int
      BY <1>1, <2>2, Units
    <3>3. accum + Final \div 2 = Final \div 2 + v * Spare * WEIGHTONE
      BY <3>1, <3>2
    <3>4. pixel' = v
      BY <1>1, <1>4, <2>2, <3>3, LastShift DEF Shift41
    <3> QED
      BY <1>1, <1>4, <2>2, <3>4 DEF Shift41, SumsOf
  <2> QED
    BY <1>4, <2>1, <2>2 DEF Shift41, SumsInv
<1>5. CASE Accum14
  <2>1. SumsType'
    BY <1>0, <1>5 DEF Accum14
  <2>2. ASSUME NEW v \in colors, colors = {v} PROVE SumsOf(v)'
    <3>1. accum' = accum + Weight(ytab, i) * v
      BY <1>5, <2>2 DEF Accum14
    <3>2. v * ytab.upto[i] + Weight(ytab, i) * v = v * ytab.upto[i + 1]
      BY <1>0, <1>1, <1>5, <2>2, OneMore DEF Accum14
    <3>3. accum' = v * ytab.upto[i + 1]
      BY <1>1, <1>5, <2>2, <3>1, <3>2 DEF Accum14, SumsOf
    <3> QED
      BY <1>1, <1>5, <2>2, <3>3 DEF Accum14, SumsOf
  <2> QED
    BY <1>5, <2>1, <2>2 DEF Accum14, SumsInv
<1>6. CASE Filter41
  <2>1. SumsType'
    BY <1>0, <1>6 DEF Filter41
  <2>2. ASSUME NEW v \in colors, colors = {v} PROVE SumsOf(v)'
    <3>1. accum = v * WEIGHTONE
      BY <1>0, <1>1, <1>6, <2>2 DEF Filter41, SumsOf
    <3>2. Between(accum) = v * Spare
      <4>1. 0 + v * WEIGHTONE = accum
        BY <1>1, <2>2, <3>1, Units
      <4>2. 0 \in 0 .. Chan - 1
        BY Units
      <4> QED
        BY <1>1, <2>2, <4>1, <4>2, BetweenOf
    <3>3. v * Spare \in Int /\ Final \div 2 \in Int
      BY <1>1, <2>2, Units
    <3>4. /\ xtab.upto[j] \in Int /\ xtab.upto[j + 1] \in Int
          /\ v * Spare * xtab.upto[j] + Weight(xtab, j) * (v * Spare) = v * Spare * xtab.upto[j + 1]
      BY <1>0, <1>6, <3>3, OneMore DEF Filter41
    <3>5. /\ v * Spare * xtab.upto[j] \in Int
          /\ Weight(xtab, j) * (v * Spare) \in Int
      <4>1. Weight(xtab, j) \in Int
        BY <3>4 DEF Weight
      <4> QED
        BY <3>3, <3>4, <4>1
    <3>6. sum' = Final \div 2 + v * Spare * xtab.upto[j + 1]
      <4>1. sum = Final \div 2 + v * Spare * xtab.upto[j]
        BY <1>1, <1>6, <2>2 DEF Filter41, SumsOf
      <4>2. sum' = sum + Weight(xtab, j) * (v * Spare)
        BY <1>6, <3>2 DEF Filter41
      <4> QED
        BY <3>3, <3>4, <3>5, <4>1, <4>2
    <3>7. v * ytab.upto[0] = 0
      BY <1>0, <1>1, <2>2
    <3> QED
      BY <1>1, <1>6, <2>2, <3>6, <3>7 DEF Filter41, SumsOf
  <2> QED
    BY <1>6, <2>1, <2>2 DEF Filter41, SumsInv
<1>7. CASE Store41
  <2>1. SumsType'
    BY <1>0, <1>7 DEF Store41
  <2>2. ASSUME NEW v \in colors, colors = {v} PROVE SumsOf(v)'
    <3>1. sum = Final \div 2 + v * Spare * WEIGHTONE
      BY <1>0, <1>1, <1>7, <2>2 DEF Store41, SumsOf
    <3>2. pixel' = v
      BY <1>1, <1>7, <2>2, <3>1, LastShift DEF Store41
    <3> QED
      BY <1>1, <1>7, <2>2, <3>2 DEF Store41, SumsOf
  <2> QED
    BY <1>7, <2>1, <2>2 DEF Store41, SumsInv
<1>8. CASE UNCHANGED vars
  BY <1>8 DEF vars, SumsInv, SumsOf
<1> QED
  BY <1>2, <1>3, <1>4, <1>5, <1>6, <1>7, <1>8 DEF Next, Written

(* The invariant holds of every state of every behaviour.                  *)
THEOREM SumsInvariant == Spec => []SumsInv
BY SumsInit, SumsStep, PTL DEF Spec

(* A picture of one color keeps it, to the last bit, in both orders of the *)
(* filters, for all widths and all tables of weights                       *)
(* (zoom.c:739, 816; scanline.c:146-184, 276-296, 352-361).                *)
THEOREM FlatFieldsStayFlat == Spec => []FlatField
<1>1. SumsInv => FlatField
  BY DEF SumsInv, SumsOf, FlatField
<1> QED
  BY <1>1, SumsInvariant, PTL
-----------------------------------------------------------------------------
(* The least number of a set.                                              *)
LEMMA LeastOf ==
  ASSUME NEW T, T \subseteq Nat, T # {}
  PROVE  \E x \in T : \A y \in T : x <= y
<1> DEFINE R == OpToRel(<, Nat)
<1>1. IsWellFoundedOn(R, Nat)
  BY NatLessThanWellFounded
<1>2. \E x \in T : \A y \in T : ~ (<<y, x>> \in R)
  <2> HIDE DEF R
  <2> QED
    BY <1>1, WFMin
<1>3. PICK x \in T : \A y \in T : ~ (<<y, x>> \in R)
  <2> HIDE DEF R
  <2> QED
    BY <1>2
<1>4. \A y \in T : ~ (y < x)
  BY <1>3 DEF OpToRel
<1> HIDE DEF R
<1>5. \A y \in T : x <= y
  BY <1>4
<1> QED
  BY <1>5

(* What never falls from one number to the next is nowhere more than at    *)
(* the end.                                                                *)
LEMMA RisingToEnd ==
  ASSUME NEW n \in Nat, NEW f \in [0 .. n -> Int],
         \A k \in 0 .. n - 1 : f[k] <= f[k + 1]
  PROVE  \A k \in 0 .. n : f[k] <= f[n]
<1> DEFINE Wrong == {d \in 0 .. n : ~ (f[n - d] <= f[n])}
<1>1. Wrong = {}
  <2> SUFFICES ASSUME Wrong # {} PROVE FALSE
    OBVIOUS
  <2>1. PICK d \in Wrong : \A e \in Wrong : d <= e
    <3>1. Wrong \subseteq Nat
      OBVIOUS
    <3> HIDE DEF Wrong
    <3> QED
      BY <3>1, LeastOf
  <2>2. d \in 0 .. n /\ ~ (f[n - d] <= f[n])
    BY <2>1
  <2>3. d # 0
    BY <2>2
  <2>4. d - 1 \in 0 .. n /\ d - 1 \notin Wrong
    <3>1. ~ (d <= d - 1) /\ d - 1 \in 0 .. n
      BY <2>2, <2>3
    <3> HIDE DEF Wrong
    <3> QED
      BY <2>1, <3>1
  <2>5. f[n - (d - 1)] <= f[n]
    BY <2>4
  <2>6. n - d \in 0 .. n - 1 /\ n - (d - 1) = (n - d) + 1
    BY <2>2, <2>3
  <2>7. f[n - d] <= f[(n - d) + 1]
    BY <2>6
  <2>8. f[n - d] \in Int /\ f[n - (d - 1)] \in Int /\ f[n] \in Int
    BY <2>2, <2>6
  <2> QED
    BY <2>2, <2>5, <2>6, <2>7, <2>8
<1>2. ASSUME NEW k \in 0 .. n PROVE f[k] <= f[n]
  <2>1. n - k \in 0 .. n /\ n - (n - k) = k
    OBVIOUS
  <2> QED
    BY <1>1, <2>1
<1> QED
  BY <1>2

(* At most x, on either side of nothing.                                   *)
Within(a, x) == -x <= a /\ a <= x

(* A sum of k weights times pixels: black under the negative weights and   *)
(* white under the others is the most it can be, and the reverse the       *)
(* least.                                                                  *)
Bounded(t, k, x) ==
  /\ 2 * x <= CHANWHITE * (t.gain[k] + t.upto[k])
  /\ -2 * x <= CHANWHITE * (t.gain[k] - t.upto[k])

(* What SumsAssumption says of the weights of a table, one by one.         *)
LEMMA WeightFacts ==
  ASSUME NEW t \in Tables
  PROVE  /\ t.size \in Nat \ {0}
         /\ t.gain[0] = 0
         /\ \A k \in 0 .. t.size : t.upto[k] \in Int /\ t.gain[k] \in Int
         /\ \A k \in 0 .. t.size - 1 :
              /\ k \in 0 .. t.size /\ k + 1 \in 0 .. t.size
              /\ Weight(t, k) \in Int
              /\ t.upto[k + 1] = t.upto[k] + Weight(t, k)
              /\ t.gain[k + 1] = t.gain[k] + Magnitude(Weight(t, k))
<1>1. /\ t.size \in Nat \ {0} /\ t.gain[0] = 0
      /\ \A k \in 0 .. t.size : t.upto[k] \in Int /\ t.gain[k] \in Int
      /\ \A k \in 0 .. t.size - 1 : t.gain[k + 1] = t.gain[k] + Magnitude(Weight(t, k))
  BY SumsAssumption
<1>2. ASSUME NEW k \in 0 .. t.size - 1
      PROVE  /\ k \in 0 .. t.size /\ k + 1 \in 0 .. t.size
             /\ Weight(t, k) \in Int
             /\ t.upto[k + 1] = t.upto[k] + Weight(t, k)
  BY <1>1 DEF Weight
<1> QED
  BY <1>1, <1>2

(* A sum of fewer weights has no wider bounds than one of them all.        *)
LEMMA NarrowerBefore ==
  ASSUME NEW t \in Tables, NEW k \in 0 .. t.size
  PROVE  /\ t.gain[k] <= Gain(t)
         /\ t.gain[k] + t.upto[k] <= Gain(t) + WEIGHTONE
         /\ t.gain[k] - t.upto[k] <= Gain(t) - WEIGHTONE
<1> DEFINE g == [m \in 0 .. t.size |-> t.gain[m]]
           p == [m \in 0 .. t.size |-> t.gain[m] + t.upto[m]]
           q == [m \in 0 .. t.size |-> t.gain[m] - t.upto[m]]
           n == t.size
<1>1. /\ n \in Nat
      /\ g \in [0 .. n -> Int] /\ p \in [0 .. n -> Int] /\ q \in [0 .. n -> Int]
  BY WeightFacts
<1>2. ASSUME NEW m \in 0 .. n - 1
      PROVE  g[m] <= g[m + 1] /\ p[m] <= p[m + 1] /\ q[m] <= q[m + 1]
  <2> DEFINE w == Weight(t, m)
  <2>1. /\ m \in 0 .. t.size /\ m + 1 \in 0 .. t.size
        /\ w \in Int /\ t.gain[m] \in Int /\ t.upto[m] \in Int
        /\ t.upto[m + 1] = t.upto[m] + w
        /\ t.gain[m + 1] = t.gain[m] + Magnitude(w)
    BY WeightFacts
  <2>2. Magnitude(w) \in Int /\ 0 <= Magnitude(w) /\ w <= Magnitude(w) /\ -w <= Magnitude(w)
    BY <2>1 DEF Magnitude
  <2> HIDE DEF w
  <2>3. /\ t.gain[m] <= t.gain[m + 1]
        /\ t.gain[m] + t.upto[m] <= t.gain[m + 1] + t.upto[m + 1]
        /\ t.gain[m] - t.upto[m] <= t.gain[m + 1] - t.upto[m + 1]
    BY <2>1, <2>2
  <2> QED
    BY <2>1, <2>3
<1>3. g[k] <= g[n] /\ p[k] <= p[n] /\ q[k] <= q[n]
  <2> HIDE DEF g, p, q
  <2> QED
    BY <1>1, <1>2, RisingToEnd
<1>4. n \in 0 .. n
  BY <1>1
<1> QED
  BY <1>3, <1>4, TableFacts DEF Gain

(* One more weight times a pixel.                                          *)
LEMMA BoundedOneMore ==
  ASSUME NEW t \in Tables, NEW k \in 0 .. t.size - 1,
         NEW x \in Int, NEW c \in 0 .. CHANWHITE,
         Bounded(t, k, x)
  PROVE  Bounded(t, k + 1, x + Weight(t, k) * c)
<1> DEFINE w == Weight(t, k)
           p == t.gain[k] + t.upto[k]
           q == t.gain[k] - t.upto[k]
<1>1. /\ w \in Int /\ p \in Int /\ q \in Int /\ c \in Int /\ CHANWHITE \in Nat
      /\ 0 <= c /\ c <= CHANWHITE
  BY WeightFacts, Units
<1>2. /\ 2 * x <= CHANWHITE * p
      /\ -2 * x <= CHANWHITE * q
  BY DEF Bounded
<1>3. /\ t.gain[k + 1] + t.upto[k + 1] = p + (Magnitude(w) + w)
      /\ t.gain[k + 1] - t.upto[k + 1] = q + (Magnitude(w) - w)
  BY <1>1, WeightFacts DEF Magnitude
<1> HIDE DEF w, p, q
<1>4. CASE w >= 0
  <2>1. Magnitude(w) + w = 2 * w /\ Magnitude(w) - w = 0
    BY <1>1, <1>4 DEF Magnitude
  <2>2. w * c <= w * CHANWHITE /\ 0 <= w * c
    BY <1>1, <1>4
  <2>3. CHANWHITE * (p + 2 * w) = CHANWHITE * p + 2 * (w * CHANWHITE)
    BY <1>1
  <2>4. w * c \in Int /\ CHANWHITE * p \in Int /\ CHANWHITE * q \in Int /\ w * CHANWHITE \in Int
    BY <1>1
  <2>5. 2 * (x + w * c) <= CHANWHITE * (p + 2 * w) /\ -2 * (x + w * c) <= CHANWHITE * (q + 0)
    BY <1>1, <1>2, <2>2, <2>3, <2>4
  <2> QED
    BY <1>3, <2>1, <2>5 DEF Bounded, w
<1>5. CASE w < 0
  <2>1. Magnitude(w) + w = 0 /\ Magnitude(w) - w = -2 * w
    BY <1>1, <1>5 DEF Magnitude
  <2>2. w * CHANWHITE <= w * c /\ w * c <= 0
    BY <1>1, <1>5
  <2>3. CHANWHITE * (q + -2 * w) = CHANWHITE * q + -2 * (w * CHANWHITE)
    BY <1>1
  <2>4. w * c \in Int /\ CHANWHITE * p \in Int /\ CHANWHITE * q \in Int /\ w * CHANWHITE \in Int
    BY <1>1
  <2>5. 2 * (x + w * c) <= CHANWHITE * (p + 0) /\ -2 * (x + w * c) <= CHANWHITE * (q + -2 * w)
    BY <1>1, <1>2, <2>2, <2>3, <2>4
  <2> QED
    BY <1>3, <2>1, <2>5 DEF Bounded, w
<1> QED
  BY <1>1, <1>4, <1>5

(* One more weight times what is no more than d.                           *)
LEMMA WithinOneMore ==
  ASSUME NEW a \in Int, NEW x \in Int, NEW w \in Int, NEW b \in Int, NEW d \in Int,
         Within(a, d * x), Within(b, d)
  PROVE  Within(a + w * b, d * (x + Magnitude(w)))
<1>1. d * (x + Magnitude(w)) = d * x + Magnitude(w) * d
  BY DEF Magnitude
<1>2. Magnitude(w) \in Int /\ Within(w * b, Magnitude(w) * d)
  <2>1. CASE w >= 0
    <3>1. w * (-d) <= w * b /\ w * b <= w * d
      BY <2>1 DEF Within
    <3>2. w * (-d) = -(w * d) /\ Magnitude(w) = w
      BY <2>1 DEF Magnitude
    <3> QED
      BY <3>1, <3>2 DEF Within
  <2>2. CASE w < 0
    <3>1. w * d <= w * b /\ w * b <= w * (-d)
      BY <2>2 DEF Within
    <3>2. w * (-d) = -(w * d) /\ Magnitude(w) = -w /\ (-w) * d = -(w * d)
      BY <2>2 DEF Magnitude
    <3> QED
      BY <3>1, <3>2 DEF Within
  <2> QED
    BY <2>1, <2>2
<1>3. d * x \in Int /\ w * b \in Int /\ Magnitude(w) * d \in Int
  BY <1>2
<1> QED
  BY <1>1, <1>2, <1>3 DEF Within

(* What a shift leaves.                                                    *)
LEMMA Shifted ==
  ASSUME NEW a \in Int, NEW n \in Nat \ {0}
  PROVE  a \div n \in Int /\ n * (a \div n) <= a /\ a < n * (a \div n) + n
OBVIOUS

(* A short is at most two weights.                                         *)
LEMMA ShortRange ==
  ASSUME NEW x \in Int
  PROVE  Between(x) \in Int /\ Within(Between(x), 2 * WEIGHTONE)
<1>1. WEIGHTONE \in Nat \ {0} /\ Chan \in Nat \ {0}
  BY Units
<1>2. x \div Chan \in Int
  BY <1>1
<1>3. \A n \in Nat \ {0} : \A a \in Int : a % n \in 0 .. n - 1
  OBVIOUS
<1>4. /\ 4 * WEIGHTONE \in Nat \ {0}
      /\ x \div Chan + 2 * WEIGHTONE \in Int
  BY <1>1, <1>2
<1>5. (x \div Chan + 2 * WEIGHTONE) % (4 * WEIGHTONE) \in 0 .. 4 * WEIGHTONE - 1
  BY <1>3, <1>4
<1> QED
  BY <1>1, <1>5 DEF Between, Short, Within

(* What goes through the first filter with a tame table fits in a short:   *)
(* the shift between the filters loses what it drops and nothing else.     *)
LEMMA BetweenNear ==
  ASSUME NEW t \in Tables, Tame(t),
         NEW x \in Int, Bounded(t, t.size, x),
         NEW h \in 0 .. Chan - 1
  PROVE  /\ Chan * Between(x + h) <= x + h
         /\ x + h < Chan * Between(x + h) + Chan
<1> DEFINE b == (x + h) \div Chan
<1>1. /\ WEIGHTONE \in Nat \ {0} /\ Chan \in Nat \ {0} /\ Spare \in Nat \ {0}
      /\ h \in Int /\ 0 <= h /\ h < Chan /\ CHANWHITE \in Nat
  BY Units
<1>2. b \in Int /\ Chan * b <= x + h /\ x + h < Chan * b + Chan
  BY <1>1, Shifted
<1>3. Gain(t) \in Int /\ Gain(t) <= 3 * WEIGHTONE
  BY WeightFacts DEF Gain, Tame
<1>4. /\ 2 * x <= CHANWHITE * (Gain(t) + WEIGHTONE)
      /\ -2 * x <= CHANWHITE * (Gain(t) - WEIGHTONE)
  BY TableFacts DEF Bounded, Gain
<1>5. /\ CHANWHITE * (Gain(t) + WEIGHTONE) <= CHANWHITE * (4 * WEIGHTONE)
      /\ CHANWHITE * (Gain(t) - WEIGHTONE) <= CHANWHITE * (2 * WEIGHTONE)
  BY <1>1, <1>3
<1>6. x <= 2 * (CHANWHITE * WEIGHTONE) /\ -(CHANWHITE * WEIGHTONE) <= x
  <2>1. /\ CHANWHITE * (4 * WEIGHTONE) = 4 * (CHANWHITE * WEIGHTONE)
        /\ CHANWHITE * (2 * WEIGHTONE) = 2 * (CHANWHITE * WEIGHTONE)
        /\ CHANWHITE * WEIGHTONE \in Int
        /\ CHANWHITE * (Gain(t) + WEIGHTONE) \in Int
        /\ CHANWHITE * (Gain(t) - WEIGHTONE) \in Int
    BY <1>1, <1>3
  <2> QED
    BY <1>4, <1>5, <2>1
<1>7. CHANWHITE * WEIGHTONE = Chan * WEIGHTONE - WEIGHTONE /\ Chan <= WEIGHTONE
  BY <1>1 DEF CHANWHITE, WEIGHTONE
<1> HIDE DEF b
<1>8. Chan * b < Chan * (2 * WEIGHTONE) /\ Chan * (-WEIGHTONE - 1) < Chan * b
  <2>1. /\ Chan * (2 * WEIGHTONE) = 2 * (Chan * WEIGHTONE)
        /\ Chan * (-WEIGHTONE - 1) = -(Chan * WEIGHTONE) - Chan
        /\ Chan * WEIGHTONE \in Int /\ Chan * b \in Int
    BY <1>1, <1>2
  <2> QED
    BY <1>1, <1>2, <1>6, <1>7, <2>1
<1>9. b < 2 * WEIGHTONE /\ -WEIGHTONE - 1 < b
  <2>1. \A y, z \in Int : Chan * y < Chan * z => y < z
    BY <1>1
  <2> QED
    BY <1>1, <1>2, <1>8, <2>1
<1>10. Short(b) = b
  <2>1. /\ 4 * WEIGHTONE \in Nat \ {0}
        /\ b + 2 * WEIGHTONE \in 0 .. 4 * WEIGHTONE - 1
    BY <1>1, <1>2, <1>9
  <2>2. \A m \in Nat \ {0} : \A y \in 0 .. m - 1 : y % m = y
    OBVIOUS
  <2>3. (b + 2 * WEIGHTONE) % (4 * WEIGHTONE) = b + 2 * WEIGHTONE
    BY <2>1, <2>2
  <2> QED
    BY <1>1, <1>2, <2>3 DEF Short
<1> QED
  BY <1>2, <1>10 DEF Between, b

(* The last shift and the clamping: the pixel is the nearest there is.     *)
LEMMA NearestPixel ==
  ASSUME NEW a \in Int, NEW e \in Int, NEW g \in Int,
         Within(2 * (Chan * a - e), g)
  PROVE  LET One    == WEIGHTONE * WEIGHTONE
             inside == IF e < 0 THEN 0 ELSE IF e > CHANWHITE * One THEN CHANWHITE * One ELSE e
         IN  2 * Magnitude(Peg((a + Final \div 2) \div Final) * One - inside) <= One + g
<1> DEFINE One == WEIGHTONE * WEIGHTONE
           q == (a + Final \div 2) \div Final
           top == CHANWHITE * One
           inside == IF e < 0 THEN 0 ELSE IF e > top THEN top ELSE e
<1>1. /\ WEIGHTONE \in Nat \ {0} /\ Chan \in Nat \ {0} /\ Spare \in Nat \ {0}
      /\ Final \in Nat \ {0} /\ CHANWHITE \in Nat /\ Final \div 2 \in Int
  BY Units
<1>2. One = Chan * Final /\ One \in Nat \ {0}
  BY <1>1 DEF WEIGHTONE, Final
<1>3. 2 * (Final \div 2) = Final
  <2>1. Chan % 2 = 0
    BY SumsAssumption
  <2>2. PICK half \in Int : Chan = 2 * half
    <3>1. \A n \in Nat : n % 2 = 0 => n = 2 * (n \div 2) /\ n \div 2 \in Int
      OBVIOUS
    <3> QED
      BY <1>1, <2>1, <3>1
  <2>3. Final = 2 * (half * Spare * Spare) /\ half * Spare * Spare \in Int
    BY <1>1, <2>2 DEF Final, WEIGHTONE
  <2> HIDE DEF Final
  <2> QED
    BY <2>3
<1>4. q \in Int /\ Final * q <= a + Final \div 2 /\ a + Final \div 2 < Final * q + Final
  BY <1>1, Shifted
<1> HIDE DEF One, q, Final
<1>5. -Final <= 2 * (Final * q - a) /\ 2 * (Final * q - a) <= Final
  <2>1. Final * q \in Int
    BY <1>1, <1>4
  <2> QED
    BY <1>1, <1>3, <1>4, <2>1
<1>6. -One <= 2 * (One * q - Chan * a) /\ 2 * (One * q - Chan * a) <= One
  <2> DEFINE d == 2 * (Final * q - a)
  <2>1. d \in Int
    BY <1>1, <1>4
  <2>2. Chan * d = 2 * (One * q - Chan * a)
    BY <1>1, <1>2, <1>4
  <2>3. -Final <= d /\ d <= Final
    BY <1>5
  <2> HIDE DEF d
  <2>4. Chan * (-Final) <= Chan * d /\ Chan * d <= Chan * Final
    BY <1>1, <2>1, <2>3
  <2>5. Chan * (-Final) = -(Chan * Final)
    BY <1>1
  <2> QED
    BY <1>2, <2>2, <2>4, <2>5
<1> DEFINE oq == One * q
<1>7. /\ oq \in Int /\ Chan * a \in Int /\ top \in Int /\ 0 <= top
      /\ q < 0 => oq <= 0
      /\ q > CHANWHITE => top <= oq
      /\ 0 <= q => 0 <= oq
      /\ q <= CHANWHITE => oq <= top
  <2>1. /\ \A y, z \in Int : y <= z => One * y <= One * z
        /\ One * 0 = 0 /\ One * CHANWHITE = top
    BY <1>1, <1>2
  <2>2. oq \in Int /\ Chan * a \in Int /\ top \in Int
    BY <1>1, <1>2, <1>4
  <2>3. /\ q <= 0 => One * q <= One * 0
        /\ q >= CHANWHITE => One * CHANWHITE <= One * q
        /\ 0 <= q => One * 0 <= One * q
        /\ q <= CHANWHITE => One * q <= One * CHANWHITE
        /\ One * 0 <= One * CHANWHITE
    BY <1>1, <1>4, <2>1
  <2>4. /\ q <= 0 => oq <= 0
        /\ q >= CHANWHITE => top <= oq
        /\ 0 <= q => 0 <= oq
        /\ q <= CHANWHITE => oq <= top
        /\ 0 <= top
    BY <2>1, <2>3
  <2> HIDE DEF oq, top
  <2> QED
    BY <1>1, <1>4, <2>2, <2>4
<1>8. Peg(q) * One = IF q < 0 THEN 0 ELSE IF q > CHANWHITE THEN top ELSE oq
  <2>1. 0 * One = 0 /\ CHANWHITE * One = top /\ q * One = oq
    BY <1>1, <1>2, <1>4
  <2> QED
    BY <2>1 DEF Peg
<1>9. -One <= 2 * (oq - Chan * a) /\ 2 * (oq - Chan * a) <= One
  BY <1>6
<1> HIDE DEF top, oq
<1>10. -(One + g) <= 2 * (oq - e) /\ 2 * (oq - e) <= One + g
  BY <1>2, <1>7, <1>9 DEF Within
<1> DEFINE w == IF q < 0 THEN 0 ELSE IF q > CHANWHITE THEN top ELSE oq
<1>11. inside \in Int /\ w \in Int
  BY <1>7
<1>12. -(One + g) <= 2 * (w - inside) /\ 2 * (w - inside) <= One + g
  BY <1>1, <1>2, <1>4, <1>7, <1>10
<1>13. Peg(q) * One = w
  BY <1>8
<1> HIDE DEF w, inside
<1>14. 2 * Magnitude(Peg(q) * One - inside) <= One + g
  BY <1>2, <1>11, <1>12, <1>13 DEF Magnitude
<1> QED
  BY <1>14 DEF One, q, top, inside
-----------------------------------------------------------------------------
(* What the first filter has added up since it started, and the second.    *)
Held == IF order = "xy" THEN sum - FilterStart(order) ELSE accum
Kept == IF order = "xy" THEN accum ELSE sum - FilterStart(order)

(* Twice what the shift between the filters may lose of a sum.             *)
Loss == IF order = "xy" THEN Chan ELSE 2 * (Chan - 1)

(* The bounds of the two sums and of what was lost on the way.             *)
BoundsInv ==
  /\ sum \in Int /\ accum \in Int /\ exact \in Int
  /\ Bounded(Inner, i, Held)
  /\ Within(Kept, 2 * WEIGHTONE * Outer.gain[j])
  /\ Tame(Inner) => Within(2 * (Chan * Kept - exact), Loss * Outer.gain[j])
  /\ NearExact

(* The rounding constants are whole numbers, and that of the first filter  *)
(* is less than what is shifted out after it.                              *)
LEMMA Starts ==
  /\ FilterStart("xy") = Chan \div 2 /\ FilterStart("xy") \in 0 .. Chan - 1
  /\ FilterStart("yx") = Final \div 2 /\ FilterStart("yx") \in Int
  /\ 2 * (Chan \div 2) = Chan
<1>1. Chan % 2 = 0 /\ Chan \in Nat
  BY SumsAssumption
<1>2. \A n \in Nat : n % 2 = 0 => 2 * (n \div 2) = n
  OBVIOUS
<1> QED
  BY <1>1, <1>2, Units DEF FilterStart

(* Nothing is added up at the start.                                       *)
LEMMA BoundsInit == Init => BoundsInv
<1> SUFFICES ASSUME Init PROVE BoundsInv
  OBVIOUS
<1>1. /\ Inner \in Tables /\ Outer \in Tables
      /\ Inner.gain[0] = 0 /\ Inner.upto[0] = 0 /\ Outer.gain[0] = 0
  BY TableFacts, WeightFacts DEF Init, Inner, Outer
<1>2. Held = 0 /\ Kept = 0 /\ sum \in Int /\ accum = 0 /\ exact = 0 /\ i = 0 /\ j = 0
  BY Starts, Units DEF Init, Held, Kept
<1>3. /\ CHANWHITE * (0 + 0) = 0 /\ CHANWHITE * (0 - 0) = 0
      /\ 2 * WEIGHTONE * 0 = 0 /\ Loss * 0 = 0 /\ 2 * (Chan * 0 - 0) = 0
  BY Units DEF Loss
<1>4. Bounded(Inner, i, Held)
  BY <1>1, <1>2, <1>3 DEF Bounded
<1>5. /\ Within(Kept, 2 * WEIGHTONE * Outer.gain[j])
      /\ Within(2 * (Chan * Kept - exact), Loss * Outer.gain[j])
  BY <1>1, <1>2, <1>3 DEF Within
<1>6. NearExact
  BY DEF Init, NearExact
<1> QED
  BY <1>2, <1>4, <1>5, <1>6 DEF BoundsInv

(* One more pixel under the first filter.                                  *)
LEMMA FirstFilterStep ==
  ASSUME SumsType, BoundsInv, Filter12 \/ Accum14
  PROVE  BoundsInv'
<1>1. PICK p \in colors :
        /\ order = "xy" => sum' = sum + Weight(xtab, i) * p /\ accum' = accum
        /\ order = "yx" => accum' = accum + Weight(ytab, i) * p /\ sum' = sum
  BY DEF Filter12, Accum14
<1>2. /\ i' = i + 1 /\ i \in Nat /\ i < Inner.size
      /\ pixel = Unwritten
      /\ UNCHANGED <<order, xtab, ytab, colors, j, exact, pixel>>
  BY DEF Filter12, Accum14, Inner, SumsType
<1>3. Inner \in Tables /\ Outer \in Tables /\ Inner' = Inner /\ Outer' = Outer /\ Loss' = Loss
  BY <1>2 DEF SumsType, Inner, Outer, Loss
<1>4. i \in 0 .. Inner.size - 1
  BY <1>2, <1>3, WeightFacts
<1>5. Weight(Inner, i) \in Int /\ p \in 0 .. CHANWHITE /\ p \in Int
  BY <1>3, <1>4, WeightFacts, SumsAssumption, Units DEF SumsType
<1>6. Weight(Inner, i) * p \in Int
  BY <1>5
<1>7. /\ sum \in Int /\ accum \in Int /\ exact \in Int /\ order \in {"xy", "yx"}
      /\ FilterStart("xy") \in Int /\ FilterStart("yx") \in Int
  BY Starts DEF BoundsInv, SumsType
<1>8. /\ Held \in Int /\ Held' = Held + Weight(Inner, i) * p
      /\ Kept' = Kept
      /\ sum' \in Int /\ accum' \in Int /\ exact' \in Int
  BY <1>1, <1>2, <1>6, <1>7 DEF Held, Kept, Inner
<1>9. Bounded(Inner, i + 1, Held + Weight(Inner, i) * p)
  BY <1>3, <1>4, <1>5, <1>8, BoundedOneMore DEF BoundsInv
<1>10. Bounded(Inner, i, Held)'
  BY <1>2, <1>3, <1>8, <1>9 DEF Bounded
<1>11. /\ Within(Kept, 2 * WEIGHTONE * Outer.gain[j])'
       /\ (Tame(Inner) => Within(2 * (Chan * Kept - exact), Loss * Outer.gain[j]))'
  BY <1>2, <1>3, <1>8 DEF BoundsInv, Within, Tame, Gain
<1>12. NearExact'
  BY <1>2 DEF NearExact
<1> QED
  BY <1>8, <1>10, <1>11, <1>12 DEF BoundsInv

(* What the first filter added up goes into the second.                    *)
LEMMA SecondFilterStep ==
  ASSUME SumsType, BoundsInv, Accum24 \/ Filter41
  PROVE  BoundsInv'
<1> DEFINE h == IF order = "xy" THEN Chan \div 2 ELSE 0
           w == Weight(Outer, j)
           b == Between(Held + h)
<1>1. /\ i = Inner.size /\ i' = 0
      /\ j' = j + 1 /\ j \in Nat /\ j < Outer.size
      /\ pixel = Unwritten
      /\ UNCHANGED <<order, xtab, ytab, colors, pixel>>
  BY DEF Accum24, Filter41, Inner, Outer, SumsType
<1>2. Inner \in Tables /\ Outer \in Tables /\ Inner' = Inner /\ Outer' = Outer /\ Loss' = Loss
  BY <1>1 DEF SumsType, Inner, Outer, Loss
<1>3. /\ sum \in Int /\ accum \in Int /\ exact \in Int /\ order \in {"xy", "yx"}
      /\ FilterStart("xy") = Chan \div 2 /\ FilterStart("xy") \in Int /\ FilterStart("yx") \in Int
      /\ h \in 0 .. Chan - 1 /\ h \in Int
  BY Starts, Units DEF BoundsInv, SumsType
<1>4. j \in 0 .. Outer.size - 1
  BY <1>1, <1>2, WeightFacts
<1>5. w \in Int /\ Outer.gain[j] \in Int /\ Outer.gain[j + 1] = Outer.gain[j] + Magnitude(w)
  BY <1>2, <1>4, WeightFacts
<1>6. Held \in Int /\ Kept \in Int /\ Held + h \in Int
  BY <1>3 DEF Held, Kept
<1>7. b \in Int /\ Within(b, 2 * WEIGHTONE)
  BY <1>6, ShortRange
<1>8. /\ order = "xy" => sum = Held + h
      /\ order = "yx" => accum = Held + h
  BY <1>3 DEF Held
<1>9. /\ order = "xy" => /\ accum' = accum + w * b
                         /\ sum' = FilterStart("xy")
      /\ order = "yx" => /\ sum' = sum + w * b
                         /\ accum' = 0
      /\ exact' = exact + w * Held
  BY <1>3, <1>8 DEF Accum24, Filter41, Outer, Held
<1> HIDE DEF w, b, h
<1>10. w * b \in Int /\ w * Held \in Int
  BY <1>5, <1>6, <1>7
<1>11. /\ Held' = 0 /\ Kept' = Kept + w * b
       /\ sum' \in Int /\ accum' \in Int /\ exact' \in Int
  BY <1>1, <1>3, <1>9, <1>10 DEF Held, Kept
<1>12. Bounded(Inner, i, Held)'
  <2>1. Inner.gain[0] = 0 /\ Inner.upto[0] = 0
    BY <1>2, TableFacts, WeightFacts
  <2>2. CHANWHITE * (0 + 0) = 0 /\ CHANWHITE * (0 - 0) = 0
    BY Units
  <2> QED
    BY <1>1, <1>2, <1>11, <2>1, <2>2 DEF Bounded
<1>13. Within(Kept, 2 * WEIGHTONE * Outer.gain[j])'
  <2>1. 2 * WEIGHTONE \in Int
    BY Units
  <2>2. Within(Kept + w * b, 2 * WEIGHTONE * (Outer.gain[j] + Magnitude(w)))
    BY <1>5, <1>6, <1>7, <2>1, WithinOneMore DEF BoundsInv
  <2> QED
    BY <1>1, <1>2, <1>5, <1>11, <2>2 DEF Within
<1>14. ASSUME Tame(Inner)
       PROVE  Within(2 * (Chan * Kept - exact), Loss * Outer.gain[j])'
  <2> DEFINE a == 2 * (Chan * Kept - exact)
             d == 2 * (Chan * b - Held)
  <2>1. Chan \in Nat \ {0} /\ Chan \in Int /\ Chan * b \in Int /\ Chan * Kept \in Int
    BY <1>6, <1>7, Units
  <2>2. Chan * b <= Held + h /\ Held + h < Chan * b + Chan
    BY <1>1, <1>2, <1>3, <1>6, <1>14, BetweenNear DEF BoundsInv, b
  <2>3. Loss \in Int /\ Within(d, Loss)
    <3>1. CASE order = "xy"
      <4>1. 2 * h = Chan
        BY <3>1, Starts DEF h
      <4> QED
        BY <1>3, <1>6, <2>1, <2>2, <3>1, <4>1 DEF Loss, Within
    <3>2. CASE order = "yx"
      <4>1. h = 0
        BY <3>2 DEF h
      <4> QED
        BY <1>3, <1>6, <2>1, <2>2, <3>2, <4>1 DEF Loss, Within
    <3> QED
      BY <1>3, <3>1, <3>2
  <2>4. a \in Int /\ d \in Int
    BY <1>3, <1>6, <2>1
  <2>5. Within(a, Loss * Outer.gain[j])
    BY <1>14 DEF BoundsInv
  <2>6. 2 * (Chan * (Kept + w * b) - (exact + w * Held)) = a + w * d
    <3>1. Chan * (Kept + w * b) = Chan * Kept + w * (Chan * b)
      BY <1>5, <1>6, <1>7, <2>1
    <3>2. w * d = 2 * (w * (Chan * b)) - 2 * (w * Held)
      BY <1>5, <1>6, <2>1
    <3>3. w * (Chan * b) \in Int
      BY <1>5, <2>1
    <3> QED
      BY <1>3, <1>10, <2>1, <3>1, <3>2, <3>3
  <2>7. Within(a + w * d, Loss * (Outer.gain[j] + Magnitude(w)))
    <3> HIDE DEF a, d
    <3> QED
      BY <1>5, <2>3, <2>4, <2>5, WithinOneMore
  <2> QED
    BY <1>1, <1>2, <1>5, <1>9, <1>11, <2>6, <2>7 DEF Within
<1>15. (Tame(Inner) => Within(2 * (Chan * Kept - exact), Loss * Outer.gain[j]))'
  BY <1>2, <1>14 DEF Tame, Gain
<1>16. NearExact'
  BY <1>1 DEF NearExact
<1> QED
  BY <1>11, <1>12, <1>13, <1>15, <1>16 DEF BoundsInv

(* The last shift and the clamping.                                        *)
LEMMA WriteStep ==
  ASSUME SumsType, BoundsInv, Shift41 \/ Store41
  PROVE  BoundsInv'
<1>1. /\ j = Outer.size
      /\ UNCHANGED <<order, xtab, ytab, colors, i, j, sum, accum, exact>>
  BY DEF Shift41, Store41, Outer
<1>2. /\ Inner' = Inner /\ Outer' = Outer /\ Loss' = Loss
      /\ Held' = Held /\ Kept' = Kept
  BY <1>1 DEF Inner, Outer, Loss, Held, Kept
<1>3. /\ sum \in Int /\ accum \in Int /\ exact \in Int /\ order \in {"xy", "yx"}
      /\ Final \div 2 \in Int /\ FilterStart("yx") = Final \div 2
  BY Starts, Units DEF BoundsInv, SumsType
<1>4. Kept \in Int /\ pixel' = Peg((Kept + Final \div 2) \div Final)
  <2>1. CASE Shift41
    BY <1>3, <2>1, Starts DEF Kept, Shift41
  <2>2. CASE Store41
    <3>1. order = "yx" /\ Kept = sum - Final \div 2
      BY <1>3, <2>2 DEF Kept, Store41
    <3>2. Kept + Final \div 2 = sum
      BY <1>3, <3>1
    <3> QED
      BY <1>3, <2>2, <3>1, <3>2 DEF Store41
  <2> QED
    BY <2>1, <2>2
<1>5. NearExact'
  <2> SUFFICES ASSUME Tame(Inner)
               PROVE  NearExact'
    BY <1>2 DEF NearExact, Tame, Gain
  <2>1. Outer \in Tables /\ Gain(Outer) \in Int /\ Loss \in Int
    BY WeightFacts, Units DEF SumsType, Outer, Gain, Loss
  <2>2. Within(2 * (Chan * Kept - exact), Loss * Gain(Outer))
    BY <1>1 DEF BoundsInv, Gain
  <2>3. Loss * Gain(Outer) \in Int
    BY <2>1
  <2> DEFINE One == WEIGHTONE * WEIGHTONE
             inside == IF exact < 0 THEN 0
                       ELSE IF exact > CHANWHITE * One THEN CHANWHITE * One ELSE exact
             first == IF order = "xy" THEN Chan \div 2 ELSE Chan - 1
  <2>4. 2 * Magnitude(pixel' * One - inside) <= One + Loss * Gain(Outer)
    BY <1>3, <1>4, <2>2, <2>3, NearestPixel
  <2>5. 2 * first = Loss
    BY <1>3, Starts DEF Loss
  <2>6. 2 * Magnitude(pixel' * One - inside) <= One + 2 * first * Gain(Outer)
    BY <2>4, <2>5
  <2>7. UNCHANGED <<order, exact>> /\ Gain(Outer') = Gain(Outer)
    BY <1>1, <1>2
  <2> QED
    BY <2>6, <2>7 DEF NearExact
<1> QED
  BY <1>1, <1>2, <1>3, <1>5 DEF BoundsInv, Bounded, Within, Tame, Gain

(* Every step of the scanline routines keeps the bounds.                   *)
LEMMA BoundsStep == SumsInv /\ BoundsInv /\ [Next]_vars => BoundsInv'
<1> SUFFICES ASSUME SumsInv, BoundsInv, [Next]_vars PROVE BoundsInv'
  OBVIOUS
<1>1. SumsType
  BY DEF SumsInv
<1>2. CASE Filter12 \/ Accum14
  BY <1>1, <1>2, FirstFilterStep
<1>3. CASE Accum24 \/ Filter41
  BY <1>1, <1>3, SecondFilterStep
<1>4. CASE Shift41 \/ Store41
  BY <1>1, <1>4, WriteStep
<1>5. CASE UNCHANGED vars
  BY <1>5 DEF vars, BoundsInv, Bounded, Within, Tame, Gain, NearExact,
              Inner, Outer, Held, Kept, Loss
<1> QED
  BY <1>2, <1>3, <1>4, <1>5 DEF Next, Written

(* The bounds hold of every state of every behaviour.                      *)
THEOREM BoundsInvariant == Spec => [](SumsInv /\ BoundsInv)
<1>1. Init => SumsInv /\ BoundsInv
  BY SumsInit, BoundsInit
<1>2. SumsInv /\ BoundsInv /\ [Next]_vars => (SumsInv /\ BoundsInv)'
  BY SumsStep, BoundsStep
<1> QED
  BY <1>1, <1>2, PTL DEF Spec

(* No sum outgrows an int if the second table is tame and the first has    *)
(* magnitudes of 4 * Spare times one at most, for all widths of pixels and *)
(* weights (scanline.c:155-159, 175-179, 207-210, 279, 289).               *)
THEOREM SumsStayInRange == Spec => []SumsFit
<1>1. ASSUME SumsInv, BoundsInv, Tame(Outer), Gain(Inner) <= 4 * Spare * WEIGHTONE,
             NEW x \in {sum, accum}
      PROVE  -8 * WEIGHTONE * WEIGHTONE <= x /\ x < 8 * WEIGHTONE * WEIGHTONE
  <2> DEFINE One == WEIGHTONE * WEIGHTONE
             g == Inner.gain[i] + Inner.upto[i]
             l == Inner.gain[i] - Inner.upto[i]
             k == Outer.gain[j]
             most == 4 * Spare * WEIGHTONE
  <2>1. /\ WEIGHTONE \in Nat \ {0} /\ Chan \in Nat \ {0} /\ Spare \in Nat \ {0}
        /\ CHANWHITE \in Nat /\ CHANWHITE < Chan
        /\ FilterStart("xy") \in 0 .. Chan - 1
        /\ FilterStart("yx") \in 0 .. Final - 1
        /\ Final \in Nat /\ Chan \in Int
    BY Units, Starts DEF CHANWHITE
  <2>2. /\ One \in Nat \ {0} /\ Chan <= One /\ Final <= One
        /\ CHANWHITE * most <= 4 * One /\ CHANWHITE * WEIGHTONE <= One
    <3>1. Chan <= WEIGHTONE /\ Spare <= WEIGHTONE
      BY <2>1 DEF WEIGHTONE
    <3> DEFINE s == Spare * WEIGHTONE
    <3>2. s \in Nat /\ most = 4 * s /\ Chan * s = One /\ Final = s
      BY <2>1 DEF WEIGHTONE, Final
    <3>3. \A y, z, m \in Nat : y <= z => y * m <= z * m
      OBVIOUS
    <3> HIDE DEF s, most
    <3>4. CHANWHITE * s <= Chan * s /\ CHANWHITE * WEIGHTONE <= WEIGHTONE * WEIGHTONE
      BY <2>1, <3>1, <3>2, <3>3
    <3>5. CHANWHITE * most = 4 * (CHANWHITE * s)
      BY <2>1, <3>2
    <3>6. Spare * WEIGHTONE <= WEIGHTONE * WEIGHTONE /\ WEIGHTONE <= WEIGHTONE * WEIGHTONE
      BY <2>1, <3>1
    <3>7. CHANWHITE * s \in Int /\ One \in Nat \ {0}
      BY <2>1, <3>2
    <3> QED
      BY <2>1, <3>1, <3>2, <3>4, <3>5, <3>6, <3>7 DEF s
  <2>3. /\ Inner \in Tables /\ Outer \in Tables
        /\ i \in 0 .. Inner.size /\ j \in 0 .. Outer.size
        /\ order \in {"xy", "yx"}
    BY <1>1, WeightFacts DEF SumsInv, SumsType, Inner, Outer
  <2>4. /\ g \in Int /\ l \in Int /\ k \in Int /\ most \in Int
        /\ g <= most + WEIGHTONE /\ l <= most + WEIGHTONE /\ k <= 3 * WEIGHTONE
    <3>1. /\ Inner.gain[i] \in Int /\ Inner.upto[i] \in Int /\ k \in Int
          /\ Gain(Inner) \in Int /\ Gain(Outer) \in Int
      BY <2>3, WeightFacts DEF Gain
    <3>2. /\ g <= Gain(Inner) + WEIGHTONE
          /\ l <= Gain(Inner) - WEIGHTONE
          /\ k <= Gain(Outer)
      BY <2>3, NarrowerBefore
    <3>3. Gain(Outer) <= 3 * WEIGHTONE /\ Gain(Inner) <= most /\ most \in Int
      BY <1>1, <2>1 DEF Tame
    <3>4. g \in Int /\ l \in Int
      BY <3>1
    <3> HIDE DEF g, l, k, most
    <3> QED
      BY <2>1, <3>1, <3>2, <3>3, <3>4
  <2>5. /\ 2 * Held <= CHANWHITE * g /\ -2 * Held <= CHANWHITE * l
        /\ Within(Kept, 2 * WEIGHTONE * k)
        /\ sum \in Int /\ accum \in Int
    BY <1>1 DEF BoundsInv, Bounded
  <2> HIDE DEF g, l, k, most, One
  <2>6. CHANWHITE * g <= 5 * One /\ CHANWHITE * l <= 5 * One
    <3>1. /\ CHANWHITE * g <= CHANWHITE * (most + WEIGHTONE)
          /\ CHANWHITE * l <= CHANWHITE * (most + WEIGHTONE)
      BY <2>1, <2>4
    <3>2. CHANWHITE * (most + WEIGHTONE) = CHANWHITE * most + CHANWHITE * WEIGHTONE
      BY <2>1, <2>4
    <3>3. /\ CHANWHITE * g \in Int /\ CHANWHITE * l \in Int
          /\ CHANWHITE * most \in Int /\ CHANWHITE * WEIGHTONE \in Int
      BY <2>1, <2>4
    <3> QED
      BY <2>2, <3>1, <3>2, <3>3
  <2>7. 2 * WEIGHTONE * k <= 6 * One
    <3>1. WEIGHTONE * k <= WEIGHTONE * (3 * WEIGHTONE)
      BY <2>1, <2>4
    <3>2. WEIGHTONE * (3 * WEIGHTONE) = 3 * One /\ 2 * WEIGHTONE * k = 2 * (WEIGHTONE * k)
      BY <2>1, <2>4 DEF One
    <3>3. WEIGHTONE * k \in Int
      BY <2>1, <2>4
    <3> QED
      BY <2>2, <3>1, <3>2, <3>3
  <2>8. Held \in Int /\ Kept \in Int
    BY <2>1, <2>3, <2>5 DEF Held, Kept
  <2>9. Within(2 * Held, 5 * One) /\ Within(Kept, 6 * One)
    <3>1. /\ CHANWHITE * g \in Int /\ CHANWHITE * l \in Int /\ 2 * WEIGHTONE * k \in Int
      BY <2>1, <2>4
    <3> QED
      BY <2>2, <2>5, <2>6, <2>7, <2>8, <3>1 DEF Within
  <2>10. -8 * One <= x /\ x < 8 * One
    <3>1. CASE order = "xy"
      BY <2>1, <2>2, <2>5, <2>8, <2>9, <3>1 DEF Held, Kept, Within
    <3>2. CASE order = "yx"
      BY <2>1, <2>2, <2>5, <2>8, <2>9, <3>2 DEF Held, Kept, Within
    <3> QED
      BY <2>3, <3>1, <3>2
  <2>11. -8 * WEIGHTONE * WEIGHTONE = -8 * One /\ 8 * WEIGHTONE * WEIGHTONE = 8 * One
    BY <2>1 DEF One
  <2> QED
    BY <2>10, <2>11
<1>2. SumsInv /\ BoundsInv => SumsFit
  BY <1>1 DEF SumsFit
<1> QED
  BY <1>2, BoundsInvariant, PTL

(* The pixel is the one nearest to the exact sum, but for what the shift   *)
(* between the filters loses of every term of the second, for all widths   *)
(* of pixels and weights and all tables (scanline.c:155, 179, 289, 355).   *)
THEOREM PixelsNearExact == Spec => []NearExact
<1>1. BoundsInv => NearExact
  BY DEF BoundsInv
<1> QED
  BY <1>1, BoundsInvariant, PTL
=============================================================================
