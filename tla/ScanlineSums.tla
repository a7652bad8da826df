---------------------------- MODULE ScanlineSums ----------------------------
(***************************************************************************)
(* The arithmetic of one channel of one destination pixel                  *)
(* (zoom/scanline.c, called by the filtered scan loops of zoom/zoom.c):    *)
(* the source pixels under the two filters are weighted and added, in x    *)
(* first and then in y ("xy") or the other way round ("yx"), in integers   *)
(* whose width is fixed.                                                   *)
(*                                                                         *)
(* A table of weights is given by its size and its running sums: upto[k]   *)
(* is the sum of the first k weights and gain[k] that of their magnitudes. *)
(* The last upto is WEIGHTONE, as SumIsOne of WeightTable has it.          *)
(***************************************************************************)
EXTENDS Integers

CONSTANTS Chan,         \* 1 << CHANBITS
          Spare,        \* 1 << (WEIGHTBITS - CHANBITS)
          Tables,       \* tables of weights
          Pictures      \* sets of pixels that pictures are made of

CHANWHITE == Chan - 1
WEIGHTONE == Chan * Spare
Final     == WEIGHTONE * Spare         \* 1 << FINALSHIFT

Magnitude(x) == IF x < 0 THEN -x ELSE x
Weight(t, k) == t.upto[k + 1] - t.upto[k]

(* A weight is a short of 14 bits and a sign bit, and one bit to spare.    *)
ASSUME SumsAssumption ==
  /\ Chan \in Nat \ {0} /\ Chan % 2 = 0
  /\ Spare \in Nat \ {0}
  /\ \A t \in Tables :
       /\ t.size \in Nat \ {0}
       /\ t.upto \in [0 .. t.size -> Int]
       /\ t.upto[0] = 0 /\ t.upto[t.size] = WEIGHTONE
       /\ t.gain \in [0 .. t.size -> Int] /\ t.gain[0] = 0
       /\ \A k \in 0 .. t.size - 1 :
            /\ -2 * WEIGHTONE <= Weight(t, k) /\ Weight(t, k) < 2 * WEIGHTONE
            /\ t.gain[k + 1] = t.gain[k] + Magnitude(Weight(t, k))
  /\ \A p \in Pictures : p \subseteq 0 .. CHANWHITE

VARIABLES
  order,          \* which filter comes first
  xtab, ytab,     \* the two tables of weights
  colors,         \* pixels of the source picture
  i, j,           \* steps of the inner and the outer filter
  sum,            \* of scanline_filter
  accum,          \* of scanline_accum
  exact,          \* history: the weighted pixels, with all their bits
  pixel           \* what is written

vars == <<order, xtab, ytab, colors, i, j, sum, accum, exact, pixel>>

Unwritten == -1

(* What is left of a number in a short.                                    *)
Short(x) == ((x + 2 * WEIGHTONE) % (4 * WEIGHTONE)) - 2 * WEIGHTONE

Peg(t) == IF t < 0 THEN 0 ELSE IF t > CHANWHITE THEN CHANWHITE ELSE t

(* Fault: nothing is shifted out between the filters.                      *)
BetweenUnshifted(x) == x

(* Fault: one bit too few is shifted out between the filters.              *)
BetweenOneBitLess(x) == Short(x \div (Chan \div 2))

(* What the second filter sees of a sum of the first.                      *)
Between(x) == Short(x \div Chan)

(* The first filter starts its sums at half of what it shifts out: that of *)
(* pixel12_filter, or of pixel41_filter (scanline.c:158, 178).             *)
FilterStart(o) == (IF o = "xy" THEN Chan ELSE Final) \div 2

Init ==
  /\ order \in {"xy", "yx"}
  /\ xtab \in Tables /\ ytab \in Tables
  /\ colors \in Pictures
  /\ i = 0 /\ j = 0
  /\ sum = FilterStart(order)
  /\ accum = 0
  /\ exact = 0
  /\ pixel = Unwritten

-----------------------------------------------------------------------------
(* pixel12_filter: one more pixel of a source line.                        *)
Filter12 ==
  /\ order = "xy" /\ pixel = Unwritten
  /\ j < ytab.size /\ i < xtab.size
  /\ \E p \in colors : sum' = sum + Weight(xtab, i) * p
  /\ i' = i + 1
  /\ UNCHANGED <<order, xtab, ytab, colors, j, accum, exact, pixel>>

(* pixel24_accum: the filtered line is added in.                           *)
Accum24 ==
  /\ order = "xy" /\ pixel = Unwritten
  /\ j < ytab.size /\ i = xtab.size
  /\ accum' = accum + Weight(ytab, j) * Between(sum)
  /\ exact' = exact + Weight(ytab, j) * (sum - FilterStart(order))
  /\ sum' = FilterStart(order)
  /\ i' = 0 /\ j' = j + 1
  /\ UNCHANGED <<order, xtab, ytab, colors, pixel>>

(* Fault: the last shift does not round.                                   *)
Shift41Down ==
  /\ order = "xy" /\ pixel = Unwritten
  /\ j = ytab.size
  /\ pixel' = Peg(accum \div Final)
  /\ UNCHANGED <<order, xtab, ytab, colors, i, j, sum, accum, exact>>

(* pixel41_shift                                                           *)
Shift41 ==
  /\ order = "xy" /\ pixel = Unwritten
  /\ j = ytab.size
  /\ pixel' = Peg((accum + Final \div 2) \div Final)
  /\ UNCHANGED <<order, xtab, ytab, colors, i, j, sum, accum, exact>>

(* pixel14_accum: the pixel of one more source line is added in.           *)
Accum14 ==
  /\ order = "yx" /\ pixel = Unwritten
  /\ j < xtab.size /\ i < ytab.size
  /\ \E p \in colors : accum' = accum + Weight(ytab, i) * p
  /\ i' = i + 1
  /\ UNCHANGED <<order, xtab, ytab, colors, j, sum, exact, pixel>>

(* pixel41_filter: one more column; the next has an accumulator of its own.*)
Filter41 ==
  /\ order = "yx" /\ pixel = Unwritten
  /\ j < xtab.size /\ i = ytab.size
  /\ sum' = sum + Weight(xtab, j) * Between(accum)
  /\ exact' = exact + Weight(xtab, j) * accum
  /\ accum' = 0
  /\ i' = 0 /\ j' = j + 1
  /\ UNCHANGED <<order, xtab, ytab, colors, pixel>>

Store41 ==
  /\ order = "yx" /\ pixel = Unwritten
  /\ j = xtab.size
  /\ pixel' = Peg(sum \div Final)
  /\ UNCHANGED <<order, xtab, ytab, colors, i, j, sum, accum, exact>>

Written == pixel # Unwritten /\ UNCHANGED vars

Next ==
  \/ Filter12 \/ Accum24 \/ Shift41
  \/ Accum14 \/ Filter41 \/ Store41
  \/ Written

Spec == Init /\ [][Next]_vars

-----------------------------------------------------------------------------
(* A picture of one color keeps it, to the last bit, whatever the filters  *)
(* and their negative lobes (zoom.c:739, 816).                             *)
FlatField == \A v \in colors : colors = {v} /\ pixel # Unwritten => pixel = v

Inner == IF order = "xy" THEN xtab ELSE ytab
Outer == IF order = "xy" THEN ytab ELSE xtab

Gain(t) == t.gain[t.size]

(* The negative weights come to one at most, as in the tables that         *)
(* make_weighttab is checked for (TableTame of WeightTable).               *)
Tame(t) == Gain(t) <= 3 * WEIGHTONE

(* No sum outgrows an int, which has three bits more than two weights      *)
(* have, if the second table is tame and the magnitudes of the first come  *)
(* to 4 * Spare times one at most (scanline.c:155-159, 175-179, 207-210,   *)
(* 279, 289).                                                              *)
SumsFit ==
  Tame(Outer) /\ Gain(Inner) <= 4 * Spare * WEIGHTONE =>
    \A x \in {sum, accum} :
      -8 * WEIGHTONE * WEIGHTONE <= x /\ x < 8 * WEIGHTONE * WEIGHTONE

(* The pixel is the one nearest to the exact sum, black or white if that   *)
(* is out of range, but for what the first filter rounds: half a bit of a  *)
(* short in x first, a whole bit in y first (scanline.c:155, 179).         *)
NearExact ==
  pixel # Unwritten /\ Tame(Inner) =>
    LET One    == WEIGHTONE * WEIGHTONE
        inside == IF exact < 0 THEN 0 ELSE IF exact > CHANWHITE * One THEN CHANWHITE * One ELSE exact
        first  == IF order = "xy" THEN Chan \div 2 ELSE Chan - 1
    IN  2 * Magnitude(pixel * One - inside) <= One + 2 * first * Gain(Outer)
=============================================================================
