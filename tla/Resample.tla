------------------------------ MODULE Resample ------------------------------
(***************************************************************************)
(* What zooming promises, whatever the scan order and the buffering: every *)
(* line of the destination that the mapped source window reaches is        *)
(* computed, once, from the ORIGINAL source lines under its filter, as if  *)
(* source and destination were different pictures (zoom/zoom.c:19-22).     *)
(*                                                                         *)
(* The windows are defined here in absolute picture coordinates, by        *)
(* inequalities, and share nothing with the relative coordinates,          *)
(* truncations and clipping steps of the code.                             *)
(***************************************************************************)
EXTENDS Integers

CONSTANT UNDEF          \* height of a picture that has no size yet

VARIABLES request,      \* the zoom asked for
          dest          \* destination line |-> (source line |-> content)

(* 2*sn*support of a filter of width F half source pixels.                 *)
FullSpread(r) ==
  LET wide == IF r.sn >= r.sd THEN r.F * r.sn ELSE r.F * r.sd
  IN  IF wide < r.sn THEN r.sn ELSE wide

(* A cardinal filter moved by whole lines at scale 1 samples single lines. *)
SamplesPoints(r) ==
  /\ r.coerce
  /\ r.cardinal \/ FullSpread(r) = r.sn
  /\ FullSpread(r) # r.sn => r.sn = r.sd /\ r.T % (2 * r.sd) = 0

UsedSpread(r) == IF SamplesPoints(r) THEN r.sn ELSE FullSpread(r)

SourceLines(r) == {y \in r.a0 .. r.a1 : 0 <= y /\ y < r.ah}

(* The destination lines strictly within the support of the mapped window  *)
(* first .. last of the source.                                            *)
DestLines(r) ==
  {y \in r.b0 .. r.b1 :
     /\ r.sn > 0
     /\ r.bh # UNDEF => 0 <= y /\ y < r.bh
     /\ \E first, last \in SourceLines(r) :
          /\ \A k \in SourceLines(r) : first <= k /\ k <= last
          /\ 2 * r.sn * first + r.T - FullSpread(r) < 2 * r.sd * y
          /\ 2 * r.sd * y < 2 * r.sn * last + r.T + FullSpread(r)}

(* The source lines within the support of the point line y maps to.        *)
Under(r, y) ==
  {k \in SourceLines(r) : /\ 2 * r.sd * y - r.T - UsedSpread(r) < 2 * r.sn * k
                          /\ 2 * r.sn * k <= 2 * r.sd * y - r.T + UsedSpread(r)}

(* Of these a cardinal filter has no use for those a whole number of       *)
(* (scaled) lines away.                                                    *)
Weightless(r, y, k) ==
  /\ r.cardinal /\ ~SamplesPoints(r)
  /\ LET unit == IF r.sn >= r.sd THEN 2 * r.sn ELSE 2 * r.sd
     IN  \E n \in 1 .. r.F :
           2 * r.sn * k - 2 * r.sd * y + r.T \in {n * unit, -n * unit}

(* If it has no use for any, it may take whichever it likes.               *)
Samples(r, y) ==
  IF \A k \in Under(r, y) : Weightless(r, y, k)
  THEN {{k} : k \in Under(r, y)}
  ELSE {Under(r, y)}

Init == dest = [y \in {} |-> y]

(* Compute one more line, from lines that still have their own content.    *)
Compute(y) ==
  /\ Under(request, y) # {}
  /\ \E S \in Samples(request, y) :
       dest' = [z \in DOMAIN dest \cup {y} |-> IF z = y THEN [k \in S |-> k] ELSE dest[z]]
  /\ UNCHANGED request

Next == \E y \in DestLines(request) \ DOMAIN dest : Compute(y)

Spec == Init /\ [][Next]_<<request, dest>>

(* Every line of the valid destination is computed in the end.             *)
FairSpec == Spec /\ WF_<<request, dest>>(Next)
Completed == DOMAIN dest = DestLines(request)
=============================================================================
