--------------------------- MODULE MCFilteredZoom ---------------------------
(***************************************************************************)
(* Instances of FilteredZoom: the sets of requests TLC enumerates.  The    *)
(* windows reach one line beyond the pictures on either side, so that the  *)
(* clipping has something to clip.                                         *)
(***************************************************************************)
EXTENDS FilteredZoom

CONSTANT H          \* height of the pictures

Windows(S) == {w \in S \X S : w[1] <= w[2]}

(* The ways the two pictures can be related: different ones, one picture   *)
(* with windows side by side, one picture with windows over each other.    *)
Different  == [same |-> FALSE, xover |-> FALSE]
SideBySide == [same |-> TRUE, xover |-> FALSE]
InPlace    == [same |-> TRUE, xover |-> TRUE]

(* Filters of zoom/filt.c, and one as -plain leaves it.                    *)
Filter(F, cardinal, lobes) ==
  [F |-> F, cardinal |-> cardinal, lobes |-> lobes, coerce |-> TRUE]
Uncoerced(kind) == [kind EXCEPT !.coerce = FALSE]

Box       == Filter(1, TRUE, FALSE)
Triangle  == Filter(2, TRUE, FALSE)
Quadratic == Filter(3, FALSE, FALSE)
Cubic     == Filter(4, FALSE, FALSE)
Catrom    == Filter(4, TRUE, TRUE)
Mitchell  == Filter(4, FALSE, TRUE)

(* What can become of the weight tables of the columns, in some window.    *)
Tables(kind) ==
  {"line"} \cup {o \in {"xoverflow"} : kind.lobes}
           \cup {o \in {"xnull"} : kind.cardinal /\ kind.coerce}

Zoom(map, a, b, bh, kind, rel) ==
  [sn |-> map.sn, sd |-> map.sd, T |-> map.T,
   F |-> kind.F, cardinal |-> kind.cardinal, lobes |-> kind.lobes,
   coerce |-> kind.coerce,
   a0 |-> a[1], a1 |-> a[2], b0 |-> b[1], b1 |-> b[2],
   ah |-> H, bh |-> bh, same |-> rel.same, xover |-> rel.xover,
   xpoint |-> kind.F = 1, xtables |-> Tables(kind)]

(* zoom(): window a of one picture to window b of another, or of the same. *)
WindowToWindow(a, b, kind, rel) ==
  Zoom(WindowMap(a[1], a[2], b[1], b[2]), a, b, H, kind, rel)

=============================================================================
