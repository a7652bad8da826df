-------------------------- MODULE MCUnfilteredZoom --------------------------
(* Instances of UnfilteredZoom.                                            *)
EXTENDS UnfilteredZoom

CONSTANT H        \* height of the pictures

Windows(S) == {w \in S \X S : w[1] <= w[2]}

Different == [same |-> FALSE, xover |-> FALSE]
InPlace   == [same |-> TRUE, xover |-> TRUE]

Zoom(map, a, b, F, coerce, rel) ==
  [sn |-> map.sn, sd |-> map.sd, T |-> map.T, F |-> F,
   cardinal |-> TRUE, lobes |-> F > 2, coerce |-> coerce,
   a0 |-> a[1], a1 |-> a[2], b0 |-> b[1], b1 |-> b[2],
   ah |-> H, bh |-> H, same |-> rel.same, xover |-> rel.xover, xpoint |-> TRUE,
   xtables |-> {"line"}]

(* The point filter (F = 0) at any scale, and the box (F = 1), which is    *)
(* simplified to it when magnifying; by zoom().                            *)
PointRequests ==
  {Zoom(WindowMap(a[1], a[2], b[1], b[2]), a, b, F, c, rel) :
     a \in Windows(-1 .. H), b \in Windows(-1 .. H), F \in {0, 1},
     c \in BOOLEAN, rel \in {Different, InPlace}}
=============================================================================
