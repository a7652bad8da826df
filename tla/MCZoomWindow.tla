---------------------------- MODULE MCZoomWindow ----------------------------
(* Every window of a small picture to every other one, by zoom().          *)
EXTENDS MCFilteredZoom

Kinds == {Box, Triangle, Quadratic, Cubic, Catrom, Mitchell,
          Uncoerced(Triangle), Uncoerced(Catrom)}

(* A filter kept as it is may find itself without weights if the source    *)
(* window leaves the picture: see MCZoomMap and MCZoomCases.               *)
WindowRequests ==
  {WindowToWindow(q[1], q[2], q[3], q[4]) :
     q \in {p \in Windows(-1 .. H) \X Windows(-1 .. H) \X Kinds
                    \X {Different, SideBySide, InPlace} :
              p[3].coerce \/ (p[1][1] >= 0 /\ p[1][2] < H)}}
=============================================================================
