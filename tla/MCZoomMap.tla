------------------------------ MODULE MCZoomMap ------------------------------
(* Explicit mappings of every small scale and translation.                 *)
EXTENDS MCFilteredZoom

Scales == {<<1, 1>>, <<2, 1>>, <<3, 2>>, <<1, 2>>, <<2, 3>>, <<0, 1>>}

(* zoom_continuous() with a mapping of its own (zoom -map): within one     *)
(* picture, or to a new one whose size is not known yet.                   *)
MapRequests ==
  {Zoom([sn |-> s[1], sd |-> s[2], T |-> T], a, b, to[1], kind, to[2]) :
     s \in Scales, T \in {-7, -5, -4, -2, 0, 1, 3, 4, 6}, a \in Windows(0 .. H - 1),
     b \in Windows(0 .. H),
     kind \in {Box, Triangle, Uncoerced(Triangle), Cubic, Catrom, Uncoerced(Catrom)},
     to \in {<<H, SideBySide>>, <<H, InPlace>>, <<UNDEF, Different>>}}
=============================================================================
