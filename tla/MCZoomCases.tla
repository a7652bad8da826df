----------------------------- MODULE MCZoomCases -----------------------------
(* Single requests, on pictures as large as they need.                     *)
EXTENDS MCFilteredZoom

(* 21 lines to seven, triangle filter, from a window that begins above the *)
(* picture: roundoff makes the window of line 17 12..18, one line wider    *)
(* than it is.                                                             *)
TwentyOneToSeven == {WindowToWindow(<<-1, 19>>, <<12, 18>>, Triangle, InPlace)}

(* zoom -map 1 1 0 -3.5 -filt cubic, from lines 0..9 onto lines 4..9.      *)
MovedUp == {Zoom([sn |-> 1, sd |-> 1, T |-> -7], <<0, 9>>, <<4, 9>>, H, Cubic, InPlace)}

(* zoom -map 1 1 0 0 -filt cubic catrom, from a window inside the picture: *)
(* catrom is the y filter; were it the x filter too, both would be made    *)
(* point sampling and the unfiltered loop would run.                       *)
Narrowed == {Zoom([sn |-> 1, sd |-> 1, T |-> 0], <<2, 3>>, <<0, 5>>, H, Catrom, Different)}

(* zoom -plain -filt catrom, one line down, from a window that begins      *)
(* above the picture: the first line has weights of zero only.             *)
OneDown == {WindowToWindow(<<-1, 3>>, <<0, 4>>, Uncoerced(Catrom), InPlace)}
=============================================================================
