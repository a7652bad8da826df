------------------------------ MODULE ZoomScan ------------------------------
(***************************************************************************)
(* What the scan loops of zoom/zoom.c have in common: the pictures, the    *)
(* order of the destination lines, the record of what was written, and the *)
(* writing of a line.                                                      *)
(*                                                                         *)
(* A source line is abstracted to where its pixels came from: the content  *)
(* of line y is y until a destination line is written over it, and Dirty   *)
(* from then on.                                                           *)
(***************************************************************************)
EXTENDS ZoomGeometry

CONSTANTS Requests,     \* the zooms asked for
          PicHeight,    \* bound on the height of the source pictures
          Dirty         \* content of a line that was overwritten

Lines == 0 .. PicHeight - 1

(* The destination's height is the source's if they are the same picture.  *)
RequestOK(r) == r \in Request /\ r.ah <= PicHeight /\ (r.same => r.bh = r.ah)

ASSUME RequestsAssumption ==
  /\ PicHeight \in Nat
  /\ Dirty \notin Int
  /\ \A r \in Requests : RequestOK(r)

VARIABLES
  req,            \* the arguments of zoom_continuous
  pc,             \* where the routine is
  geo,            \* windows, mapping and filter after clipping
  ymap,           \* destination lines in the order they are computed
  byi,            \* number of destination lines written
  image,          \* content of the source picture, line by line
  linewritten,    \* destination lines written
  feedback,       \* has FEEDBACK been reported?
  out             \* destination line |-> what it was computed from

scanVars == <<req, pc, geo, ymap, byi, image, linewritten, feedback, out>>

Empty == [x \in {} |-> x]
by == ymap[byi]

ScanStart ==
  /\ pc = "entry"
  /\ geo = Empty
  /\ ymap = Empty
  /\ byi = 0
  /\ image = [y \in Lines |-> y]
  /\ linewritten = {}
  /\ feedback = FALSE
  /\ out = Empty

ScanInit == req \in Requests /\ ScanStart

(* zoom_continuous up to its dispatch, and make_map_table.                 *)
Prepare ==
  \E wid \in Widths(req), low \in Roundings(Geometry(req, 1, {})) :
    /\ geo' = Geometry(req, wid, low)
    /\ ymap' \in ScanOrders(Geometry(req, wid, low))

(* Fault: linewritten is indexed relative to the source window.            *)
CheckFeedbackRelative(y) ==
  feedback' = (feedback \/ (geo.overlap /\ y - geo.a0 \in linewritten))

(* A source line is about to be read: complain if it was overwritten.      *)
CheckFeedback(y) == feedback' = (feedback \/ (geo.overlap /\ y \in linewritten))

(* Write the current destination line, computed from these source lines;   *)
(* it lands on a source line if the rows are shared.                       *)
StoreLine(taps) ==
  /\ image' = IF geo.shared THEN [image EXCEPT ![geo.b0 + by] = Dirty] ELSE image
  /\ linewritten' = linewritten \cup {geo.b0 + by}
  /\ out' = [y \in DOMAIN out \cup {geo.b0 + by} |->
               IF y = geo.b0 + by THEN taps ELSE out[y]]
  /\ byi' = byi + 1

(* What a zoom between two different pictures computes.                    *)
Ideal == INSTANCE Resample WITH request <- req, dest <- out
=============================================================================
