--------------------------- MODULE UnfilteredZoom ---------------------------
(***************************************************************************)
(* The scan loop of zoom_unfiltered_mono and zoom_unfiltered_rgb           *)
(* (zoom/zoom.c): point sampling.  Every destination line is a copy of one *)
(* source line, which stays in abuf as long as consecutive destination     *)
(* lines use it.  The two routines differ only in their pixel type.        *)
(***************************************************************************)
EXTENDS ZoomScan

CONSTANT Beyond         \* content of a line outside the picture

VARIABLES
  ayold,          \* source line in abuf, relative to geo.a0; -1: none
  abuf            \* source line |-> content, of that line

vars == <<scanVars, ayold, abuf>>

NoLine ==
  /\ ayold = -1
  /\ abuf = Empty

Init == ScanInit /\ NoLine

(* Fault: centers are not moved by half a line.                            *)
SampledLinesUncentered == Truncs(2 * geo.sd * by + geo.U - geo.sd, 2 * geo.sn)

(* The source line of the destination line: (int) MAP(by, m->sy, m->uy).   *)
SampledLines == Truncs(2 * geo.sd * by + geo.U, 2 * geo.sn)

(* What pic_read_row finds at line y.                                      *)
ContentOf(y) == IF y \in 0 .. req.ah - 1 THEN image[y] ELSE Beyond

-----------------------------------------------------------------------------
(* zoom_continuous returns early, or takes a filtered loop.                *)
Skip ==
  /\ pc = "entry"
  /\ NothingToDo(req) \/ ~(IsPoint(req) /\ req.xpoint)
  /\ pc' = "done"
  /\ UNCHANGED <<req, geo, ymap, byi, image, linewritten, feedback, out>>
  /\ UNCHANGED <<ayold, abuf>>

Setup ==
  /\ pc = "entry"
  /\ ~NothingToDo(req)
  /\ IsPoint(req) /\ req.xpoint
  /\ Prepare
  /\ pc' = "line"
  /\ UNCHANGED <<req, byi, image, linewritten, feedback, out, ayold, abuf>>

(* The line is in abuf (and resampled in bbuf) already.                    *)
KeepLine ==
  /\ pc = "line"
  /\ byi < geo.bn
  /\ ayold \in SampledLines
  /\ pc' = "write"
  /\ UNCHANGED <<req, geo, ymap, byi, image, linewritten, feedback, out>>
  /\ UNCHANGED <<ayold, abuf>>

(* Fault: the line in abuf is not remembered.                              *)
ReadLineForgotten ==
  /\ pc = "line"
  /\ byi < geo.bn
  /\ \E ay \in SampledLines \ {ayold} :
       /\ CheckFeedback(geo.a0 + ay)
       /\ abuf' = [y \in {geo.a0 + ay} |-> ContentOf(y)]
  /\ pc' = "write"
  /\ UNCHANGED <<req, geo, ymap, byi, image, linewritten, out, ayold>>

(* A new line: complain if it was overwritten, and read it.                *)
ReadLine ==
  /\ pc = "line"
  /\ byi < geo.bn
  /\ \E ay \in SampledLines \ {ayold} :
       /\ ayold' = ay
       /\ CheckFeedback(geo.a0 + ay)
       /\ abuf' = [y \in {geo.a0 + ay} |-> ContentOf(y)]
  /\ pc' = "write"
  /\ UNCHANGED <<req, geo, ymap, byi, image, linewritten, out>>

WriteLine ==
  /\ pc = "write"
  /\ StoreLine(abuf)
  /\ pc' = "line"
  /\ UNCHANGED <<req, geo, ymap, feedback, ayold, abuf>>

Finish ==
  /\ pc = "line"
  /\ byi = geo.bn
  /\ pc' = "done"
  /\ UNCHANGED <<req, geo, ymap, byi, image, linewritten, feedback, out>>
  /\ UNCHANGED <<ayold, abuf>>

Returned == pc = "done" /\ UNCHANGED vars

Next == Skip \/ Setup \/ KeepLine \/ ReadLine \/ WriteLine \/ Finish \/ Returned

Spec == Init /\ [][Next]_vars
FairSpec == Spec /\ WF_vars(Next)

-----------------------------------------------------------------------------
(* The order of the lines, the row in abuf and the record of the lines     *)
(* written agree with the windows.                                         *)
TypeOK ==
  /\ RequestOK(req)
  /\ pc \in {"entry", "line", "write", "done"}
  /\ pc \in {"line", "write"} =>
       /\ ymap \in [0 .. geo.bn - 1 -> 0 .. geo.bn - 1]
       /\ byi \in 0 .. geo.bn
  /\ pc = "write" => byi < geo.bn /\ DOMAIN abuf = {geo.a0 + ayold}
  /\ image \in [Lines -> Lines \cup {Dirty}]
  /\ linewritten \subseteq Int /\ feedback \in BOOLEAN

(* No source line is read after it was overwritten (zoom.c:19-22).         *)
NoFeedback == ~feedback

(* Pixels are read from the source window only (zoom.c:543).               *)
ReadsSourceWindow ==
  pc = "write" => ayold \in 0 .. geo.an - 1

(* No line is silently copied from one that was overwritten: what the      *)
(* FEEDBACK message does not report did not happen (zoom.c:212, 264).      *)
CorruptionReported ==
  ~feedback => \A y \in DOMAIN out : \A k \in DOMAIN out[y] : out[y][k] # Dirty

(* Without overlap the source is read strictly downwards and no line twice *)
(* (libpic/pic.3:75).                                                      *)
ForwardReads == [][ayold < ayold' \/ (ayold # ayold' /\ geo.overlap)]_ayold

(* Point sampling gives every line of the valid destination the one source *)
(* line whose pixel its center falls into, as two different pictures would *)
(* (zoom.c:19-22, 656).                                                    *)
ImplementsResample == Ideal!Spec

(* The loop ends, and then no line of the valid destination is missing.    *)
Completes == IsPoint(req) => <>[](pc = "done" /\ Ideal!Completed)
=============================================================================
