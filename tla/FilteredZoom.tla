---------------------------- MODULE FilteredZoom ----------------------------
(***************************************************************************)
(* The scan loop of zoom_filtered_xy and zoom_filtered_yx (zoom/zoom.c):   *)
(* one pass over the destination lines, each built from a window of source *)
(* lines that are read on demand into a circular buffer of ay->wid         *)
(* scanlines.  The two routines differ in where the x filter is applied    *)
(* to a line and share all of this control.                                *)
(***************************************************************************)
EXTENDS ZoomScan

VARIABLES
  win,            \* yweight.i0 and yweight.i1 of the current line
  ayf,            \* next source line, relative to geo.a0, to accumulate
  linebuf,        \* circular buffer: line number (-1: unread) and content
  accum           \* source line |-> content accumulated for it

vars == <<scanVars, win, ayf, linebuf, accum>>

Unread == [y |-> -1, data |-> Dirty]

(* Fault: the last line buffer is never used.                              *)
SlotOneShort == ayf % Greatest(geo.wid - 1, 1)

(* Source line ayf has its place in the buffer, and may still be there.    *)
Slot == ayf % geo.wid
Cached == linebuf[Slot].y = ayf

NoLines ==
  /\ win = [i0 |-> 0, i1 |-> 0]
  /\ ayf = 0
  /\ linebuf = Empty
  /\ accum = Empty

Init == ScanInit /\ NoLines

-----------------------------------------------------------------------------
(* zoom_continuous returns early, or hands over to zoom_unfiltered.        *)
Skip ==
  /\ pc = "entry"
  /\ NothingToDo(req) \/ (IsPoint(req) /\ req.xpoint)
  /\ pc' = "done"
  /\ UNCHANGED <<req, geo, ymap, byi, image, linewritten, feedback, out>>
  /\ UNCHANGED <<win, ayf, linebuf, accum>>

(* Otherwise the filtered loop allocates its buffers, every line of them   *)
(* marked unread, and makes the weight tables of all columns.              *)
Setup ==
  /\ pc = "entry"
  /\ ~NothingToDo(req)
  /\ ~(IsPoint(req) /\ req.xpoint)
  /\ "line" \in req.xtables
  /\ Prepare
  /\ linebuf' = [j \in 0 .. geo'.wid - 1 |-> Unread]
  /\ pc' = "line"
  /\ UNCHANGED <<req, byi, image, linewritten, feedback, out, win, ayf, accum>>

(* One of them makes make_weighttab give up, before any line: exit(1).     *)
ColumnsFail ==
  /\ pc = "entry"
  /\ ~NothingToDo(req)
  /\ ~(IsPoint(req) /\ req.xpoint)
  /\ pc' \in req.xtables \ {"line"}
  /\ UNCHANGED <<req, geo, ymap, byi, image, linewritten, feedback, out>>
  /\ UNCHANGED <<win, ayf, linebuf, accum>>

(* Head of the loop over destination lines: make_weighttab finds the       *)
(* window of source lines, the accumulator is cleared.                     *)
BeginLine ==
  /\ pc = "line"
  /\ byi < geo.bn
  /\ \E w \in SourceWindows(geo, by) :
       /\ w.i0 < w.i1
       /\ win' = w
       /\ ayf' = w.i0
  /\ accum' = Empty
  /\ pc' = "taps"
  /\ UNCHANGED <<req, geo, ymap, byi, image, linewritten, feedback, out, linebuf>>

(* make_weighttab finds no source line under the filter: exit(1).          *)
NullFilter ==
  /\ pc = "line"
  /\ byi < geo.bn
  /\ \E w \in SourceWindows(geo, by) : w.i0 >= w.i1
  /\ pc' = "null"
  /\ UNCHANGED <<req, geo, ymap, byi, image, linewritten, feedback, out>>
  /\ UNCHANGED <<win, ayf, linebuf, accum>>

(* A normalized weight does not fit in a short: exit(1).  The weights are  *)
(* not modelled here; only negative lobes can make one exceed the sum of   *)
(* them all, and only where the filter is cut off.                         *)
WeightOverflow ==
  /\ pc = "line"
  /\ byi < geo.bn
  /\ geo.lobes /\ CutOff(geo, by)
  /\ pc' = "overflow"
  /\ UNCHANGED <<req, geo, ymap, byi, image, linewritten, feedback, out>>
  /\ UNCHANGED <<win, ayf, linebuf, accum>>

(* scanline_accum: add source line y, with this content, into accum.       *)
Accumulate(data) ==
  /\ accum' = [y \in DOMAIN accum \cup {geo.a0 + ayf} |->
                 IF y = geo.a0 + ayf THEN data ELSE accum[y]]
  /\ ayf' = ayf + 1

(* Fault: the loop over source lines moves on only where it reads.         *)
UseLineAgain ==
  /\ pc = "taps"
  /\ ayf < win.i1
  /\ Cached
  /\ UNCHANGED vars

(* The source line is still in its slot of the buffer.                     *)
UseLine ==
  /\ pc = "taps"
  /\ ayf < win.i1
  /\ Cached
  /\ Accumulate(linebuf[Slot].data)
  /\ UNCHANGED <<scanVars, win, linebuf>>

(* Another line occupies the slot: read the source line into it, and       *)
(* complain if it was already overwritten.                                 *)
ReadLine ==
  /\ pc = "taps"
  /\ ayf < win.i1
  /\ ~Cached
  /\ CheckFeedback(geo.a0 + ayf)
  /\ linebuf' = [linebuf EXCEPT ![Slot] = [y |-> ayf, data |-> image[geo.a0 + ayf]]]
  /\ Accumulate(image[geo.a0 + ayf])
  /\ UNCHANGED <<req, pc, geo, ymap, byi, image, linewritten, out, win>>

(* Shift or filter the accumulated line down to pixels and write it.       *)
WriteLine ==
  /\ pc = "taps"
  /\ ayf = win.i1
  /\ StoreLine(accum)
  /\ pc' = "line"
  /\ UNCHANGED <<req, geo, ymap, feedback, win, ayf, linebuf, accum>>

(* Every destination line is written: free the buffers and return.         *)
Finish ==
  /\ pc = "line"
  /\ byi = geo.bn
  /\ pc' = "done"
  /\ UNCHANGED <<req, geo, ymap, byi, image, linewritten, feedback, out>>
  /\ UNCHANGED <<win, ayf, linebuf, accum>>

(* The caller has the pictures back, or the process is gone.               *)
Returned == pc \in {"done", "null", "overflow", "xnull", "xoverflow"} /\ UNCHANGED vars

Next ==
  \/ Skip \/ Setup \/ ColumnsFail \/ BeginLine \/ NullFilter \/ WeightOverflow
  \/ UseLine \/ ReadLine \/ WriteLine \/ Finish \/ Returned

Spec == Init /\ [][Next]_vars
FairSpec == Spec /\ WF_vars(Next)

-----------------------------------------------------------------------------
InTaps == pc = "taps"

GeometryOK ==
  /\ geo \in GeometryType
  /\ geo.a0 + geo.an <= PicHeight
  /\ ymap \in [0 .. geo.bn - 1 -> 0 .. geo.bn - 1]
  /\ DOMAIN linebuf = 0 .. geo.wid - 1
  /\ \A j \in 0 .. geo.wid - 1 :
       linebuf[j] = Unread \/ linebuf[j] \in [y : 0 .. geo.an - 1, data : Lines \cup {Dirty}]

(* The scan loop stays within its buffers and within the two windows: a    *)
(* buffer slot holds a line of the source window, a destination line       *)
(* number is an index of the destination window (zoom.c:317-390).          *)
TypeOK ==
  /\ RequestOK(req)
  /\ pc \in {"entry", "line", "taps", "done", "null", "overflow", "xnull", "xoverflow"}
  /\ pc \in {"line", "taps"} => GeometryOK
  /\ byi \in Nat /\ (pc = "entry" => byi = 0)
  /\ pc \in {"line", "taps"} => byi <= geo.bn
  /\ InTaps => /\ byi < geo.bn
               /\ win.i0 \in 0 .. geo.an /\ win.i1 \in 1 .. geo.an
               /\ ayf \in win.i0 .. win.i1
  /\ image \in [Lines -> Lines \cup {Dirty}]
  /\ linewritten \subseteq Int
  /\ feedback \in BOOLEAN

(* The magic split works: no source line is read after it was overwritten, *)
(* however the windows overlap (zoom.c:19-22).                             *)
NoFeedback == ~feedback

(* Roundoff can give a line one more source line than there are buffers:   *)
(* the first and the last of them then evict each other, and are read      *)
(* again for the lines after it, or even for the line itself.              *)
Overfull(g) ==
  \E b \in 0 .. g.bn - 1 : \E w \in FullWindows(g, b) : w.i1 - w.i0 > g.wid

(* Roundoff alone does not spoil the split: the check that repeats the     *)
(* truncation of make_weighttab keeps the scan order right, and even then  *)
(* only a window too wide for the buffers, a translation moved backwards   *)
(* or a line without weights feeds back (zoom.c:864-901).                  *)
SplitSurvivesRoundoff ==
  feedback => MovedBackwards(geo) \/ Overfull(geo) \/ Trimmed(geo)

(* With a mapping given explicitly only two kinds of zoom can feed back:   *)
(* one moved backwards (zoom.c:865-867) and one with a line whose weights  *)
(* are all zero (zoom.c:798-803 trims its window).                         *)
FeedbackOnlyIf == feedback => MovedBackwards(geo) \/ Trimmed(geo)

(* The check behind the FEEDBACK message is complete: as long as nothing   *)
(* was reported, every destination line was computed from source lines     *)
(* with their own content (zoom.c:371, 484).  The code tests only lines it *)
(* reads, and only if the clipped windows overlap.                         *)
CorruptionReported ==
  ~feedback => \A y \in DOMAIN out : \A k \in DOMAIN out[y] : out[y][k] = k

(* The lines a destination line needs are all in the buffer at once, and   *)
(* its weights fit in yweight, which has ay->wid entries (zoom.c:75, 327): *)
(* no line evicts another of the same window.                              *)
WindowFits == InTaps => win.i1 - win.i0 <= geo.wid

(* Even with roundoff a window is never more than one line wider than the  *)
(* buffers and the weights of yweight (zoom.c:75, 757-758), and only if    *)
(* its lower end alone was rounded down.                                   *)
OverfullOnlyByRoundoff ==
  InTaps /\ win.i1 - win.i0 > geo.wid =>
    by \in geo.low /\ win.i1 - win.i0 = geo.wid + 1

(* make_weighttab finds source lines under every line of the destination   *)
(* that zoom_continuous keeps, so it never gives up; except where the      *)
(* filter was made narrower after the clipping (zoom.c:598-615, 631-633).  *)
NullFilterOnlyIfCoerced == pc = "null" => Coerced(req)

(* ... and so the program never stops with "null filter".                  *)
NeverNullFilter == pc # "null"

(* Without overlap the source is read strictly downwards and no line       *)
(* twice, as the sequential picture formats need (libpic/pic.3:75); unless *)
(* a line has no weights and reads the middle of its window only.          *)
ForwardReads ==
  [][\A j \in DOMAIN linebuf :
       ~geo.overlap /\ linebuf'[j] # linebuf[j] =>
         \/ \A k \in DOMAIN linebuf : linebuf[k].y < linebuf'[j].y
         \/ Trimmed(geo)]_linebuf

(* Every destination line is written once: ymap is a permutation.          *)
WritesAreFresh == [][byi' # byi => geo.b0 + by \notin linewritten]_vars

(* The in-place, buffered, reordered loop computes what a zoom between two *)
(* different pictures would (zoom.c:19-22, 656).                           *)
ImplementsResample == Ideal!Spec

(* The loop ends, and then no line of the valid destination is missing,    *)
(* unless the process gave up over the weights of a filter with negative   *)
(* lobes or the window of one that was made narrower, or over a column.    *)
Completes ==
  <>[](\/ pc = "done" /\ (Ideal!Completed \/ (IsPoint(req) /\ req.xpoint))
       \/ pc = "overflow" /\ req.lobes
       \/ pc = "null" /\ Coerced(req)
       \/ pc \in req.xtables \ {"line"})
=============================================================================
