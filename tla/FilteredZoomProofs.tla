------------------------- MODULE FilteredZoomProofs -------------------------
(***************************************************************************)
(* Theorems about the scan loop of FilteredZoom, for every picture height, *)
(* every request and every way the truncations are rounded.                *)
(***************************************************************************)
EXTENDS FilteredZoom, ZoomGeometryProofs

InLoop == pc \in {"line", "taps"}

(* The lines from geo.b0 on that the first byi entries of ymap name are    *)
(* the lines written, and ymap names no line twice.                        *)
WrittenInOrder ==
  /\ linewritten = {geo.b0 + ymap[i] : i \in 0 .. byi - 1}
  /\ \A i, j \in 0 .. geo.bn - 1 : ymap[i] = ymap[j] => i = j

(* A source line still has its own content, or a destination line that     *)
(* shares its row was written.                                             *)
OnlyWritingChanges ==
  \A y \in Lines : image[y] = y \/ (geo.shared /\ y \in linewritten)

(* The code's overlap test misses no line that is in both windows.         *)
OverlapIsSharing ==
  geo.overlap <=> /\ geo.shared
                  /\ geo.a0 <= geo.b0 + geo.bn - 1
                  /\ geo.b0 <= geo.a0 + geo.an - 1

(* Until FEEDBACK is reported every buffered line has its own content, and *)
(* so has everything accumulated or written from the buffer.               *)
BufferGenuine ==
  ~feedback =>
    \A j \in 0 .. geo.wid - 1 :
      linebuf[j] # Unread => linebuf[j].data = geo.a0 + linebuf[j].y
AccumGenuine == ~feedback => \A k \in DOMAIN accum : accum[k] = k

Inv ==
  /\ TypeOK
  /\ pc = "entry" => /\ linewritten = {}
                     /\ image = [y \in Lines |-> y]
  /\ InLoop => WrittenInOrder /\ OnlyWritingChanges /\ OverlapIsSharing /\ BufferGenuine
  /\ InTaps => AccumGenuine
  /\ CorruptionReported

-----------------------------------------------------------------------------
(* zoom_opt is entered with variables of their types.                      *)
LEMMA InitTypeOK == Init => TypeOK
<1> SUFFICES ASSUME Init PROVE TypeOK
  OBVIOUS
<1>1. RequestOK(req)
  BY RequestsAssumption DEF Init, ScanInit, ScanStart, NoLines
<1>2. image \in [Lines -> Lines \cup {Dirty}]
  BY DEF Init, ScanInit, ScanStart, NoLines
<1> QED BY <1>1, <1>2 DEF Init, ScanInit, ScanStart, NoLines, TypeOK, InTaps

(* What zoom_continuous prepares is a geometry within the source picture   *)
(* and a permutation of the destination lines.                             *)
LEMMA PrepareTyped ==
  ASSUME RequestOK(req), ~NothingToDo(req), Prepare
  PROVE  /\ geo' \in GeometryType
         /\ geo'.a0 + geo'.an <= PicHeight
         /\ geo'.overlap <=> /\ geo'.shared
                             /\ geo'.a0 <= geo'.b0 + geo'.bn - 1
                             /\ geo'.b0 <= geo'.a0 + geo'.an - 1
         /\ ymap' \in [0 .. geo'.bn - 1 -> 0 .. geo'.bn - 1]
         /\ \A i, j \in 0 .. geo'.bn - 1 : ymap'[i] = ymap'[j] => i = j
<1>1. req \in Request /\ req.ah <= PicHeight
  BY DEF RequestOK
<1>2. PICK wid \in Widths(req), low \in Roundings(Geometry(req, 1, {})) :
        /\ geo' = Geometry(req, wid, low)
        /\ ymap' \in ScanOrders(Geometry(req, wid, low))
  BY DEF Prepare
<1>3. wid \in Nat \ {0}
  BY <1>1, WidthsPositive
<1>4. low \in SUBSET Int
  <2>1. Geometry(req, 1, {}) \in GeometryType
    BY <1>1, GeometryTyped
  <2> QED BY <2>1 DEF Roundings, GeometryType
<1>5. /\ geo' \in GeometryType
      /\ geo'.a0 + geo'.an <= req.ah
      /\ geo'.overlap <=> /\ geo'.shared
                          /\ geo'.a0 <= geo'.b0 + geo'.bn - 1
                          /\ geo'.b0 <= geo'.a0 + geo'.an - 1
  BY <1>1, <1>2, <1>3, <1>4, GeometryTyped
<1>6. /\ ymap' \in [0 .. geo'.bn - 1 -> 0 .. geo'.bn - 1]
      /\ \A i, j \in 0 .. geo'.bn - 1 : ymap'[i] = ymap'[j] => i = j
  BY <1>2, <1>5, OrdersPermute
<1>7. geo'.a0 + geo'.an <= PicHeight
  BY <1>1, <1>5, RequestsAssumption DEF Request, GeometryType
<1> QED BY <1>5, <1>6, <1>7

(* A column that ends the process leaves no other place to be in           *)
(* (zoom.c:346-350).                                                       *)
LEMMA ColumnsFailEnds ==
  ASSUME TypeOK, ColumnsFail
  PROVE  pc' \in {"xnull", "xoverflow"}
BY DEF ColumnsFail, TypeOK, RequestOK, Request

(* Every step of the loop (zoom.c:353-390) keeps the types, and with them  *)
(* the indices within the windows and the line buffers.                    *)
LEMMA NextTypeOK == TypeOK /\ [Next]_vars => TypeOK'
<1> SUFFICES ASSUME TypeOK, [Next]_vars PROVE TypeOK'
  OBVIOUS
<1> USE DEF TypeOK, InTaps
<1>1. CASE Skip \/ ColumnsFail
  BY <1>1, ColumnsFailEnds DEF Skip, ColumnsFail
<1>2. CASE Setup
  <2>1. /\ geo' \in GeometryType
        /\ geo'.a0 + geo'.an <= PicHeight
        /\ ymap' \in [0 .. geo'.bn - 1 -> 0 .. geo'.bn - 1]
    BY <1>2, PrepareTyped DEF Setup
  <2>2. GeometryOK'
    BY <1>2, <2>1 DEF Setup, GeometryOK
  <2>3. byi' \in Nat /\ byi' <= geo'.bn
    BY <1>2, <2>1 DEF Setup, GeometryType
  <2> QED BY <1>2, <2>2, <2>3 DEF Setup
<1>3. CASE BeginLine
  <2>1. GeometryOK /\ GeometryOK'
    BY <1>3 DEF BeginLine, GeometryOK
  <2>2. PICK w \in SourceWindows(geo, by) : w.i0 < w.i1 /\ win' = w /\ ayf' = w.i0
    BY <1>3 DEF BeginLine
  <2>3. by \in Int
    BY <1>3, <2>1, SMTT(30) DEF BeginLine, GeometryOK, GeometryType, by
  <2>4. w.i0 \in Nat /\ w.i1 \in Int /\ w.i1 <= geo.an /\ geo.an \in Nat
    BY <2>1, <2>3, WindowsInside DEF GeometryOK, GeometryType
  <2> QED BY <1>3, <2>1, <2>2, <2>4 DEF BeginLine
<1>4. CASE NullFilter \/ WeightOverflow
  BY <1>4 DEF NullFilter, WeightOverflow
<1>5. CASE UseLine
  BY <1>5 DEF UseLine, Accumulate, scanVars, GeometryOK
<1>6. CASE ReadLine
  <2>1. GeometryOK
    BY <1>6 DEF ReadLine
  <2>2. /\ geo.wid \in Nat \ {0} /\ geo.a0 \in Nat /\ geo.an \in Nat
        /\ geo.a0 + geo.an <= PicHeight
    BY <2>1 DEF GeometryOK, GeometryType
  <2>3. ayf \in 0 .. geo.an - 1 /\ win.i1 \in Int
    BY <1>6, <2>2 DEF ReadLine
  <2>4. geo.a0 + ayf \in Lines
    BY <2>2, <2>3, RequestsAssumption, SMTT(30) DEF Lines
  <2>5. [y |-> ayf, data |-> image[geo.a0 + ayf]]
          \in [y : 0 .. geo.an - 1, data : Lines \cup {Dirty}]
    BY <2>3, <2>4
  <2>6. GeometryOK'
    BY <1>6, <2>1, <2>5 DEF ReadLine, GeometryOK
  <2>7. feedback' \in BOOLEAN
    BY <1>6 DEF ReadLine, CheckFeedback
  <2>8. ayf' \in win'.i0 .. win'.i1
    BY <1>6, <2>3 DEF ReadLine, Accumulate
  <2> QED BY <1>6, <2>6, <2>7, <2>8 DEF ReadLine
<1>7. CASE WriteLine
  <2>1. GeometryOK /\ GeometryOK'
    BY <1>7 DEF WriteLine, StoreLine, GeometryOK
  <2>2. geo.b0 + by \in Int
    <3>1. byi \in 0 .. geo.bn - 1 /\ geo.b0 \in Int /\ geo.bn \in Nat
      BY <1>7, <2>1, SMTT(30) DEF WriteLine, GeometryOK, GeometryType
    <3>2. ymap[byi] \in 0 .. geo.bn - 1
      BY <2>1, <3>1 DEF GeometryOK
    <3> QED BY <3>1, <3>2 DEF by
  <2>3. image' \in [Lines -> Lines \cup {Dirty}]
    BY <1>7 DEF WriteLine, StoreLine
  <2>4. byi' \in Nat /\ byi' <= geo'.bn
    BY <1>7, <2>1 DEF WriteLine, StoreLine, GeometryOK, GeometryType
  <2>5. linewritten' \subseteq Int
    BY <1>7, <2>2 DEF WriteLine, StoreLine
  <2> QED BY <1>7, <2>1, <2>3, <2>4, <2>5 DEF WriteLine, StoreLine
<1>8. CASE Finish
  BY <1>8 DEF Finish
<1>9. CASE Returned \/ UNCHANGED vars
  BY <1>9 DEF Returned, vars, scanVars, GeometryOK
<1> QED BY <1>1, <1>2, <1>3, <1>4, <1>5, <1>6, <1>7, <1>8, <1>9 DEF Next

(* The scan loop stays within its buffers and windows.                     *)
THEOREM TypeCorrect == Spec => []TypeOK
<1>1. Init => TypeOK
  BY InitTypeOK
<1>2. TypeOK /\ [Next]_vars => TypeOK'
  BY NextTypeOK
<1> QED BY <1>1, <1>2, PTL DEF Spec

-----------------------------------------------------------------------------
(* Nothing is written or read when zoom_opt is entered.                    *)
LEMMA InitInv == Init => Inv
<1> SUFFICES ASSUME Init PROVE Inv
  OBVIOUS
<1>1. TypeOK
  BY InitTypeOK
<1>2. CorruptionReported
  BY DEF Init, ScanInit, ScanStart, NoLines, Empty, CorruptionReported
<1> QED BY <1>1, <1>2 DEF Init, ScanInit, ScanStart, NoLines, Inv, InLoop, InTaps

(* A step that reads and writes nothing, and stays where it is.            *)
LEMMA StutterInv ==
  ASSUME Inv, UNCHANGED <<geo, ymap, byi, image, linewritten, feedback, out, linebuf>>,
         TypeOK', InLoop' => InLoop, InTaps' => AccumGenuine', pc' # "entry" \/ UNCHANGED pc
  PROVE  Inv'
BY DEF Inv, InLoop, InTaps, WrittenInOrder, OnlyWritingChanges, OverlapIsSharing,
       BufferGenuine, CorruptionReported

(* While lines are accumulated the next one is in the source window.       *)
LEMMA TapsTyped ==
  ASSUME TypeOK, InTaps
  PROVE  GeometryOK /\ ayf \in 0 .. geo.an /\ (ayf < win.i1 => ayf \in 0 .. geo.an - 1)
<1>1. GeometryOK
  BY DEF TypeOK, InTaps
<1>2. geo.an \in Nat
  BY <1>1 DEF GeometryOK, GeometryType
<1>3. win.i0 \in 0 .. geo.an /\ win.i1 \in 1 .. geo.an /\ ayf \in win.i0 .. win.i1
  BY DEF TypeOK
<1> QED BY <1>1, <1>2, <1>3

(* Every step of the loop (zoom.c:353-390) preserves the inductive         *)
(* invariant.                                                              *)
LEMMA NextInv == Inv /\ [Next]_vars => Inv'
<1> SUFFICES ASSUME Inv, [Next]_vars PROVE Inv'
  OBVIOUS
<1>0. TypeOK /\ TypeOK'
  BY NextTypeOK DEF Inv
<1>1. CASE Skip \/ ColumnsFail
  <2>1. pc' \in {"done", "xnull", "xoverflow"}
    BY <1>0, <1>1, ColumnsFailEnds DEF Skip
  <2> QED BY <1>0, <1>1, <2>1, StutterInv DEF Skip, ColumnsFail, InLoop, InTaps
<1>2. CASE Setup
  <2>1. pc = "entry" /\ pc' = "line"
    BY <1>2 DEF Setup
  <2>2. /\ linewritten' = {} /\ image' = [y \in Lines |-> y] /\ byi' = 0
        /\ feedback' = feedback /\ out' = out
    BY <1>2, <1>0, <2>1 DEF Setup, Inv, TypeOK
  <2>3. WrittenInOrder' /\ OverlapIsSharing'
    BY <1>0, <1>2, <2>2, PrepareTyped DEF Setup, TypeOK, WrittenInOrder, OverlapIsSharing
  <2>4. OnlyWritingChanges'
    BY <2>2 DEF OnlyWritingChanges
  <2>5. BufferGenuine'
    BY <1>2 DEF Setup, BufferGenuine
  <2>6. CorruptionReported'
    BY <2>2 DEF Inv, CorruptionReported
  <2> QED BY <1>0, <2>1, <2>3, <2>4, <2>5, <2>6 DEF Inv, InLoop, InTaps
<1>3. CASE BeginLine
  <2>1. AccumGenuine'
    BY <1>3 DEF BeginLine, AccumGenuine, Empty
  <2> QED BY <1>0, <1>3, <2>1, StutterInv DEF BeginLine, InLoop
<1>4. CASE NullFilter \/ WeightOverflow
  BY <1>0, <1>4, StutterInv DEF NullFilter, WeightOverflow, InLoop, InTaps
<1>5. CASE UseLine
  <2>1. /\ pc = "taps" /\ pc' = "taps" /\ Cached /\ ayf < win.i1
        /\ UNCHANGED <<geo, ymap, byi, image, linewritten, feedback, out, linebuf>>
        /\ accum' = [y \in DOMAIN accum \cup {geo.a0 + ayf} |->
                       IF y = geo.a0 + ayf THEN linebuf[Slot].data ELSE accum[y]]
    BY <1>5 DEF UseLine, Accumulate, scanVars
  <2>2. GeometryOK /\ ayf \in Nat
    BY <1>0, <2>1, TapsTyped DEF InTaps
  <2>3. Slot \in 0 .. geo.wid - 1
    BY <2>2, SMTT(30) DEF GeometryOK, GeometryType, Slot
  <2>4. ~feedback => linebuf[Slot].data = geo.a0 + ayf
    BY <2>1, <2>2, <2>3 DEF Inv, InLoop, BufferGenuine, Cached, Unread
  <2>5. AccumGenuine'
    BY <2>1, <2>4 DEF Inv, InTaps, AccumGenuine
  <2> QED BY <1>0, <2>1, <2>5, StutterInv DEF InLoop, InTaps
<1>6. CASE ReadLine
  <2> DEFINE y == geo.a0 + ayf
  <2>1. /\ pc = "taps" /\ pc' = "taps" /\ ayf < win.i1
        /\ UNCHANGED <<geo, ymap, byi, image, linewritten, out>>
        /\ feedback' = (feedback \/ (geo.overlap /\ y \in linewritten))
        /\ linebuf' = [linebuf EXCEPT ![Slot] = [y |-> ayf, data |-> image[y]]]
        /\ accum' = [z \in DOMAIN accum \cup {y} |-> IF z = y THEN image[y] ELSE accum[z]]
    BY <1>6 DEF ReadLine, Accumulate, CheckFeedback
  <2>2. GeometryOK
    BY <1>0, <2>1, TapsTyped DEF InTaps
  <2>3. /\ geo.wid \in Nat \ {0} /\ geo.a0 \in Nat /\ geo.an \in Nat
        /\ geo.b0 \in Int /\ geo.bn \in Nat
        /\ geo.a0 + geo.an <= PicHeight /\ DOMAIN linebuf = 0 .. geo.wid - 1
        /\ byi \in Nat /\ byi < geo.bn
        /\ ymap \in [0 .. geo.bn - 1 -> 0 .. geo.bn - 1]
    BY <1>0, <2>1, <2>2 DEF TypeOK, InTaps, GeometryOK, GeometryType
  <2>4. ayf \in 0 .. geo.an - 1
    BY <1>0, <2>1, TapsTyped DEF InTaps
  <2>5. y \in Lines /\ geo.a0 <= y /\ y <= geo.a0 + geo.an - 1
    BY <2>3, <2>4, RequestsAssumption, SMTT(30) DEF Lines
  <2>6. WrittenInOrder /\ OnlyWritingChanges /\ OverlapIsSharing /\ BufferGenuine
    BY <2>1 DEF Inv, InLoop
  <2>7. \A z \in linewritten : geo.b0 <= z /\ z <= geo.b0 + geo.bn - 1
    <3>1. \A i \in 0 .. byi - 1 : ymap[i] \in 0 .. geo.bn - 1
      BY <2>3, SMTT(30)
    <3> QED BY <2>3, <2>6, <3>1, SMTT(30) DEF WrittenInOrder
  <2>8. ~feedback' => ~feedback /\ image[y] = y
    <3> SUFFICES ASSUME ~feedback', image[y] # y PROVE FALSE
      BY <2>1
    <3>1. geo.shared /\ y \in linewritten
      BY <2>5, <2>6 DEF OnlyWritingChanges
    <3>2. geo.b0 <= y /\ y <= geo.b0 + geo.bn - 1
      BY <2>7, <3>1
    <3>3. y \in Int /\ geo.a0 <= geo.b0 + geo.bn - 1 /\ geo.b0 <= geo.a0 + geo.an - 1
      BY <2>3, <2>4, <2>5, <3>2, SMTT(30)
    <3> QED BY <2>1, <2>6, <3>1, <3>3 DEF OverlapIsSharing
  <2>9. Slot \in 0 .. geo.wid - 1
    BY <2>3, <2>4, SMTT(30) DEF Slot
  <2>10. BufferGenuine'
    BY <2>1, <2>3, <2>6, <2>8, <2>9 DEF BufferGenuine
  <2>11. AccumGenuine'
    BY <2>1, <2>8 DEF Inv, InTaps, AccumGenuine
  <2>12. WrittenInOrder' /\ OnlyWritingChanges' /\ OverlapIsSharing'
    BY <2>1, <2>6 DEF WrittenInOrder, OnlyWritingChanges, OverlapIsSharing
  <2>13. CorruptionReported'
    BY <2>1, <2>8 DEF Inv, CorruptionReported
  <2> QED BY <1>0, <2>1, <2>10, <2>11, <2>12, <2>13 DEF Inv, InTaps
<1>7. CASE WriteLine
  <2>1. /\ pc = "taps" /\ pc' = "line"
        /\ UNCHANGED <<geo, ymap, feedback, linebuf>>
        /\ image' = IF geo.shared THEN [image EXCEPT ![geo.b0 + by] = Dirty] ELSE image
        /\ linewritten' = linewritten \cup {geo.b0 + by}
        /\ out' = [y \in DOMAIN out \cup {geo.b0 + by} |->
                     IF y = geo.b0 + by THEN accum ELSE out[y]]
        /\ byi' = byi + 1
    BY <1>7 DEF WriteLine, StoreLine
  <2>2. byi \in Nat /\ image \in [Lines -> Lines \cup {Dirty}]
    BY <1>0 DEF TypeOK
  <2>3. WrittenInOrder /\ OnlyWritingChanges /\ OverlapIsSharing /\ BufferGenuine
    BY <2>1 DEF Inv, InLoop
  <2>4. WrittenInOrder'
    <3>1. 0 .. byi' - 1 = (0 .. byi - 1) \cup {byi}
      BY <2>1, <2>2
    <3> QED BY <2>1, <2>3, <3>1 DEF WrittenInOrder, by
  <2>5. OnlyWritingChanges'
    BY <2>1, <2>2, <2>3 DEF OnlyWritingChanges
  <2>6. OverlapIsSharing' /\ BufferGenuine'
    BY <2>1, <2>3 DEF OverlapIsSharing, BufferGenuine
  <2>7. CorruptionReported'
    BY <2>1 DEF Inv, InTaps, AccumGenuine, CorruptionReported
  <2> QED BY <1>0, <2>1, <2>4, <2>5, <2>6, <2>7 DEF Inv, InLoop, InTaps
<1>8. CASE Finish
  BY <1>0, <1>8, StutterInv DEF Finish, InLoop, InTaps
<1>9. CASE Returned \/ UNCHANGED vars
  <2>1. UNCHANGED <<pc, geo, ymap, byi, image, linewritten, feedback, out, linebuf, accum>>
    BY <1>9 DEF Returned, vars, scanVars
  <2>2. InTaps' => AccumGenuine'
    BY <2>1 DEF Inv, InTaps, AccumGenuine
  <2> QED BY <1>0, <2>1, <2>2, StutterInv DEF InLoop
<1> QED BY <1>1, <1>2, <1>3, <1>4, <1>5, <1>6, <1>7, <1>8, <1>9 DEF Next

(* The inductive invariant above holds of every picture, request and       *)
(* rounding (zoom.c:353-390).                                              *)
THEOREM Invariance == Spec => []Inv
<1>1. Init => Inv
  BY InitInv
<1>2. Inv /\ [Next]_vars => Inv'
  BY NextInv
<1> QED BY <1>1, <1>2, PTL DEF Spec

(* Whatever the windows, the mapping and the roundoff: a zoom that did not *)
(* report FEEDBACK computed every line from unspoiled source lines.        *)
THEOREM FeedbackCheckComplete == Spec => []CorruptionReported
<1>1. Inv => CorruptionReported
  BY DEF Inv
<1> QED BY <1>1, Invariance, PTL

(* The line to be written is none of those written before.                 *)
LEMMA LineIsFresh ==
  ASSUME Inv, WriteLine
  PROVE  geo.b0 + by \notin linewritten
<1>1. InTaps /\ GeometryOK /\ WrittenInOrder /\ byi \in Nat /\ byi < geo.bn
  BY DEF Inv, TypeOK, InLoop, InTaps, WriteLine
<1>2. /\ byi \in 0 .. geo.bn - 1 /\ geo.b0 \in Int /\ geo.bn \in Nat
      /\ ymap \in [0 .. geo.bn - 1 -> 0 .. geo.bn - 1]
  BY <1>1, SMTT(30) DEF GeometryOK, GeometryType
<1>3. \A i \in 0 .. byi - 1 : geo.b0 + ymap[i] # geo.b0 + ymap[byi]
  <2>1. \A i \in 0 .. byi - 1 : /\ i \in 0 .. geo.bn - 1 /\ i # byi
                                /\ ymap[i] \in Int /\ ymap[byi] \in Int
    BY <1>2
  <2>2. \A i \in 0 .. byi - 1 : ymap[i] # ymap[byi]
    BY <1>1, <1>2, <2>1 DEF WrittenInOrder
  <2> QED BY <1>2, <2>1, <2>2
<1> QED BY <1>1, <1>3 DEF WrittenInOrder, by

(* No destination line is computed twice.                                  *)
THEOREM LinesWrittenOnce == Spec => WritesAreFresh
<1>1. Inv /\ [Next]_vars => [byi' # byi => geo.b0 + by \notin linewritten]_vars
  <2> SUFFICES ASSUME Inv, [Next]_vars, byi' # byi
               PROVE  geo.b0 + by \notin linewritten
    OBVIOUS
  <2>1. WriteLine
    BY DEF Next, vars, scanVars, Skip, Setup, ColumnsFail, BeginLine, NullFilter, WeightOverflow, UseLine, ReadLine,
           Finish, Returned
  <2> QED BY <2>1, LineIsFresh
<1> QED BY <1>1, Invariance, PTL DEF Spec, WritesAreFresh

-----------------------------------------------------------------------------
(***************************************************************************)
(* The scan order and the line buffers, however the truncations are        *)
(* rounded.                                                                *)
(***************************************************************************)

(* Source line k, relative to geo.a0, is in the buffer.                    *)
Holds(k) == linebuf[k % geo.wid].y = k

(* What zoom_continuous prepared for the loop.                             *)
LoopReady ==
  /\ ~NothingToDo(req)
  /\ \E wid \in Widths(req), low \in Roundings(Geometry(req, 1, {})) :
        geo = Geometry(req, wid, low)
  /\ Aligned(geo)
  /\ ymap \in ScanOrders(geo)

(* The window of the current line is one of make_weighttab's; between two  *)
(* lines it is the one of the line computed last.                          *)
WindowChosen ==
  /\ pc = "line" /\ byi > 0 => win \in SourceWindows(geo, ymap[byi - 1])
  /\ InTaps => win \in SourceWindows(geo, by) /\ win.i0 < win.i1

(* As far as it was accumulated it is in the buffer.                       *)
Buffered ==
  /\ pc = "line" /\ byi > 0 => \A k \in win.i0 .. win.i1 - 1 : Holds(k)
  /\ InTaps => \A k \in win.i0 .. ayf - 1 : Holds(k)

(* What is still to be accumulated is in the buffer or was not overwritten.*)
AheadUnspoiled ==
  \/ ~geo.overlap \/ MovedBackwards(geo) \/ Trimmed(geo)
  \/ \A k \in ayf .. win.i1 - 1 : Holds(k) \/ geo.a0 + k \notin linewritten

ScanInv ==
  /\ pc = "entry" => ~feedback
  /\ feedback \/ InLoop => LoopReady
  /\ InLoop => WindowChosen /\ (Overfull(geo) \/ Buffered)
  /\ InTaps => Overfull(geo) \/ AheadUnspoiled
  /\ SplitSurvivesRoundoff

(* Nothing is claimed of the loop before it is entered.                    *)
LEMMA InitScanInv == Init => ScanInv
BY DEF Init, ScanInit, ScanStart, NoLines, ScanInv, InLoop, InTaps, SplitSurvivesRoundoff

(* Setup (zoom.c:322-326, 353) leaves an aligned geometry and its scan     *)
(* order.                                                                  *)
LEMMA PrepareReady ==
  ASSUME RequestOK(req), ~NothingToDo(req), Prepare, UNCHANGED req
  PROVE  LoopReady'
<1>1. req \in Request
  BY DEF RequestOK
<1>2. PICK wid \in Widths(req), low \in Roundings(Geometry(req, 1, {})) :
        /\ geo' = Geometry(req, wid, low)
        /\ ymap' \in ScanOrders(Geometry(req, wid, low))
  BY DEF Prepare
<1>3. Aligned(Geometry(req, wid, low))
  BY <1>1, GeometryAligned
<1> QED BY <1>2, <1>3 DEF LoopReady

(* A step that leaves the loop alone.                                      *)
LEMMA StutterScan ==
  ASSUME ScanInv, UNCHANGED <<req, geo, ymap, byi, linewritten, feedback, win, ayf, linebuf>>,
         pc' = pc \/ pc' \in {"done", "null", "overflow", "xnull", "xoverflow"}
  PROVE  ScanInv'
BY DEF ScanInv, InLoop, InTaps, LoopReady, WindowChosen, Buffered, AheadUnspoiled,
       SplitSurvivesRoundoff, Holds, by

(* While lines are accumulated the window and the line are defined.        *)
LEMMA TapsWindow ==
  ASSUME TypeOK, InTaps
  PROVE  /\ win.i0 \in Nat /\ win.i1 \in Nat /\ win.i0 <= ayf /\ ayf <= win.i1 /\ ayf \in Nat
         /\ byi \in 0 .. geo.bn - 1 /\ by \in 0 .. geo.bn - 1
         /\ geo \in GeometryType
         /\ geo.wid \in Nat /\ geo.wid > 0 /\ DOMAIN linebuf = 0 .. geo.wid - 1
<1>1. /\ geo \in GeometryType /\ ymap \in [0 .. geo.bn - 1 -> 0 .. geo.bn - 1]
      /\ DOMAIN linebuf = 0 .. geo.wid - 1
  BY DEF TypeOK, InTaps, GeometryOK
<1>2. geo.an \in Nat /\ geo.bn \in Nat /\ geo.wid \in Nat /\ geo.wid > 0
  BY <1>1 DEF GeometryType
<1>3. byi \in 0 .. geo.bn - 1
  BY <1>2 DEF TypeOK, InTaps
<1> QED BY <1>1, <1>2, <1>3, SMTT(30) DEF TypeOK, InTaps, by

(* Of the lines to be accumulated for the next destination line those that *)
(* were overwritten are in the buffer: the split formula is right.         *)
LEMMA NothingLost ==
  ASSUME TypeOK, WrittenInOrder, LoopReady, WindowChosen, Buffered, pc = "line", byi < geo.bn,
         geo.overlap, ~MovedBackwards(geo), ~Trimmed(geo),
         NEW w \in SourceWindows(geo, by), NEW k \in w.i0 .. w.i1 - 1,
         geo.a0 + k \in linewritten
  PROVE  Holds(k)
<1>1. Aligned(geo)
  BY DEF LoopReady
<1>2. geo.bn \in Nat
  BY <1>1, AlignedTypes
<1>3. byi \in 0 .. geo.bn - 1 /\ GeometryOK
  BY <1>2 DEF TypeOK
<1>4. \A i \in 0 .. geo.bn - 1 : ymap[i] \in 0 .. geo.bn - 1
  BY <1>3 DEF GeometryOK
<1>5. \A b \in 0 .. geo.bn - 1 : \A v \in SourceWindows(geo, b) : v \in FullWindows(geo, b)
  BY PartOfFullWindow DEF Trimmed
<1>6. w \in FullWindows(geo, ymap[byi])
  BY <1>3, <1>4, <1>5 DEF by
<1>7. PICK i \in 0 .. byi - 1 : geo.a0 + k = geo.b0 + ymap[i]
  BY DEF WrittenInOrder
<1>8. byi > 0 /\ byi - 1 \in 0 .. geo.bn - 1
  BY <1>2, <1>3
<1>9. win \in FullWindows(geo, ymap[byi - 1]) /\ \A l \in win.i0 .. win.i1 - 1 : Holds(l)
  BY <1>4, <1>5, <1>8 DEF WindowChosen, Buffered
<1>10. k \in win.i0 .. win.i1 - 1
  <2>1. ymap \in ScanOrders(geo)
    BY DEF LoopReady
  <2> QED BY <1>1, <1>3, <1>6, <1>7, <1>9, <2>1, SplitIsSafe
<1> QED BY <1>9, <1>10

(* Unless roundoff makes a window too wide it fits into the line buffers.  *)
LEMMA WindowFitsIn ==
  ASSUME TypeOK, InTaps, LoopReady, WindowChosen, ~Overfull(geo)
  PROVE  win.i1 - win.i0 <= geo.wid
<1>1. Aligned(geo) /\ win \in SourceWindows(geo, by)
  BY DEF LoopReady, WindowChosen
<1>2. by \in 0 .. geo.bn - 1 /\ by \in Int /\ geo.wid \in Nat /\ geo.wid > 0
  BY TapsWindow DEF GeometryType
<1>3. PICK v \in FullWindows(geo, by) : win = v \/ (v.i0 < v.i1 /\ win = Middle(v))
  BY <1>1, PartOfFullWindow
<1>4. v.i0 \in Int /\ v.i1 \in Int
  BY <1>1, <1>2, RoundedWindow
<1>5. v.i1 - v.i0 <= geo.wid
  BY <1>2, <1>4 DEF Overfull
<1> QED BY <1>2, <1>3, <1>4, <1>5, MiddleInside

(* A line that is read then evicts no other line of the window.            *)
LEMMA OthersStay ==
  ASSUME TypeOK, LoopReady, WindowChosen, ~Overfull(geo), ReadLine,
         NEW k \in win.i0 .. win.i1 - 1, k # ayf
  PROVE  /\ Holds(k) => Holds(k)'
         /\ k % geo.wid # Slot
<1>1. InTaps
  BY DEF ReadLine, InTaps
<1>2. /\ geo.wid \in Nat /\ geo.wid > 0 /\ DOMAIN linebuf = 0 .. geo.wid - 1
      /\ win.i0 \in Nat /\ win.i1 \in Nat /\ ayf \in Nat /\ win.i0 <= ayf /\ ayf < win.i1
  <2>1. ayf # win.i1
    BY DEF ReadLine, TypeOK, InTaps
  <2> QED BY <1>1, <2>1, TapsWindow
<1>3. win.i1 - win.i0 <= geo.wid
  BY <1>1, WindowFitsIn
<1>4. k \in Nat /\ (k < ayf => ayf - k < geo.wid) /\ (ayf < k => k - ayf < geo.wid)
  BY <1>2, <1>3
<1>5. k % geo.wid # ayf % geo.wid
  <2>1. CASE k < ayf
    BY <1>2, <1>4, <2>1, SlotsDiffer
  <2>2. CASE ayf < k
    BY <1>2, <1>4, <2>2, SlotsDiffer
  <2> QED BY <1>2, <1>4, <2>1, <2>2
<1>6. Holds(k)' <=> linebuf'[k % geo.wid].y = k
  BY DEF ReadLine, Holds
<1>7. k % geo.wid \in 0 .. geo.wid - 1
  BY <1>2, <1>4
<1>8. linebuf'[k % geo.wid] = linebuf[k % geo.wid]
  BY <1>2, <1>5, <1>7 DEF ReadLine, Slot
<1> QED BY <1>5, <1>6, <1>8 DEF Holds, Slot

(* Every step of the loop preserves ScanInv: SplitIsSafe is what ReadLine  *)
(* and UseLine need.                                                       *)
LEMMA NextScanInv == Inv /\ ScanInv /\ [Next]_vars => ScanInv'
<1> SUFFICES ASSUME Inv, ScanInv, [Next]_vars PROVE ScanInv'
  OBVIOUS
<1>0. TypeOK /\ (InLoop => WrittenInOrder)
  BY DEF Inv
<1>1. CASE Skip \/ ColumnsFail \/ NullFilter \/ WeightOverflow \/ Finish
  BY <1>0, <1>1, StutterScan, ColumnsFailEnds
     DEF Skip, ColumnsFail, NullFilter, WeightOverflow, Finish
<1>2. CASE Setup
  <2>1. pc = "entry" /\ pc' = "line" /\ byi' = 0 /\ ~feedback'
    BY <1>0, <1>2 DEF Setup, ScanInv, TypeOK
  <2>2. LoopReady'
    BY <1>0, <1>2, PrepareReady DEF Setup, TypeOK
  <2>3. WindowChosen' /\ Buffered' /\ SplitSurvivesRoundoff' /\ ~InTaps'
    BY <2>1 DEF WindowChosen, Buffered, SplitSurvivesRoundoff, InTaps
  <2> QED BY <2>1, <2>2, <2>3 DEF ScanInv
<1>3. CASE BeginLine
  <2>1. /\ pc = "line" /\ pc' = "taps" /\ byi < geo.bn
        /\ UNCHANGED <<req, geo, ymap, byi, linewritten, feedback, linebuf>>
    BY <1>3 DEF BeginLine
  <2>2. PICK w \in SourceWindows(geo, by) : w.i0 < w.i1 /\ win' = w /\ ayf' = w.i0
    BY <1>3 DEF BeginLine
  <2>3. LoopReady /\ WindowChosen /\ WrittenInOrder /\ SplitSurvivesRoundoff
    BY <1>0, <2>1 DEF ScanInv, InLoop
  <2>4. LoopReady' /\ SplitSurvivesRoundoff'
    BY <2>1, <2>3 DEF LoopReady, SplitSurvivesRoundoff
  <2>5. WindowChosen'
    BY <2>1, <2>2 DEF WindowChosen, InTaps, by
  <2>6. Buffered'
    <3>1. w.i0 \in Int
      <4>1. GeometryOK /\ byi \in Nat
        BY <1>0, <2>1 DEF TypeOK
      <4>2. geo \in GeometryType /\ ymap \in [0 .. geo.bn - 1 -> 0 .. geo.bn - 1] /\ geo.bn \in Nat
        BY <4>1 DEF GeometryOK, GeometryType
      <4>3. by \in Int
        BY <2>1, <4>1, <4>2 DEF by
      <4> QED BY <4>2, <4>3, WindowsInside
    <3>2. win'.i0 .. ayf' - 1 = {}
      BY <2>2, <3>1
    <3> QED BY <2>1, <3>2 DEF Buffered
  <2>7. Overfull(geo) \/ AheadUnspoiled'
    <3> SUFFICES ASSUME ~Overfull(geo), geo.overlap, ~MovedBackwards(geo), ~Trimmed(geo),
                        NEW k \in w.i0 .. w.i1 - 1, geo.a0 + k \in linewritten
                 PROVE  Holds(k)
      BY <2>1, <2>2 DEF AheadUnspoiled, Holds
    <3>1. Buffered
      BY <2>1 DEF ScanInv, InLoop
    <3> QED BY <1>0, <2>1, <2>3, <3>1, NothingLost
  <2> QED BY <2>1, <2>4, <2>5, <2>6, <2>7 DEF ScanInv
<1>4. CASE UseLine
  <2>1. /\ pc = "taps" /\ pc' = "taps" /\ ayf < win.i1 /\ ayf' = ayf + 1 /\ Holds(ayf)
        /\ UNCHANGED <<req, geo, ymap, byi, linewritten, feedback, linebuf, win>>
    BY <1>4 DEF UseLine, Accumulate, scanVars, Cached, Slot, Holds
  <2>2. /\ LoopReady /\ WindowChosen /\ SplitSurvivesRoundoff
        /\ Overfull(geo) \/ (Buffered /\ AheadUnspoiled)
    BY <2>1 DEF ScanInv, InLoop, InTaps
  <2>3. ayf \in Int /\ win.i0 \in Int /\ win.i1 \in Int
    BY <1>0, <2>1, TapsWindow DEF InTaps
  <2>4. LoopReady' /\ WindowChosen' /\ SplitSurvivesRoundoff'
    BY <2>1, <2>2 DEF LoopReady, WindowChosen, SplitSurvivesRoundoff, InTaps, by
  <2>5. Buffered => Buffered'
    <3>1. \A k \in win.i0 .. ayf' - 1 : k = ayf \/ k \in win.i0 .. ayf - 1
      BY <2>1, <2>3
    <3> QED BY <2>1, <3>1 DEF Buffered, InTaps, Holds
  <2>6. AheadUnspoiled => AheadUnspoiled'
    <3>1. \A k \in ayf' .. win.i1 - 1 : k \in ayf .. win.i1 - 1
      BY <2>1, <2>3
    <3> QED BY <2>1, <3>1 DEF AheadUnspoiled, Holds
  <2> QED BY <2>1, <2>2, <2>4, <2>5, <2>6 DEF ScanInv
<1>5. CASE ReadLine
  <2>1. /\ pc = "taps" /\ pc' = "taps" /\ ayf < win.i1 /\ ayf' = ayf + 1 /\ ~Holds(ayf)
        /\ UNCHANGED <<req, geo, ymap, byi, linewritten, win>>
        /\ feedback' = (feedback \/ (geo.overlap /\ geo.a0 + ayf \in linewritten))
        /\ linebuf' = [linebuf EXCEPT ![Slot] = [y |-> ayf, data |-> image[geo.a0 + ayf]]]
    BY <1>5 DEF ReadLine, Accumulate, CheckFeedback, Cached, Slot, Holds
  <2>2. /\ LoopReady /\ WindowChosen /\ SplitSurvivesRoundoff
        /\ Overfull(geo) \/ (Buffered /\ AheadUnspoiled)
    BY <2>1 DEF ScanInv, InLoop, InTaps
  <2>3. ayf \in Nat /\ win.i0 \in Int /\ win.i1 \in Int /\ win.i0 <= ayf
    BY <1>0, <2>1, TapsWindow DEF InTaps
  <2>4. LoopReady' /\ WindowChosen'
    BY <2>1, <2>2 DEF LoopReady, WindowChosen, InTaps, by
  <2>5. linebuf'[ayf % geo.wid].y = ayf
    <3>1. DOMAIN linebuf = 0 .. geo.wid - 1 /\ geo.wid \in Nat /\ geo.wid > 0
      BY <1>0, <2>1, TapsWindow DEF InTaps
    <3>2. Slot \in DOMAIN linebuf
      BY <2>3, <3>1 DEF Slot
    <3> QED BY <2>1, <3>2 DEF Slot
  <2>6. ASSUME ~Overfull(geo) PROVE Buffered' /\ AheadUnspoiled'
    <3>1. \A k \in win.i0 .. win.i1 - 1 : k # ayf => (Holds(k) => Holds(k)')
      BY <1>0, <1>5, <2>2, <2>6, OthersStay
    <3>2. Buffered'
      <4>1. \A k \in win.i0 .. ayf' - 1 :
               k = ayf \/ (k \in win.i0 .. ayf - 1 /\ k \in win.i0 .. win.i1 - 1 /\ k # ayf)
        BY <2>1, <2>3
      <4>2. \A k \in win.i0 .. ayf - 1 : Holds(k)
        BY <2>1, <2>2, <2>6 DEF Buffered, InTaps
      <4> QED BY <2>1, <2>5, <3>1, <4>1, <4>2 DEF Buffered, Holds
    <3>3. AheadUnspoiled'
      <4>1. \A k \in ayf' .. win.i1 - 1 :
               k \in ayf .. win.i1 - 1 /\ k # ayf /\ k \in win.i0 .. win.i1 - 1
        BY <2>1, <2>3
      <4> QED BY <2>1, <2>2, <2>6, <3>1, <4>1 DEF AheadUnspoiled
    <3> QED BY <3>2, <3>3
  <2>7. SplitSurvivesRoundoff'
    <3>1. ayf \in ayf .. win.i1 - 1
      BY <2>1, <2>3
    <3> QED BY <2>1, <2>2, <3>1 DEF AheadUnspoiled, SplitSurvivesRoundoff
  <2> QED BY <2>1, <2>4, <2>6, <2>7 DEF ScanInv
<1>6. CASE WriteLine
  <2>1. /\ pc = "taps" /\ pc' = "line" /\ ayf = win.i1 /\ byi' = byi + 1
        /\ UNCHANGED <<req, geo, ymap, feedback, linebuf, win>>
    BY <1>6 DEF WriteLine, StoreLine
  <2>2. /\ LoopReady /\ WindowChosen /\ SplitSurvivesRoundoff /\ byi \in Nat
        /\ Overfull(geo) \/ Buffered
    BY <1>0, <2>1 DEF ScanInv, InLoop, TypeOK
  <2>3. LoopReady' /\ SplitSurvivesRoundoff'
    BY <2>1, <2>2 DEF LoopReady, SplitSurvivesRoundoff
  <2>4. ymap'[byi' - 1] = by
    BY <2>1, <2>2 DEF by
  <2>5. WindowChosen'
    BY <2>1, <2>2, <2>4 DEF WindowChosen, InTaps
  <2>6. Buffered => Buffered'
    BY <2>1 DEF Buffered, InTaps, Holds
  <2> QED BY <2>1, <2>2, <2>3, <2>5, <2>6 DEF ScanInv, InTaps
<1>7. CASE Returned \/ UNCHANGED vars
  BY <1>7, StutterScan DEF Returned, vars, scanVars
<1> QED BY <1>1, <1>2, <1>3, <1>4, <1>5, <1>6, <1>7 DEF Next

(* However the truncations are rounded, the geometry stays aligned, and    *)
(* unless a window is too wide for them the line buffers hold the window   *)
(* of the last line and nothing still to be read is spoiled                *)
(* (zoom.c:353-390, 864-901).                                              *)
THEOREM ScanInvariance == Spec => [](Inv /\ ScanInv)
<1>1. Init => Inv /\ ScanInv
  BY InitInv, InitScanInv
<1>2. (Inv /\ ScanInv) /\ [Next]_vars => (Inv /\ ScanInv)'
  BY NextInv, NextScanInv
<1> QED BY <1>1, <1>2, PTL DEF Spec

(* The magic split (zoom.c:864-901) is right whatever the roundoff, for    *)
(* every mapping, filter and pair of windows: FEEDBACK (zoom.c:371, 484)   *)
(* is reported only for a translation scanned in the wrong direction       *)
(* (zoom.c:867), for a window wider than the line buffers (zoom.c:327,     *)
(* 757-758) or for a line whose weights are all zero (zoom.c:798-803).     *)
THEOREM RoundoffSurvived == Spec => []SplitSurvivesRoundoff
<1>1. Inv /\ ScanInv => SplitSurvivesRoundoff
  BY DEF ScanInv
<1> QED BY <1>1, ScanInvariance, PTL

(* Whatever the roundoff, the source lines of one destination line exceed  *)
(* the line buffers and the weights by at most one, and only where the     *)
(* lower end of the window alone was rounded down (zoom.c:757-758).        *)
THEOREM OverfullByOne == Spec => []OverfullOnlyByRoundoff
<1>1. Inv /\ ScanInv => OverfullOnlyByRoundoff
  <2> SUFFICES ASSUME Inv, ScanInv, InTaps, win.i1 - win.i0 > geo.wid
               PROVE  by \in geo.low /\ win.i1 - win.i0 = geo.wid + 1
    BY DEF OverfullOnlyByRoundoff
  <2>1. Aligned(geo) /\ win \in SourceWindows(geo, by)
    BY DEF ScanInv, InLoop, InTaps, LoopReady, WindowChosen
  <2>2. by \in Int /\ geo.wid \in Nat /\ geo.wid > 0
    BY TapsWindow DEF Inv
  <2>3. PICK v \in FullWindows(geo, by) : win = v \/ (v.i0 < v.i1 /\ win = Middle(v))
    BY <2>1, PartOfFullWindow
  <2>4. v.i0 \in Int /\ v.i1 \in Int
    BY <2>1, <2>2, RoundedWindow
  <2>5. win = v
    BY <2>2, <2>3, <2>4, MiddleInside
  <2> QED BY <2>1, <2>2, <2>5, WindowTooWide
<1> QED BY <1>1, ScanInvariance, PTL
=============================================================================
