--------------------------- MODULE ExactZoomProofs ---------------------------
(***************************************************************************)
(* Theorems about the scan loop of FilteredZoom in exact arithmetic, for   *)
(* every picture height and every request: the buffer is large enough, the *)
(* source is read in order, and the result is what a zoom between two      *)
(* different pictures would give.                                          *)
(***************************************************************************)
EXTENDS FilteredZoomProofs

(* What zoom_continuous prepared for the loop: LoopReady with nothing      *)
(* rounded.                                                                *)
ExactLoop ==
  /\ ~NothingToDo(req)
  /\ \E wid \in Widths(req) : geo = Geometry(req, wid, {})
  /\ Aligned(geo)
  /\ ymap \in ScanOrders(geo)

(* What ScanInv says when no window is too wide.                           *)
ExactInv ==
  /\ pc = "entry" => ~feedback
  /\ InLoop => ExactLoop /\ WindowChosen /\ Buffered
  /\ InTaps => AheadUnspoiled
  /\ FeedbackOnlyIf

(* The windows of all lines fit into the line buffers.                     *)
LEMMA NotOverfull ==
  ASSUME ~Roundoff, NEW g, Aligned(g)
  PROVE  ~Overfull(g)
<1> SUFFICES ASSUME NEW b \in 0 .. g.bn - 1, NEW v \in FullWindows(g, b)
             PROVE  ~(v.i1 - v.i0 > g.wid)
  BY DEF Overfull
<1>1. g.bn \in Nat /\ g.wid \in Nat
  BY AlignedTypes
<1>2. b \in Int /\ v.i0 \in Int /\ v.i1 \in Int
  BY <1>1, ExactWindow
<1> QED BY <1>1, <1>2, WindowsFit

(* In exact arithmetic nothing is rounded, so no window is too wide.       *)
LEMMA ExactScan ==
  ASSUME ~Roundoff
  PROVE  TypeOK /\ ScanInv => ExactInv
<1> SUFFICES ASSUME TypeOK, ScanInv PROVE ExactInv
  OBVIOUS
<1>1. LoopReady => ExactLoop
  <2> SUFFICES ASSUME LoopReady PROVE ExactLoop
    OBVIOUS
  <2>1. req \in Request /\ ~NothingToDo(req)
    BY DEF TypeOK, RequestOK, LoopReady
  <2>2. PICK wid \in Widths(req), low \in Roundings(Geometry(req, 1, {})) :
          geo = Geometry(req, wid, low)
    BY DEF LoopReady
  <2>3. low = {}
    BY <2>1, <2>2, ExactGeometry
  <2> QED BY <2>1, <2>2, <2>3 DEF LoopReady, ExactLoop
<1>2. LoopReady => ~Overfull(geo)
  BY NotOverfull DEF LoopReady
<1>3. feedback \/ InLoop => LoopReady /\ ~Overfull(geo) /\ ExactLoop
  BY <1>1, <1>2 DEF ScanInv
<1>4. FeedbackOnlyIf
  BY <1>3 DEF ScanInv, SplitSurvivesRoundoff, FeedbackOnlyIf
<1>5. InTaps => InLoop
  BY DEF InTaps, InLoop
<1> QED BY <1>3, <1>4, <1>5 DEF ScanInv, ExactInv

(* In exact arithmetic the geometry stays aligned, the line buffers hold   *)
(* the window of the last line, and nothing still to be read is spoiled    *)
(* (zoom.c:353-390, 864-901).                                              *)
THEOREM ExactInvariance == ASSUME ~Roundoff PROVE Spec => [](Inv /\ ExactInv)
<1>1. Inv /\ ScanInv => ExactInv
  BY ExactScan DEF Inv
<1> QED BY <1>1, ScanInvariance, PTL

(* However the windows overlap, and whatever the mapping and the filter,   *)
(* FEEDBACK (zoom.c:371, 484) is reported only for a translation scanned   *)
(* in the wrong direction (zoom.c:867) and for a zoom with a line whose    *)
(* weights are all zero (zoom.c:798-803).                                  *)
THEOREM FeedbackCases == ASSUME ~Roundoff PROVE Spec => []FeedbackOnlyIf
<1>1. Inv /\ ExactInv => FeedbackOnlyIf
  BY DEF ExactInv
<1> QED BY <1>1, ExactInvariance, PTL

(* What the lemmas about ScanInv ask of the loop.                          *)
LEMMA LoopFits ==
  ASSUME ~Roundoff, ExactLoop, TypeOK
  PROVE  LoopReady /\ ~Overfull(geo)
<1>1. req \in Request /\ ~NothingToDo(req)
  BY DEF TypeOK, RequestOK, ExactLoop
<1>2. {} \in Roundings(Geometry(req, 1, {}))
  BY <1>1, ExactGeometry DEF ExactLoop
<1> QED BY <1>2, NotOverfull DEF LoopReady, ExactLoop

(* The source lines of a destination line fit into the ay.wid line buffers *)
(* (zoom.c:75, 327), so none of them evicts another.                       *)
THEOREM BufferLargeEnough == ASSUME ~Roundoff PROVE Spec => []WindowFits
<1>1. Inv /\ ExactInv => WindowFits
  <2> SUFFICES ASSUME Inv, ExactInv, InTaps PROVE win.i1 - win.i0 <= geo.wid
    BY DEF WindowFits
  <2>1. TypeOK /\ ExactLoop /\ WindowChosen
    BY DEF Inv, ExactInv, InLoop, InTaps
  <2> QED BY <2>1, LoopFits, WindowFitsIn
<1> QED BY <1>1, ExactInvariance, PTL

-----------------------------------------------------------------------------
(***************************************************************************)
(* Without overlap the destination lines are computed in order.            *)
(***************************************************************************)

(* Source line K does not lie beyond the filter of destination line y.     *)
Reached(g, K, y) == 2 * g.sn * K <= 2 * g.sd * y - g.T + g.P

(* The destination line whose source lines were read last.                 *)
LastRead == IF InTaps THEN byi ELSE byi - 1

(* No line was read that lies beyond the filter of the line read for last. *)
NothingBeyond ==
  ~geo.overlap =>
    \A j \in DOMAIN linebuf :
      \/ linebuf[j].y = -1
      \/ LastRead >= 0 /\ Reached(geo, geo.a0 + linebuf[j].y, geo.b0 + LastRead)

(* What is still to be accumulated is in the buffer or after all that is.  *)
AheadUnread ==
  \/ geo.overlap \/ Trimmed(geo)
  \/ \A k \in ayf .. win.i1 - 1 : Holds(k) \/ \A j \in DOMAIN linebuf : linebuf[j].y < k

ForwardInv ==
  /\ pc = "entry" => linebuf = Empty
  /\ InLoop => NothingBeyond
  /\ InTaps => AheadUnread

(* Nothing is claimed of the loop before it is entered.                    *)
LEMMA InitForwardInv == Init => ForwardInv
BY DEF Init, ScanInit, ScanStart, NoLines, ForwardInv, InLoop, InTaps

(* A step that reads nothing and stays where it is.                        *)
LEMMA StutterForward ==
  ASSUME ForwardInv, UNCHANGED <<geo, byi, win, ayf, linebuf>>,
         pc' = pc \/ pc' \in {"done", "null", "overflow", "xnull", "xoverflow"}
  PROVE  ForwardInv'
BY DEF ForwardInv, InLoop, InTaps, NothingBeyond, LastRead, AheadUnread, Holds

(* Without overlap ymap counts the lines.                                  *)
LEMMA InOrder ==
  ASSUME ExactLoop, ~geo.overlap, NEW i \in 0 .. geo.bn - 1
  PROVE  ymap[i] = i
<1>1. geo \in GeometryType
  BY DEF ExactLoop, Aligned
<1> QED BY <1>1, OrdersPermute DEF ExactLoop

(* A later line reaches at least as far.                                   *)
LEMMA ReachGrows ==
  ASSUME NEW g, Aligned(g), NEW K \in Int, NEW y \in Int, NEW z \in Int, y <= z
  PROVE  /\ Reached(g, K, y) => Reached(g, K, z)
         /\ Near(g, K, z) /\ Reached(g, K, y) => Near(g, K, y)
         /\ \A L \in Int : K <= L /\ Reached(g, L, y) => Reached(g, K, y)
<1>1. /\ g.sn \in Int /\ g.sn > 0 /\ g.sd \in Int /\ g.sd > 0 /\ g.T \in Int /\ g.P \in Int
  BY AlignedTypes
<1> DEFINE d(x) == 2 * g.sd * x   s(x) == 2 * g.sn * x
<1>2. \A x \in Int : d(x) \in Int /\ s(x) \in Int
  BY <1>1
<1>3. 2 * g.sd \in Int /\ 2 * g.sd > 0 /\ 2 * g.sn \in Int /\ 2 * g.sn > 0
  BY <1>1
<1>4. d(y) <= d(z)
  BY <1>3, Scaled
<1>5. \A L \in Int : K <= L => s(K) <= s(L)
  BY <1>3, Scaled
<1>6. /\ \A x : \A L : Reached(g, L, x) <=> s(L) <= d(x) - g.T + g.P
      /\ \A x : Near(g, K, x) <=> d(x) - g.T - g.P < s(K) /\ s(K) <= d(x) - g.T + g.P
  BY DEF Reached, Near
<1> HIDE DEF d, s
<1> QED BY <1>1, <1>2, <1>4, <1>5, <1>6

(* Of the lines to be accumulated for the next destination line those that *)
(* are not in the buffer come after all that is.                           *)
LEMMA NothingBehind ==
  ASSUME ~Roundoff, TypeOK, ExactLoop, WindowChosen, Buffered, NothingBeyond,
         pc = "line", byi < geo.bn, ~geo.overlap, ~Trimmed(geo),
         NEW w \in SourceWindows(geo, by), NEW k \in w.i0 .. w.i1 - 1,
         NEW j \in DOMAIN linebuf, linebuf[j].y >= k
  PROVE  Holds(k)
<1>1. Aligned(geo) /\ GeometryOK
  BY DEF ExactLoop, TypeOK
<1>2. /\ geo.a0 \in Nat /\ geo.an \in Nat /\ geo.b0 \in Int /\ geo.bn \in Nat
      /\ geo.sn \in Int /\ geo.sd \in Int /\ geo.T \in Int /\ geo.P \in Int
      /\ geo.wid \in Nat
  BY <1>1, AlignedTypes
<1>3. byi \in 0 .. geo.bn - 1
  BY <1>2 DEF TypeOK
<1>4. \A b \in 0 .. geo.bn - 1 : \A v \in SourceWindows(geo, b) : v \in FullWindows(geo, b)
  BY PartOfFullWindow DEF Trimmed
<1>5. by = byi
  BY <1>3, InOrder DEF by
<1>6. w \in FullWindows(geo, byi) /\ byi \in Int
  BY <1>2, <1>3, <1>4, <1>5
<1>7. w.i0 \in Nat /\ w.i1 \in Int /\ k \in Nat
  BY <1>1, <1>6, ExactWindow
<1>8. k \in 0 .. geo.an - 1 /\ Near(geo, geo.a0 + k, geo.b0 + byi)
  BY <1>1, <1>6, <1>7, ExactWindow
<1>9. linebuf[j].y \in Int
  BY <1>1, <1>2, SMTT(30) DEF GeometryOK, Unread
<1>10. /\ LastRead = byi - 1 /\ LastRead >= 0
       /\ Reached(geo, geo.a0 + linebuf[j].y, geo.b0 + (byi - 1))
  BY <1>7, <1>9 DEF NothingBeyond, LastRead, InTaps
<1>11. Reached(geo, geo.a0 + k, geo.b0 + (byi - 1))
  <2>1. geo.a0 + k \in Int /\ geo.a0 + linebuf[j].y \in Int /\ geo.b0 + (byi - 1) \in Int
        /\ geo.a0 + k <= geo.a0 + linebuf[j].y /\ geo.b0 + (byi - 1) <= geo.b0 + (byi - 1)
    BY <1>2, <1>6, <1>7, <1>9
  <2> QED BY <1>1, <1>10, <2>1, ReachGrows
<1>12. Near(geo, geo.a0 + k, geo.b0 + (byi - 1))
  <2>1. geo.a0 + k \in Int /\ geo.b0 + byi \in Int /\ geo.b0 + (byi - 1) \in Int
        /\ geo.b0 + (byi - 1) <= geo.b0 + byi
    BY <1>2, <1>6, <1>7
  <2> QED BY <1>1, <1>8, <1>11, <2>1, ReachGrows
<1>13. byi > 0 /\ byi - 1 \in 0 .. geo.bn - 1 /\ byi - 1 \in Int
  BY <1>2, <1>3, <1>10
<1>14. ymap[byi - 1] = byi - 1
  BY <1>13, InOrder
<1>15. win \in FullWindows(geo, byi - 1) /\ \A l \in win.i0 .. win.i1 - 1 : Holds(l)
  BY <1>4, <1>13, <1>14 DEF WindowChosen, Buffered
<1>16. k \in win.i0 .. win.i1 - 1
  BY <1>1, <1>7, <1>8, <1>12, <1>13, <1>15, ExactWindow
<1> QED BY <1>15, <1>16

(* The source lines accumulated lie under the filter.                      *)
LEMMA TapsNear ==
  ASSUME ~Roundoff, TypeOK, ExactLoop, WindowChosen, InTaps, NEW k \in win.i0 .. win.i1 - 1
  PROVE  k \in 0 .. geo.an - 1 /\ Near(geo, geo.a0 + k, geo.b0 + by)
<1>1. Aligned(geo) /\ win \in SourceWindows(geo, by) /\ by \in Int
  BY TapsWindow DEF ExactLoop, WindowChosen, GeometryType
<1>2. PICK v \in FullWindows(geo, by) : win = v \/ (v.i0 < v.i1 /\ win = Middle(v))
  BY <1>1, PartOfFullWindow
<1>3. /\ v.i0 \in Nat /\ v.i1 \in Int
      /\ \A l \in Int : l \in v.i0 .. v.i1 - 1 =>
                           l \in 0 .. geo.an - 1 /\ Near(geo, geo.a0 + l, geo.b0 + by)
  BY <1>1, ExactWindow
<1>4. k \in v.i0 .. v.i1 - 1 /\ k \in Int
  <2>1. CASE win = v
    BY <1>3, <2>1
  <2>2. CASE v.i0 < v.i1 /\ win = Middle(v)
    BY <1>3, <2>2, MiddleInside
  <2> QED BY <1>2, <2>1, <2>2
<1> QED BY <1>3, <1>4

(* Every step of the loop leaves the lines ahead unread if the windows do  *)
(* not overlap.                                                            *)
LEMMA NextForwardInv ==
  ASSUME ~Roundoff
  PROVE  Inv /\ ExactInv /\ ForwardInv /\ [Next]_vars => ForwardInv'
<1> SUFFICES ASSUME Inv, ExactInv, ForwardInv, [Next]_vars PROVE ForwardInv'
  OBVIOUS
<1>0. TypeOK
  BY DEF Inv
<1>1. CASE Skip \/ ColumnsFail \/ NullFilter \/ WeightOverflow \/ Finish
  BY <1>0, <1>1, StutterForward, ColumnsFailEnds
     DEF Skip, ColumnsFail, NullFilter, WeightOverflow, Finish
<1>2. CASE Setup
  <2>1. /\ pc = "entry" /\ pc' = "line"
        /\ \A j \in DOMAIN linebuf' : linebuf'[j].y = -1
    BY <1>2 DEF Setup, Unread
  <2> QED BY <2>1 DEF ForwardInv, InTaps, NothingBeyond
<1>3. CASE BeginLine
  <2>1. /\ pc = "line" /\ pc' = "taps" /\ byi < geo.bn
        /\ UNCHANGED <<req, geo, ymap, byi, linewritten, feedback, linebuf>>
    BY <1>3 DEF BeginLine
  <2>2. PICK w \in SourceWindows(geo, by) : w.i0 < w.i1 /\ win' = w /\ ayf' = w.i0
    BY <1>3 DEF BeginLine
  <2>3. ExactLoop /\ WindowChosen /\ Buffered /\ NothingBeyond /\ byi \in Nat
    BY <1>0, <2>1 DEF ExactInv, ForwardInv, InLoop, TypeOK
  <2>4. Aligned(geo) /\ geo.a0 \in Int /\ geo.b0 \in Int /\ geo.an \in Nat
    BY <2>3, AlignedTypes DEF ExactLoop
  <2>5. \A j \in DOMAIN linebuf : linebuf[j].y \in Int
    <3>1. GeometryOK
      BY <1>0, <2>1 DEF TypeOK
    <3> QED BY <2>4, <3>1 DEF GeometryOK, Unread
  <2>6. NothingBeyond'
    <3> SUFFICES ASSUME ~geo.overlap, NEW j \in DOMAIN linebuf, linebuf[j].y # -1
                 PROVE  Reached(geo, geo.a0 + linebuf[j].y, geo.b0 + byi)
      BY <2>1, <2>3 DEF NothingBeyond, LastRead, InTaps
    <3>1. Reached(geo, geo.a0 + linebuf[j].y, geo.b0 + (byi - 1))
      BY <2>1, <2>3 DEF NothingBeyond, LastRead, InTaps
    <3>2. geo.a0 + linebuf[j].y \in Int /\ geo.b0 + byi \in Int /\ geo.b0 + (byi - 1) \in Int
          /\ geo.b0 + (byi - 1) <= geo.b0 + byi
      BY <2>3, <2>4, <2>5
    <3> QED BY <2>4, <3>1, <3>2, ReachGrows
  <2>7. AheadUnread'
    <3> SUFFICES ASSUME ~geo.overlap, ~Trimmed(geo), NEW k \in w.i0 .. w.i1 - 1,
                        NEW j \in DOMAIN linebuf, ~(linebuf[j].y < k)
                 PROVE  Holds(k)
      BY <2>1, <2>2 DEF AheadUnread, Holds
    <3>1. k \in Int
      OBVIOUS
    <3>2. linebuf[j].y >= k
      BY <2>5, <3>1
    <3> QED BY <1>0, <2>1, <2>3, <3>2, NothingBehind
  <2> QED BY <2>1, <2>6, <2>7 DEF ForwardInv
<1>4. CASE UseLine
  <2>1. /\ pc = "taps" /\ pc' = "taps" /\ ayf' = ayf + 1 /\ UNCHANGED <<geo, byi, linebuf, win>>
    BY <1>4 DEF UseLine, Accumulate, scanVars
  <2>2. NothingBeyond /\ AheadUnread
    BY <2>1 DEF ForwardInv, InLoop, InTaps
  <2>3. NothingBeyond'
    BY <2>1, <2>2 DEF NothingBeyond, LastRead, InTaps
  <2>4. \A k \in ayf' .. win.i1 - 1 : k \in ayf .. win.i1 - 1
    BY <1>0, <2>1, TapsWindow DEF InTaps
  <2>5. AheadUnread'
    BY <2>1, <2>2, <2>4 DEF AheadUnread, Holds
  <2> QED BY <2>1, <2>3, <2>5 DEF ForwardInv
<1>5. CASE ReadLine
  <2>1. /\ pc = "taps" /\ pc' = "taps" /\ ayf < win.i1 /\ ayf' = ayf + 1
        /\ UNCHANGED <<geo, ymap, byi, win>>
        /\ linebuf' = [linebuf EXCEPT ![Slot] = [y |-> ayf, data |-> image[geo.a0 + ayf]]]
    BY <1>5 DEF ReadLine, Accumulate
  <2>2. ExactLoop /\ WindowChosen /\ NothingBeyond /\ AheadUnread
    BY <2>1 DEF ExactInv, ForwardInv, InLoop, InTaps
  <2>3. /\ ayf \in Nat /\ win.i0 \in Nat /\ win.i1 \in Nat /\ win.i0 <= ayf
        /\ byi \in 0 .. geo.bn - 1
    BY <1>0, <2>1, TapsWindow DEF InTaps
  <2>4. \A j \in DOMAIN linebuf' :
           j \in DOMAIN linebuf /\ (linebuf'[j] = linebuf[j] \/ linebuf'[j].y = ayf)
    BY <2>1
  <2>5. NothingBeyond'
    <3>1. ASSUME ~geo.overlap PROVE Reached(geo, geo.a0 + ayf, geo.b0 + byi)
      <4>1. ayf \in win.i0 .. win.i1 - 1
        BY <2>1, <2>3
      <4>2. Near(geo, geo.a0 + ayf, geo.b0 + by)
        BY <1>0, <2>1, <2>2, <4>1, TapsNear DEF InTaps
      <4>3. by = byi
        BY <2>2, <2>3, <3>1, InOrder DEF by
      <4> QED BY <4>2, <4>3 DEF Near, Reached
    <3> QED BY <2>1, <2>2, <2>3, <2>4, <3>1 DEF NothingBeyond, LastRead, InTaps
  <2>6. AheadUnread'
    <3>1. \A k \in ayf' .. win.i1 - 1 :
             k \in ayf .. win.i1 - 1 /\ k # ayf /\ k \in win.i0 .. win.i1 - 1 /\ ayf < k
      BY <2>1, <2>3
    <3>2. \A k \in ayf' .. win.i1 - 1 : Holds(k) => Holds(k)'
      BY <1>0, <1>5, <2>2, <3>1, LoopFits, OthersStay
    <3> QED BY <2>1, <2>2, <2>4, <3>1, <3>2 DEF AheadUnread
  <2> QED BY <2>1, <2>5, <2>6 DEF ForwardInv
<1>6. CASE WriteLine
  <2>1. /\ pc = "taps" /\ pc' = "line" /\ byi' = byi + 1 /\ UNCHANGED <<geo, linebuf>>
    BY <1>6 DEF WriteLine, StoreLine
  <2>2. LastRead' = LastRead /\ NothingBeyond
    BY <1>0, <2>1 DEF LastRead, InTaps, TypeOK, ForwardInv, InLoop
  <2>3. NothingBeyond'
    BY <2>1, <2>2 DEF NothingBeyond
  <2> QED BY <2>1, <2>3 DEF ForwardInv, InTaps
<1>7. CASE Returned \/ UNCHANGED vars
  BY <1>7, StutterForward DEF Returned, vars, scanVars
<1> QED BY <1>1, <1>2, <1>3, <1>4, <1>5, <1>6, <1>7 DEF Next

(* The next line that is read comes after all that is in the buffer.       *)
LEMMA ReadsAhead ==
  ASSUME Inv, ForwardInv, ReadLine
  PROVE  /\ ayf \in 0 .. geo.an - 1
         /\ ~geo.overlap /\ ~Trimmed(geo) => \A k \in DOMAIN linebuf : linebuf[k].y < ayf
<1>1. /\ ayf \in Nat /\ win.i1 \in Nat /\ ayf < win.i1 /\ AheadUnread /\ ~Holds(ayf)
  BY TapsWindow DEF Inv, InTaps, ForwardInv, ReadLine, Cached, Slot, Holds
<1>2. win.i1 <= geo.an /\ geo.an \in Nat
  BY DEF ReadLine, Inv, TypeOK, InTaps, GeometryOK, GeometryType
<1>3. ayf \in ayf .. win.i1 - 1
  BY <1>1
<1>4. ayf \in 0 .. geo.an - 1
  BY <1>1, <1>2
<1> QED BY <1>1, <1>3, <1>4 DEF AheadUnread

(* Between two pictures the destination lines are written in order.        *)
LEMMA WritesInOrder ==
  ASSUME Inv, ExactInv, InLoop
  PROVE  /\ req \in Request /\ ~NothingToDo(req)
         /\ geo.a0 = SrcFirst(req) /\ geo.an = SrcLast(req) - SrcFirst(req) + 1
         /\ geo.b0 = DstFirst(req) /\ geo.bn = DstLast(req) - DstFirst(req) + 1
         /\ byi \in 0 .. geo.bn
         /\ geo.overlap => req.same
         /\ ~geo.overlap => /\ linewritten = {geo.b0 + i : i \in 0 .. byi - 1}
                            /\ byi < geo.bn => by = byi
<1>1. TypeOK /\ GeometryOK /\ ExactLoop /\ WrittenInOrder /\ byi \in 0 .. geo.bn
  BY SMTT(30) DEF Inv, ExactInv, TypeOK, InLoop, GeometryOK, GeometryType
<1>2. /\ req \in Request /\ ~NothingToDo(req)
      /\ geo.a0 = SrcFirst(req) /\ geo.an = SrcLast(req) - SrcFirst(req) + 1
      /\ geo.b0 = DstFirst(req) /\ geo.bn = DstLast(req) - DstFirst(req) + 1
      /\ geo.overlap => req.same
  BY <1>1 DEF TypeOK, RequestOK, ExactLoop, Geometry
<1>3. ASSUME ~geo.overlap
      PROVE  /\ \A i \in 0 .. byi - 1 : ymap[i] = i
             /\ byi < geo.bn => by = byi
  <2>1. geo.bn \in Int
    BY <1>1 DEF GeometryOK, GeometryType
  <2>2. \A i \in 0 .. geo.bn - 1 : ymap[i] = i
    BY <1>1, <1>3, InOrder
  <2> QED BY <1>1, <2>1, <2>2 DEF by
<1>4. ~geo.overlap => linewritten = {geo.b0 + i : i \in 0 .. byi - 1}
  <2> SUFFICES ASSUME ~geo.overlap PROVE linewritten = {geo.b0 + i : i \in 0 .. byi - 1}
    OBVIOUS
  <2>1. \A i \in 0 .. byi - 1 : geo.b0 + ymap[i] = geo.b0 + i
    BY <1>3
  <2>2. linewritten = {geo.b0 + ymap[i] : i \in 0 .. byi - 1}
    BY <1>1 DEF WrittenInOrder
  <2> QED BY <2>1, <2>2
<1> QED BY <1>1, <1>2, <1>3, <1>4

(* If the windows do not overlap the source is read line by line from top  *)
(* to bottom (zoom.c:367-377), as a picture format without random access   *)
(* needs (libpic/pic.3:75), unless a line without weights reads the middle *)
(* of its window only.                                                     *)
THEOREM SourceReadInOrder == ASSUME ~Roundoff PROVE Spec => ForwardReads
<1> DEFINE I == Inv /\ ExactInv
<1>1. Init => ForwardInv
  BY InitForwardInv
<1>2. I /\ ForwardInv /\ [Next]_vars => ForwardInv'
  BY NextForwardInv
<1>3. I /\ ForwardInv /\ [Next]_vars =>
        [\A j \in DOMAIN linebuf :
           ~geo.overlap /\ linebuf'[j] # linebuf[j] =>
             \/ \A k \in DOMAIN linebuf : linebuf[k].y < linebuf'[j].y
             \/ Trimmed(geo)]_linebuf
  <2> SUFFICES ASSUME Inv, ExactInv, ForwardInv, [Next]_vars, linebuf' # linebuf,
                      NEW j \in DOMAIN linebuf, ~geo.overlap, linebuf'[j] # linebuf[j],
                      ~Trimmed(geo), NEW k \in DOMAIN linebuf
               PROVE  linebuf[k].y < linebuf'[j].y
    OBVIOUS
  <2>1. CASE Setup
    BY <2>1 DEF Setup, ForwardInv, Empty
  <2>2. CASE ReadLine
    <3>1. linebuf[k].y < ayf
      BY <2>2, ReadsAhead
    <3>2. linebuf'[j].y = ayf
      BY <2>2 DEF ReadLine
    <3> QED BY <3>1, <3>2
  <2> QED BY <2>1, <2>2 DEF Next, Skip, ColumnsFail, BeginLine, NullFilter, WeightOverflow,
                            UseLine, WriteLine, Finish, Returned, vars, scanVars
<1> QED BY <1>1, <1>2, <1>3, ExactInvariance, PTL DEF Spec, ForwardReads

-----------------------------------------------------------------------------
(* A filter that keeps its width finds source lines for every line of the  *)
(* destination.                                                            *)
LEMMA WindowNotEmpty ==
  ASSUME ~Roundoff, TypeOK, ExactLoop, pc = "line", byi < geo.bn, ~Coerced(req),
         NEW w \in SourceWindows(geo, by)
  PROVE  w.i0 < w.i1
<1>1. PICK wid \in Widths(req) : geo = Geometry(req, wid, {})
  BY DEF ExactLoop
<1>2. req \in Request /\ ~NothingToDo(req) /\ GeometryOK
  BY DEF TypeOK, ExactLoop, RequestOK
<1>3. geo.bn - 1 = DstLast(req) - DstFirst(req) /\ geo.bn \in Int
  BY <1>1, <1>2, Clipping DEF Geometry
<1>4. by \in 0 .. DstLast(req) - DstFirst(req)
  BY <1>2, <1>3 DEF TypeOK, GeometryOK, by
<1>5. PICK v \in FullWindows(geo, by) : w = v \/ (v.i0 < v.i1 /\ w = Middle(v))
  BY PartOfFullWindow
<1>6. v.i0 \in Nat /\ v.i1 \in Int /\ v.i0 < v.i1
  BY <1>1, <1>2, <1>4, <1>5, NoWindowEmpty
<1> QED BY <1>5, <1>6, MiddleInside

(* A line without source lines has a filter that was made narrower.        *)
LEMMA NullFilterCoerced == ASSUME ~Roundoff, TypeOK, ExactLoop, NullFilter PROVE Coerced(req)
<1> SUFFICES ASSUME ~Coerced(req) PROVE FALSE
  OBVIOUS
<1>1. PICK w \in SourceWindows(geo, by) : w.i0 >= w.i1
  BY DEF NullFilter
<1>2. TypeOK /\ ExactLoop /\ pc = "line" /\ byi < geo.bn
  BY DEF NullFilter
<1>3. geo \in GeometryType /\ by \in Int
  <2>1. GeometryOK /\ geo.bn \in Nat /\ byi \in Nat
    BY <1>2 DEF TypeOK, GeometryOK, GeometryType
  <2> QED BY <1>2, <2>1 DEF GeometryOK, by
<1>4. w.i0 < w.i1 /\ w.i0 \in Int /\ w.i1 \in Int
  BY <1>2, <1>3, WindowNotEmpty, WindowsInside
<1> QED BY <1>1, <1>4

(* Weights overflow only under negative lobes that the filter kept.        *)
LEMMA OverflowHasLobes ==
  ASSUME ExactLoop, WeightOverflow
  PROVE  req.lobes /\ ~Coerced(req)
<1>1. PICK wid \in Widths(req) : geo = Geometry(req, wid, {})
  BY DEF ExactLoop
<1>2. geo.lobes = (req.lobes /\ ~Coerced(req))
  BY <1>1 DEF Geometry
<1> QED BY <1>2 DEF WeightOverflow

(* make_weighttab gives up only if simplify_filter (zoom.c:632-633) made   *)
(* the filter narrower than the one the windows were clipped for           *)
(* (zoom.c:598-615).                                                       *)
THEOREM GivesUpOnlyIfCoerced == ASSUME ~Roundoff PROVE Spec => []NullFilterOnlyIfCoerced
<1> DEFINE I == Inv /\ ExactInv
<1>1. Init => NullFilterOnlyIfCoerced
  BY DEF Init, ScanInit, ScanStart, NullFilterOnlyIfCoerced
<1>2. I /\ NullFilterOnlyIfCoerced /\ [Next]_vars => NullFilterOnlyIfCoerced'
  <2> SUFFICES ASSUME Inv, ExactInv, NullFilterOnlyIfCoerced, [Next]_vars, pc' = "null"
               PROVE  Coerced(req')
    BY DEF NullFilterOnlyIfCoerced
  <2>1. CASE NullFilter
    <3>1. TypeOK /\ ExactLoop /\ req' = req
      BY <2>1 DEF NullFilter, Inv, ExactInv, InLoop
    <3>2. Coerced(req)
      BY <2>1, <3>1, NullFilterCoerced
    <3> QED BY <3>1, <3>2
  <2>2. CASE UNCHANGED <<req, pc>>
    BY <2>2 DEF NullFilterOnlyIfCoerced
  <2>3. CASE ColumnsFail
    BY <2>3, ColumnsFailEnds DEF Inv
  <2> QED BY <2>1, <2>2, <2>3 DEF Next, Skip, Setup, BeginLine, WeightOverflow, UseLine, ReadLine,
                            WriteLine, Finish, Returned, vars, scanVars
<1> QED BY <1>1, <1>2, ExactInvariance, PTL DEF Spec

-----------------------------------------------------------------------------
(* A filter no wider than the triangle has its first zeros just outside of *)
(* the lines that it was clipped for.                                      *)
LEMMA NarrowNotTrimmed ==
  ASSUME ~Roundoff, NEW r \in Request, ~NothingToDo(r), r.F <= 2, NEW wid \in Widths(r)
  PROVE  ~Trimmed(Geometry(r, wid, {}))
<1> DEFINE g == Geometry(r, wid, {})   M == Greatest(r.sn, r.sd)
<1>1. SUFFICES ASSUME NEW b \in 0 .. g.bn - 1, NEW w \in FullWindows(g, b), Weightless(g, b, w)
               PROVE  FALSE
  BY DEF Trimmed
<1>2. /\ r.sn \in Nat \ {0} /\ r.sd \in Nat \ {0} /\ r.T \in Int /\ r.F \in Nat
      /\ SrcFirst(r) \in Nat /\ DstFirst(r) \in Int /\ DstLast(r) \in Int
      /\ Spread(r) \in Int /\ Spread(r) >= r.sn
  BY Clipping DEF Request
<1>3. /\ g.sn = r.sn /\ g.sd = r.sd /\ g.T = r.T /\ g.a0 = SrcFirst(r) /\ g.b0 = DstFirst(r)
      /\ g.P = IF Coerced(r) THEN r.sn ELSE Spread(r)
      /\ g.bn = DstLast(r) - DstFirst(r) + 1
      /\ g.cardinal => ~Coerced(r)
  BY DEF Geometry
<1>4. Aligned(g) /\ g.cardinal /\ g.P = Spread(r) /\ w.i0 < w.i1
  BY <1>1, <1>3, ExactGeometry DEF Weightless
<1>5. M \in Int /\ M > 0 /\ r.sn <= M
  BY <1>2 DEF Greatest
<1>6. Spread(r) <= 2 * M
  <2>1. r.F \in {0, 1, 2}
    BY <1>2
  <2>2. Spread(r) = Greatest(r.sn, r.F * M)
    BY DEF Spread
  <2> HIDE DEF M
  <2> QED BY <1>2, <1>5, <2>1, <2>2 DEF Greatest
<1> DEFINE y == g.b0 + b   x(k) == Distance(g, g.a0 + k, y)
<1>7. b \in Int /\ y \in DstFirst(r) .. DstLast(r) /\ y \in Int
  BY <1>2, <1>3
<1> HIDE DEF g
<1>8. \A k \in Int : /\ x(k) \in Int
                     /\ x(k) = 2 * g.sn * k + g.sn - 2 * g.sd * b - g.U
                     /\ Near(g, g.a0 + k, y) <=> -Spread(r) < x(k) /\ x(k) <= Spread(r)
  BY <1>4, <1>7, DistanceExact, ZenonT(30)
<1>9. /\ w.i0 \in Nat /\ w.i1 \in Int /\ w.i1 <= g.an /\ g.an \in Nat
      /\ \A k \in Int : k \in w.i0 .. w.i1 - 1 <=> k \in 0 .. g.an - 1 /\ Near(g, g.a0 + k, y)
  BY <1>4, <1>7, ExactWindow, AlignedTypes
<1>10. w.i0 \in Int /\ w.i0 \in w.i0 .. w.i1 - 1
  BY <1>4, <1>9
<1>11. x(w.i0) # 0 /\ x(w.i0) % (2 * M) = 0
  <2> HIDE DEF x
  <2>1. x(w.i0) = 2 * g.sn * w.i0 + g.sn - 2 * g.sd * b - g.U
    BY <1>8, <1>10
  <2> QED BY <1>1, <1>3, <1>10, <2>1 DEF Weightless
<1>12. x(w.i0) = 2 * M /\ Spread(r) = 2 * M
  <2> DEFINE z == x(w.i0)   m == 2 * M
  <2>1. z \in Int /\ -Spread(r) < z /\ z <= Spread(r) /\ m \in Int /\ m > 0
    BY <1>5, <1>8, <1>9, <1>10
  <2>2. z # 0 /\ z % m = 0 /\ Spread(r) <= m
    BY <1>6, <1>11
  <2> HIDE DEF z, m
  <2>3. PICK p \in Int : z = m * p
    BY <2>1, <2>2, Divisible
  <2>4. /\ p < 0 => m * p + m <= m * 0
        /\ 1 < p => m * 1 + m <= m * p
    BY <2>1, Scaled
  <2>5. m * p \in Int /\ m * 0 = 0 /\ m * 1 = m
    BY <2>1
  <2>6. p = 1
    BY <1>2, <2>1, <2>2, <2>3, <2>4, <2>5
  <2> QED BY <1>2, <2>1, <2>2, <2>3, <2>5, <2>6 DEF z, m
<1>13. CASE w.i0 > 0
  <2>1. w.i0 - 1 \in 0 .. g.an - 1 /\ w.i0 - 1 \in Int
    BY <1>4, <1>9, <1>13
  <2>2. x(w.i0 - 1) = x(w.i0) - 2 * r.sn
    <3> HIDE DEF x, y
    <3>1. x(w.i0) = 2 * g.sn * w.i0 + g.sn - 2 * g.sd * b - g.U
      BY <1>8, <1>10
    <3>2. x(w.i0 - 1) = 2 * g.sn * (w.i0 - 1) + g.sn - 2 * g.sd * b - g.U
      BY <1>8, <2>1
    <3>3. g.sn \in Int /\ g.sd \in Int /\ g.U \in Int
      BY <1>4, AlignedTypes
    <3>4. 2 * g.sn * (w.i0 - 1) = 2 * g.sn * w.i0 - 2 * g.sn
      BY <1>10, <3>3
    <3>5. 2 * g.sn * w.i0 \in Int /\ 2 * g.sd * b \in Int /\ 2 * g.sn \in Int
      BY <1>7, <1>10, <3>3
    <3> DEFINE p == 2 * g.sn * w.i0   q == 2 * g.sd * b   o == 2 * g.sn
    <3>6. x(w.i0 - 1) = p - o + g.sn - q - g.U /\ x(w.i0) = p + g.sn - q - g.U
      BY <3>1, <3>2, <3>4
    <3>7. x(w.i0 - 1) = x(w.i0) - o
      <4>1. p \in Int /\ q \in Int /\ o \in Int
        BY <3>5
      <4> HIDE DEF p, q, o
      <4> QED BY <3>3, <3>6, <4>1
    <3> QED BY <1>3, <3>7
  <2>3. Near(g, g.a0 + (w.i0 - 1), y)
    <3> HIDE DEF x, y, M
    <3>1. -Spread(r) < x(w.i0 - 1) /\ x(w.i0 - 1) <= Spread(r)
      BY <1>2, <1>5, <1>12, <2>2
    <3> QED BY <1>8, <2>1, <3>1
  <2>4. w.i0 - 1 \in w.i0 .. w.i1 - 1
    BY <1>9, <2>1, <2>3
  <2> QED BY <1>9, <2>4
<1>14. CASE w.i0 = 0
  <2>1. 2 * r.sn * SrcFirst(r) + r.T - Spread(r) < 2 * r.sd * y
    BY <1>7, ClippingExact
  <2>2. x(w.i0) = 2 * r.sn * SrcFirst(r) - 2 * r.sd * y + r.T
    <3>1. g.a0 + w.i0 = SrcFirst(r)
      BY <1>2, <1>3, <1>14
    <3> QED BY <1>3, <3>1 DEF Distance
  <2> DEFINE p == 2 * r.sn * SrcFirst(r)  q == 2 * r.sd * y
  <2>3. p \in Int /\ q \in Int
    BY <1>2, <1>7
  <2>4. p + r.T - Spread(r) < q /\ Spread(r) = p - q + r.T
    BY <1>12, <2>1, <2>2
  <2> HIDE DEF p, q
  <2> QED BY <1>2, <2>3, <2>4
<1> QED BY <1>9, <1>13, <1>14

(* The source line a destination line comes from is in its window, and not *)
(* one where a cardinal filter is zero.                                    *)
LEMMA ZoomNotTrimmed ==
  ASSUME ~Roundoff, NEW r \in Request, ~NothingToDo(r), FromZoom(r), FilterFinds(r),
         NEW wid \in Widths(r)
  PROVE  ~Trimmed(Geometry(r, wid, {}))
<1> DEFINE g == Geometry(r, wid, {})
<1>0. SUFFICES ASSUME r.F > 2 PROVE ~Trimmed(g)
  BY NarrowNotTrimmed DEF Request
<1>1. SUFFICES ASSUME NEW b \in 0 .. g.bn - 1, NEW w \in FullWindows(g, b), Weightless(g, b, w)
               PROVE  FALSE
  BY DEF Trimmed
<1>2. /\ r.sn = r.b1 - r.b0 + 1 /\ r.sd = r.a1 - r.a0 + 1
      /\ r.T = r.sd * (2 * r.b0 - 1) - r.sn * (2 * r.a0 - 1)
      /\ r.a0 \in Int /\ r.a1 \in Int /\ r.b0 \in Int /\ r.b1 \in Int
      /\ r.sn \in Int /\ r.sn > 0 /\ r.sd \in Int /\ r.sd > 0 /\ r.T \in Int
  BY ZoomMapping
<1>3. /\ SrcFirst(r) \in Nat /\ SrcLast(r) \in Int /\ DstFirst(r) \in Int /\ DstLast(r) \in Int
      /\ Spread(r) \in Int /\ Spread(r) >= r.sn
  BY Clipping
<1>4. /\ g.sn = r.sn /\ g.sd = r.sd /\ g.T = r.T /\ g.a0 = SrcFirst(r) /\ g.b0 = DstFirst(r)
      /\ g.P = IF Coerced(r) THEN r.sn ELSE Spread(r)
      /\ g.an = SrcLast(r) - SrcFirst(r) + 1 /\ g.bn = DstLast(r) - DstFirst(r) + 1
      /\ g.cardinal => r.cardinal
  BY DEF Geometry
<1>5. Aligned(g)
  BY ExactGeometry
<1>6. g.a0 = r.a0 /\ g.an = r.a1 - r.a0 + 1
  <2>1. r.cardinal /\ r.ah \in Int
    BY <1>1, <1>4 DEF Weightless, Request
  <2> QED BY <1>0, <1>2, <1>4, <2>1 DEF FilterFinds, SrcFirst, SrcLast, Greatest, Least
<1> DEFINE y == g.b0 + b   C == 2 * r.sd * y - r.T   n == 2 * r.sn   K == (C + r.sn) \div n
<1>7. y \in Int /\ r.b0 <= y /\ y <= r.b1 /\ b \in Int
  <2>1. y \in DstFirst(r) .. DstLast(r) /\ y \in Int /\ b \in Int
    BY <1>3, <1>4
  <2>2. y \in r.b0 .. r.b1
    <3> HIDE DEF y
    <3> QED BY <2>1, ClippingExact
  <2> QED BY <1>2, <2>1, <2>2
<1>8. C \in Int /\ n \in Int /\ n > 0
  BY <1>2, <1>7
<1>9. K \in Int /\ n * K <= C + r.sn /\ C + r.sn < n * K + n
  <2>1. C + r.sn \in Int
    BY <1>2, <1>8
  <2> HIDE DEF C, n
  <2> QED BY <1>8, <2>1, DivBounds
<1>10. n * r.a0 <= C + r.sn /\ C + r.sn < n * (r.a1 + 1)
  <2> DEFINE p == r.sd * r.b0   q == r.sn * r.a0   t == r.sd * (y - r.b0)
  <2>1. p \in Int /\ q \in Int /\ t \in Int
    BY <1>2, <1>7
  <2>2. C + r.sn = 2 * t + r.sd + 2 * q
    <3>1. r.T = 2 * p - r.sd - 2 * q + r.sn
      BY <1>2
    <3>2. 2 * r.sd * y = 2 * t + 2 * p
      BY <1>2, <1>7
    <3> QED BY <1>2, <2>1, <3>1, <3>2
  <2>3. t >= 0
    <3>1. y - r.b0 \in Int /\ 0 <= y - r.b0
      BY <1>2, <1>7
    <3>2. r.sd * 0 <= r.sd * (y - r.b0)
      BY <1>2, <3>1, Scaled
    <3> QED BY <1>2, <3>2
  <2>4. t <= r.sd * (r.sn - 1) /\ r.sd * (r.sn - 1) = r.sd * r.sn - r.sd /\ r.sd * r.sn \in Int
    <3>1. y - r.b0 \in Int /\ r.sn - 1 \in Int /\ y - r.b0 <= r.sn - 1
      BY <1>2, <1>7
    <3>2. r.sd * (y - r.b0) <= r.sd * (r.sn - 1)
      BY <1>2, <3>1, Scaled
    <3> QED BY <1>2, <3>2
  <2>5. n * r.a0 = 2 * q
    BY <1>2
  <2>6. n * (r.a1 + 1) = 2 * q + 2 * (r.sd * r.sn)
    <3>1. r.a1 + 1 = r.a0 + r.sd
      BY <1>2
    <3>2. n * (r.a0 + r.sd) = 2 * q + 2 * (r.sd * r.sn)
      BY <1>2
    <3> QED BY <3>1, <3>2
  <2> HIDE DEF C, n, p, q, t
  <2> QED BY <1>2, <1>8, <2>1, <2>2, <2>3, <2>4, <2>5, <2>6
<1>11. r.a0 <= K /\ K <= r.a1
  <2>1. /\ K < r.a0 => n * K + n <= n * r.a0
        /\ r.a1 + 1 <= K => n * (r.a1 + 1) <= n * K
    <3>1. r.a1 + 1 \in Int
      BY <1>2
    <3> HIDE DEF C, n, K
    <3> QED BY <1>2, <1>8, <1>9, <3>1, Scaled
  <2>2. n * K \in Int /\ n * r.a0 \in Int /\ n * (r.a1 + 1) \in Int /\ C + r.sn \in Int
    <3> HIDE DEF C, n, K
    <3> QED BY <1>2, <1>8, <1>9
  <2> HIDE DEF C, n, K
  <2> QED BY <1>2, <1>8, <1>9, <1>10, <2>1, <2>2
<1> DEFINE k == K - r.a0   x == Distance(g, g.a0 + k, g.b0 + b)
<1>12. k \in 0 .. g.an - 1 /\ k \in Int /\ g.a0 + k = K
  <2> HIDE DEF K
  <2> QED BY <1>2, <1>6, <1>9, <1>11
<1>13. x \in Int /\ -r.sn < x /\ x <= r.sn
  <2>1. x = n * K - C
    <3>1. x = 2 * r.sn * K - 2 * r.sd * y + r.T
      BY <1>4, <1>12 DEF Distance
    <3>2. 2 * r.sn * K \in Int /\ 2 * r.sd * y \in Int
      <4> HIDE DEF K, y
      <4> QED BY <1>2, <1>7, <1>9
    <3>3. C = 2 * r.sd * y - r.T /\ n * K = 2 * r.sn * K
      OBVIOUS
    <3> HIDE DEF C, n, K, y, x
    <3> QED BY <1>2, <3>1, <3>2, <3>3
  <2>2. n * K \in Int
    <3> HIDE DEF C, n, K
    <3> QED BY <1>8, <1>9
  <2>3. n = 2 * r.sn
    OBVIOUS
  <2> HIDE DEF C, n, K, x, k, y
  <2> QED BY <1>2, <1>8, <1>9, <2>1, <2>2, <2>3
<1>14. k \in w.i0 .. w.i1 - 1
  <2>1. g.P >= r.sn /\ g.P \in Int
    BY <1>2, <1>3, <1>4
  <2>2. Near(g, g.a0 + k, g.b0 + b)
    <3>1. -g.P < x /\ x <= g.P
      <4> HIDE DEF x, g
      <4> QED BY <1>2, <1>13, <2>1
    <3> HIDE DEF k, g
    <3> QED BY <1>5, <1>7, <1>12, <3>1, DistanceExact
  <2> HIDE DEF k, g
  <2> QED BY <1>5, <1>7, <1>12, <2>2, ExactWindow
<1>15. x # 0 /\ x % (2 * Greatest(r.sn, r.sd)) = 0
  <2>1. x = 2 * g.sn * k + g.sn - 2 * g.sd * b - g.U
    <3> HIDE DEF k, g
    <3> QED BY <1>5, <1>7, <1>12, DistanceExact
  <2>2. /\ 2 * g.sn * k + g.sn - 2 * g.sd * b - g.U # 0
        /\ (2 * g.sn * k + g.sn - 2 * g.sd * b - g.U) % (2 * Greatest(g.sn, g.sd)) = 0
    <3> HIDE DEF k, g
    <3> QED BY <1>1, <1>14 DEF Weightless
  <2> HIDE DEF k, x
  <2> QED BY <1>4, <2>1, <2>2
<1> DEFINE M == 2 * Greatest(r.sn, r.sd)
<1>16. M \in Int /\ M > 0 /\ r.sn < M
  BY <1>2 DEF Greatest
<1>17. PICK p \in Int : x = M * p
  <2> HIDE DEF x, M
  <2> QED BY <1>13, <1>15, <1>16, Divisible DEF M
<1>18. /\ 0 < p => M * 0 + M <= M * p
       /\ p < 0 => M * p + M <= M * 0
  <2> HIDE DEF M
  <2> QED BY <1>16, <1>17, Scaled
<1>19. M * p \in Int /\ M * 0 = 0
  <2> HIDE DEF M
  <2> QED BY <1>16, <1>17
<1> HIDE DEF M, x
<1> QED BY <1>2, <1>13, <1>15, <1>16, <1>17, <1>18, <1>19

(* The magic split works (zoom.c:19-22): zoom() reads no line that it has  *)
(* overwritten, in whatever way the two windows overlap.                   *)
THEOREM ZoomInPlace ==
  ASSUME ~Roundoff, \A r \in Requests : FromZoom(r) /\ FilterFinds(r)
  PROVE  Spec => []NoFeedback
<1> DEFINE I == Inv /\ ExactInv
           J == req \in Requests /\ NoFeedback
<1>1. Init => J
  BY DEF Init, ScanInit, ScanStart, NoFeedback
<1>2. I /\ I' /\ J /\ [Next]_vars => J'
  <2> SUFFICES ASSUME Inv, ExactInv, ExactInv', req \in Requests, ~feedback, [Next]_vars
               PROVE  req' \in Requests /\ ~feedback'
    BY DEF NoFeedback
  <2>1. req' = req
    BY DEF Next, Skip, Setup, ColumnsFail, BeginLine, NullFilter, WeightOverflow, UseLine, ReadLine,
           WriteLine, StoreLine, Finish, Returned, vars, scanVars
  <2>2. CASE ReadLine
    <3>1. ExactLoop /\ UNCHANGED geo
      BY <2>2 DEF ReadLine, ExactInv, InLoop
    <3>2. PICK wid \in Widths(req) : geo = Geometry(req, wid, {})
      BY <3>1 DEF ExactLoop
    <3>3. req \in Request /\ ~NothingToDo(req) /\ FromZoom(req) /\ FilterFinds(req)
      BY <3>1 DEF ExactLoop, Inv, TypeOK, RequestOK
    <3>4. ~MovedBackwards(geo) /\ ~Trimmed(geo)
      BY <3>2, <3>3, ZoomNotBackwards, ZoomNotTrimmed
    <3> QED BY <2>1, <3>1, <3>4 DEF ExactInv, FeedbackOnlyIf
  <2>3. CASE UNCHANGED feedback
    BY <2>1, <2>3
  <2> QED BY <2>2, <2>3 DEF Next, Skip, Setup, ColumnsFail, BeginLine, NullFilter, WeightOverflow, UseLine,
                            WriteLine, Finish, Returned, vars, scanVars
<1> QED BY <1>1, <1>2, ExactInvariance, PTL DEF Spec

-----------------------------------------------------------------------------
(* What make_weighttab finds under a line of the destination are the lines *)
(* that Resample lets it use, and it trims the same windows.               *)
LEMMA IdealWindow ==
  ASSUME ~Roundoff, NEW r \in Request, ~NothingToDo(r), NEW wid \in Widths(r),
         NEW b \in Int, NEW v \in FullWindows(Geometry(r, wid, {}), b)
  PROVE  LET g == Geometry(r, wid, {})
         IN  /\ Ideal!Under(r, g.b0 + b) = {g.a0 + k : k \in v.i0 .. v.i1 - 1}
             /\ v.i0 < v.i1 =>
                  (Weightless(g, b, v) <=>
                     \A K \in Ideal!Under(r, g.b0 + b) : Ideal!Weightless(r, g.b0 + b, K))
<1> DEFINE g == Geometry(r, wid, {})   y == g.b0 + b
<1>1. Aligned(g)
  BY ExactGeometry
<1>2. /\ g.sn = r.sn /\ g.sd = r.sd /\ g.T = r.T /\ g.a0 = SrcFirst(r) /\ g.b0 = DstFirst(r)
      /\ g.an = SrcLast(r) - SrcFirst(r) + 1
      /\ g.cardinal = (r.cardinal /\ ~Coerced(r))
      /\ g.P = IF Coerced(r) THEN r.sn ELSE Spread(r)
  BY DEF Geometry
<1>3. /\ SrcFirst(r) \in Int /\ SrcLast(r) \in Int /\ r.cardinal \in BOOLEAN
      /\ Spread(r) \in Int
  BY Clipping DEF Request
<1>4. /\ Ideal!SourceLines(r) = SrcFirst(r) .. SrcLast(r)
      /\ Ideal!SamplesPoints(r) <=> Coerced(r)
      /\ Ideal!UsedSpread(r) = g.P
  BY IdealLines
<1> HIDE DEF g
<1>5. /\ v.i0 \in Nat /\ v.i1 \in Int /\ v.i1 <= g.an
      /\ \A k \in Int : k \in v.i0 .. v.i1 - 1 <=> k \in 0 .. g.an - 1 /\ Near(g, g.a0 + k, y)
  BY <1>1, ExactWindow DEF g
<1>6. \A K : K \in Ideal!Under(r, y) <=> K \in SrcFirst(r) .. SrcLast(r) /\ Near(g, K, y)
  BY <1>2, <1>4 DEF Ideal!Under, Near
<1>7. Ideal!Under(r, y) = {g.a0 + k : k \in v.i0 .. v.i1 - 1}
  <2>1. ASSUME NEW K \in Ideal!Under(r, y) PROVE K \in {g.a0 + k : k \in v.i0 .. v.i1 - 1}
    <3>1. K \in SrcFirst(r) .. SrcLast(r) /\ Near(g, K, y)
      BY <1>6
    <3>2. K - g.a0 \in 0 .. g.an - 1 /\ g.a0 + (K - g.a0) = K /\ K - g.a0 \in Int
      BY <1>2, <1>3, <3>1
    <3>3. K - g.a0 \in v.i0 .. v.i1 - 1
      BY <1>5, <3>1, <3>2
    <3> QED BY <3>2, <3>3
  <2>2. ASSUME NEW k \in v.i0 .. v.i1 - 1 PROVE g.a0 + k \in Ideal!Under(r, y)
    <3>1. k \in Int /\ k \in 0 .. g.an - 1 /\ Near(g, g.a0 + k, y)
      BY <1>5
    <3>2. g.a0 + k \in SrcFirst(r) .. SrcLast(r)
      BY <1>2, <1>3, <3>1
    <3> QED BY <1>6, <3>1, <3>2
  <2> QED BY <2>1, <2>2
<1>8. ASSUME v.i0 < v.i1
      PROVE  Weightless(g, b, v) <=> \A K \in Ideal!Under(r, y) : Ideal!Weightless(r, y, K)
  <2>1. CASE g.cardinal
    <3>1. r.cardinal /\ ~Coerced(r) /\ g.P = Spread(r)
      BY <1>2, <2>1
    <3>2. ASSUME NEW k \in v.i0 .. v.i1 - 1
          PROVE  LET x == 2 * g.sn * k + g.sn - 2 * g.sd * b - g.U
                 IN  x # 0 /\ x % (2 * Greatest(g.sn, g.sd)) = 0
                       <=> Ideal!Weightless(r, y, g.a0 + k)
      <4> DEFINE x == 2 * g.sn * k + g.sn - 2 * g.sd * b - g.U
                 unit == IF r.sn >= r.sd THEN 2 * r.sn ELSE 2 * r.sd
      <4>1. k \in Int /\ Near(g, g.a0 + k, y)
        BY <1>5
      <4>2. x = 2 * g.sn * (g.a0 + k) - 2 * g.sd * y + g.T
        BY <1>1, <4>1, DistanceExact DEF Distance
      <4>3. x \in Int /\ -Spread(r) <= x /\ x <= Spread(r)
        <5>1. x \in Int /\ -g.P < x /\ x <= g.P
          <6>1. /\ Distance(g, g.a0 + k, g.b0 + b) = x
                /\ Distance(g, g.a0 + k, g.b0 + b) \in Int
                /\ Near(g, g.a0 + k, g.b0 + b) <=>
                      /\ -g.P < Distance(g, g.a0 + k, g.b0 + b)
                      /\ Distance(g, g.a0 + k, g.b0 + b) <= g.P
            BY <1>1, <4>1, DistanceExact
          <6> HIDE DEF x
          <6> QED BY <4>1, <6>1
        <5> HIDE DEF x
        <5> QED BY <1>3, <3>1, <5>1
      <4>4. x # 0 /\ x % (2 * Greatest(r.sn, r.sd)) = 0
              <=> \E n \in 1 .. r.F : x \in {n * unit, -n * unit}
        <5> HIDE DEF x
        <5> QED BY <4>3, ZerosExact
      <4>5. Ideal!Weightless(r, y, g.a0 + k) <=> \E n \in 1 .. r.F : x \in {n * unit, -n * unit}
        <5>1. Ideal!Weightless(r, y, g.a0 + k) <=>
                \E n \in 1 .. r.F :
                  2 * r.sn * (g.a0 + k) - 2 * r.sd * y + r.T \in {n * unit, -n * unit}
          BY <1>4, <3>1 DEF Ideal!Weightless
        <5> HIDE DEF x, unit, y
        <5> QED BY <1>2, <4>2, <5>1
      <4> HIDE DEF x, unit, y
      <4>6. x # 0 /\ x % (2 * Greatest(g.sn, g.sd)) = 0 <=> Ideal!Weightless(r, y, g.a0 + k)
        BY <1>2, <4>4, <4>5
      <4> QED BY <4>6 DEF x
    <3> HIDE DEF y
    <3>3. Weightless(g, b, v) <=>
            \A k \in v.i0 .. v.i1 - 1 : Ideal!Weightless(r, y, g.a0 + k)
      BY <1>8, <2>1, <3>2 DEF Weightless
    <3> QED BY <1>7, <3>3
  <2>2. CASE ~g.cardinal
    <3>1. ~Weightless(g, b, v)
      BY <2>2 DEF Weightless
    <3>2. v.i0 \in v.i0 .. v.i1 - 1
      BY <1>5, <1>8
    <3>3. g.a0 + v.i0 \in Ideal!Under(r, y)
      BY <1>7, <3>2
    <3>4. ~Ideal!Weightless(r, y, g.a0 + v.i0)
      BY <1>2, <1>4, <2>2 DEF Ideal!Weightless
    <3> QED BY <3>1, <3>3, <3>4
  <2> QED BY <2>1, <2>2
<1> QED BY <1>7, <1>8 DEF g

(* The window of a line is one of the samples that Resample allows.        *)
LEMMA WindowIsSample ==
  ASSUME ~Roundoff, NEW r \in Request, ~NothingToDo(r), NEW wid \in Widths(r),
         NEW b \in Int, NEW w \in SourceWindows(Geometry(r, wid, {}), b), w.i0 < w.i1
  PROVE  LET g == Geometry(r, wid, {})
         IN  /\ Ideal!Under(r, g.b0 + b) # {}
             /\ {g.a0 + k : k \in w.i0 .. w.i1 - 1} \in Ideal!Samples(r, g.b0 + b)
<1> DEFINE g == Geometry(r, wid, {})   y == g.b0 + b
<1>1. Aligned(g) /\ g.a0 \in Int
  BY ExactGeometry, AlignedTypes
<1> HIDE DEF g
<1>2. ASSUME NEW v \in FullWindows(g, b), v.i0 < v.i1
      PROVE  /\ v.i0 \in Nat /\ v.i1 \in Int
             /\ Ideal!Under(r, y) = {g.a0 + k : k \in v.i0 .. v.i1 - 1}
             /\ g.a0 + v.i0 \in Ideal!Under(r, y)
             /\ Weightless(g, b, v) <=>
                  \A K \in Ideal!Under(r, y) : Ideal!Weightless(r, y, K)
  <2>1. v.i0 \in Nat /\ v.i1 \in Int
    BY <1>1, ExactWindow
  <2>2. v.i0 \in v.i0 .. v.i1 - 1
    BY <1>2, <2>1
  <2>3. /\ Ideal!Under(r, y) = {g.a0 + k : k \in v.i0 .. v.i1 - 1}
        /\ Weightless(g, b, v) <=>
              \A K \in Ideal!Under(r, y) : Ideal!Weightless(r, y, K)
    BY <1>2, IdealWindow DEF g
  <2> QED BY <2>1, <2>2, <2>3
<1>3. CASE w \in FullWindows(g, b) /\ ~Weightless(g, b, w)
  BY <1>2, <1>3 DEF g, Ideal!Samples
<1>4. CASE \E v \in FullWindows(g, b) : Weightless(g, b, v) /\ w = Middle(v)
  <2>1. PICK v \in FullWindows(g, b) : Weightless(g, b, v) /\ w = Middle(v) /\ v.i0 < v.i1
    BY <1>4 DEF Weightless
  <2>2. /\ v.i0 \in Nat /\ v.i1 \in Int
        /\ Ideal!Under(r, y) = {g.a0 + k : k \in v.i0 .. v.i1 - 1}
        /\ g.a0 + v.i0 \in Ideal!Under(r, y)
        /\ \A K \in Ideal!Under(r, y) : Ideal!Weightless(r, y, K)
    BY <1>2, <2>1
  <2>3. w.i0 \in v.i0 .. v.i1 - 1 /\ w.i1 = w.i0 + 1 /\ w.i0 \in Int
    BY <2>1, <2>2, MiddleInside
  <2>4. w.i0 .. w.i1 - 1 = {w.i0}
    BY <2>3
  <2>5. {g.a0 + k : k \in w.i0 .. w.i1 - 1} = {g.a0 + w.i0}
    BY <2>4
  <2>6. g.a0 + w.i0 \in Ideal!Under(r, y)
    BY <2>2, <2>3
  <2>7. {g.a0 + k : k \in w.i0 .. w.i1 - 1} \in Ideal!Samples(r, y)
    BY <2>2, <2>5, <2>6 DEF Ideal!Samples
  <2> QED BY <2>2, <2>7 DEF g
<1>5. w \in SourceWindows(g, b)
  BY DEF g
<1> QED BY <1>3, <1>4, <1>5 DEF SourceWindows

-----------------------------------------------------------------------------
(* What was written so far, and what was accumulated of the window.        *)
WindowAccumulated ==
  /\ DOMAIN out = linewritten
  /\ InTaps => accum = [y \in {geo.a0 + k : k \in win.i0 .. ayf - 1} |-> accum[y]]

(* Every step of the loop accumulates the next line of the window or       *)
(* writes what it accumulated (zoom.c:366-388).                            *)
LEMMA NextWindowAccumulated ==
  Inv /\ WindowAccumulated /\ [Next]_vars => WindowAccumulated'
<1> SUFFICES ASSUME Inv, WindowAccumulated, [Next]_vars PROVE WindowAccumulated'
  OBVIOUS
<1> USE DEF WindowAccumulated, InTaps
<1>0. TypeOK
  BY DEF Inv
<1>1. CASE Skip \/ Setup \/ ColumnsFail \/ NullFilter \/ WeightOverflow \/ Finish
  BY <1>0, <1>1, ColumnsFailEnds DEF Skip, Setup, ColumnsFail, NullFilter, WeightOverflow, Finish
<1>2. CASE BeginLine
  <2>1. /\ pc = "line" /\ byi < geo.bn /\ UNCHANGED <<out, linewritten, geo>>
        /\ accum' = Empty
    BY <1>2 DEF BeginLine
  <2>2. PICK w \in SourceWindows(geo, by) : win' = w /\ ayf' = w.i0
    BY <1>2 DEF BeginLine
  <2>3. w.i0 \in Int
    <3>1. GeometryOK /\ byi \in Nat
      BY <2>1 DEF Inv, TypeOK
    <3>2. geo \in GeometryType /\ geo.bn \in Nat /\ ymap \in [0 .. geo.bn - 1 -> 0 .. geo.bn - 1]
      BY <3>1 DEF GeometryOK, GeometryType
    <3>3. by \in Int
      BY <2>1, <3>1, <3>2 DEF by
    <3> QED BY <3>2, <3>3, WindowsInside
  <2>4. {geo'.a0 + k : k \in win'.i0 .. ayf' - 1} = {}
    BY <2>2, <2>3
  <2> QED BY <2>1, <2>4 DEF Empty
<1>3. ASSUME NEW data, pc = "taps", ayf < win.i1, Accumulate(data),
             UNCHANGED <<pc, out, linewritten, geo, win>>
      PROVE  WindowAccumulated'
  <2>1. ayf \in Nat /\ win.i0 \in Nat /\ win.i0 <= ayf
    BY <1>3, TapsWindow DEF Inv
  <2>2. accum' = [y \in DOMAIN accum \cup {geo.a0 + ayf} |->
                    IF y = geo.a0 + ayf THEN data ELSE accum[y]]
        /\ ayf' = ayf + 1
    BY <1>3 DEF Accumulate
  <2>3. DOMAIN accum = {geo.a0 + k : k \in win.i0 .. ayf - 1}
    BY <1>3
  <2>4. win.i0 .. ayf' - 1 = (win.i0 .. ayf - 1) \cup {ayf}
    BY <2>1, <2>2
  <2>5. DOMAIN accum' = {geo.a0 + k : k \in win.i0 .. ayf' - 1}
    BY <2>2, <2>3, <2>4
  <2>6. accum' = [y \in DOMAIN accum' |-> accum'[y]]
    BY <2>2
  <2> QED BY <1>3, <2>5, <2>6
<1>4. CASE UseLine
  BY <1>3, <1>4 DEF UseLine, scanVars
<1>5. CASE ReadLine
  BY <1>3, <1>5 DEF ReadLine
<1>6. CASE WriteLine
  BY <1>6 DEF WriteLine, StoreLine
<1>7. CASE Returned \/ UNCHANGED vars
  BY <1>7 DEF Returned, vars, scanVars
<1> QED BY <1>1, <1>2, <1>4, <1>5, <1>6, <1>7 DEF Next

(* Writing a line is a step of Resample, everything else changes nothing   *)
(* that Resample talks about.                                              *)
LEMMA StepRefines ==
  ASSUME ~Roundoff
  PROVE  Inv /\ ExactInv /\ WindowAccumulated /\ NoFeedback /\ [Next]_vars
           => [Ideal!Next]_<<req, out>>
<1> SUFFICES ASSUME Inv, ExactInv, WindowAccumulated, ~feedback, [Next]_vars
             PROVE  [Ideal!Next]_<<req, out>>
  BY DEF NoFeedback
<1>1. CASE WriteLine
  <2>1. /\ pc = "taps" /\ InTaps /\ ayf = win.i1 /\ req' = req
        /\ out' = [y \in DOMAIN out \cup {geo.b0 + by} |->
                     IF y = geo.b0 + by THEN accum ELSE out[y]]
    BY <1>1 DEF WriteLine, StoreLine, InTaps
  <2>2. TypeOK /\ ExactLoop /\ WindowChosen /\ AccumGenuine
    BY <2>1 DEF Inv, ExactInv, InLoop
  <2>3. PICK wid \in Widths(req) : geo = Geometry(req, wid, {})
    BY <2>2 DEF ExactLoop
  <2>4. req \in Request /\ ~NothingToDo(req)
    BY <2>2 DEF TypeOK, RequestOK, ExactLoop
  <2>5. /\ win \in SourceWindows(geo, by) /\ by \in 0 .. geo.bn - 1 /\ by \in Int
        /\ geo.b0 \in Int /\ geo.bn \in Int
    BY <2>1, <2>2, TapsWindow DEF WindowChosen, GeometryType
  <2>6. win.i0 < win.i1
    BY <2>1, <2>2 DEF WindowChosen
  <2> DEFINE y == geo.b0 + by   S == {geo.a0 + k : k \in win.i0 .. win.i1 - 1}
  <2>7. Ideal!Under(req, y) # {} /\ S \in Ideal!Samples(req, y)
    BY <2>3, <2>4, <2>5, <2>6, WindowIsSample
  <2>8. y \in Ideal!DestLines(req)
    <3>1. geo.b0 = DstFirst(req) /\ geo.bn = DstLast(req) - DstFirst(req) + 1
          /\ DstFirst(req) \in Int /\ DstLast(req) \in Int
      BY <2>3, <2>4, Clipping DEF Geometry
    <3>2. y \in DstFirst(req) .. DstLast(req)
      BY <2>5, <3>1
    <3> QED BY <2>4, <3>2, IdealLines
  <2>9. y \notin DOMAIN out
    BY <1>1, LineIsFresh DEF WindowAccumulated
  <2>10. accum = [k \in S |-> k]
    <3>1. accum = [z \in S |-> accum[z]]
      BY <2>1 DEF WindowAccumulated
    <3>2. \A z \in S : accum[z] = z
      BY <2>2, <3>1 DEF AccumGenuine
    <3> HIDE DEF S
    <3> QED BY <3>1, <3>2
  <2>11. out' = [z \in DOMAIN out \cup {y} |-> IF z = y THEN [k \in S |-> k] ELSE out[z]]
    BY <2>1, <2>10
  <2>12. Ideal!Compute(y)
    BY <2>1, <2>7, <2>11 DEF Ideal!Compute
  <2> QED BY <2>8, <2>9, <2>12 DEF Ideal!Next
<1>2. CASE UNCHANGED <<req, out>>
  BY <1>2
<1> QED BY <1>1, <1>2 DEF Next, Skip, Setup, ColumnsFail, BeginLine, NullFilter, WeightOverflow, UseLine, ReadLine,
                          Finish, Returned, vars, scanVars

(* As long as nothing is read after it was overwritten, the in-place,      *)
(* buffered, reordered loop computes what a zoom between two different     *)
(* pictures would, line by line (zoom.c:19-22, 656).                       *)
THEOREM ResampleImplemented ==
  ASSUME ~Roundoff
  PROVE  Spec /\ []NoFeedback => ImplementsResample
<1> DEFINE I == Inv /\ ExactInv
<1>1. Init => WindowAccumulated /\ Ideal!Init
  BY DEF Init, ScanInit, ScanStart, NoLines, Empty, WindowAccumulated, InTaps, Ideal!Init
<1>2. I /\ WindowAccumulated /\ [Next]_vars => WindowAccumulated'
  BY NextWindowAccumulated
<1>3. I /\ WindowAccumulated /\ NoFeedback /\ [Next]_vars => [Ideal!Next]_<<req, out>>
  BY StepRefines
<1> QED BY <1>1, <1>2, <1>3, ExactInvariance, PTL DEF Spec, ImplementsResample, Ideal!Spec

(* So zoom() (zoom.c:676-679), which never reads what it has overwritten,  *)
(* always computes it.                                                     *)
THEOREM ZoomImplementsResample ==
  ASSUME ~Roundoff, \A r \in Requests : FromZoom(r) /\ FilterFinds(r)
  PROVE  Spec => ImplementsResample
<1>1. Spec => []NoFeedback
  BY ZoomInPlace
<1>2. Spec /\ []NoFeedback => ImplementsResample
  BY ResampleImplemented
<1> QED BY <1>1, <1>2, PTL
=============================================================================
