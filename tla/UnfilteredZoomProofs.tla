------------------------ MODULE UnfilteredZoomProofs ------------------------
(***************************************************************************)
(* Theorems about the scan loop of UnfilteredZoom, for every picture       *)
(* height and every request whose filter is not wider than one source      *)
(* line, or than two for a translation by whole lines: the point filter,   *)
(* the box unless it minifies, the triangle.  Where nothing else is said   *)
(* they hold however the truncations are rounded.                          *)
(***************************************************************************)
EXTENDS UnfilteredZoom, ZoomGeometryProofs

(* A wider filter gets here too, if it is cardinal and simplify_filter     *)
(* replaces it for a translation by whole lines; but the windows were      *)
(* clipped for its full width by then (zoom.c:629-637).  The triangle does *)
(* no harm, as the clipping is strict; a wider one leaves destination      *)
(* lines that no source line belongs to.                                   *)
OneLine(r) == Spread(r) = r.sn \/ (Coerced(r) /\ r.F <= 2)
SpreadsOneLine(r) == IsPoint(r) => OneLine(r)

InLoop == pc \in {"line", "write"}

(* The center of destination line b, in 1/(2*sn) source lines.             *)
Center(g, b) == 2 * g.sd * b + g.U

Sampled(g, b) == Truncs(Center(g, b), 2 * g.sn)

(* What zoom_continuous prepared for the loop.                             *)
Prepared(r, g, m) ==
  /\ ~NothingToDo(r) /\ IsPoint(r)
  /\ \E wid \in Widths(r), low \in Roundings(Geometry(r, 1, {})) : g = Geometry(r, wid, low)
  /\ m \in ScanOrders(g)

PointLoop == Prepared(req, geo, ymap)

(* abuf holds the source line of the destination line computed last.       *)
LineRemembered ==
  /\ pc = "line" => IF byi = 0 THEN ayold = -1 ELSE ayold \in Sampled(geo, ymap[byi - 1])
  /\ pc = "write" => ayold \in Sampled(geo, by)
  /\ DOMAIN abuf = IF ayold = -1 THEN {} ELSE {geo.a0 + ayold}

(* The lines written are those that the first byi entries of ymap name.    *)
WrittenInOrder ==
  linewritten = {geo.b0 + ymap[i] : i \in 0 .. byi - 1}

(* A source line still has its own content, or a destination line that     *)
(* shares its row was written.                                             *)
OnlyWritingChanges ==
  \A y \in Lines : image[y] = y \/ (geo.shared /\ y \in linewritten)

(* Until FEEDBACK is reported the line in abuf has its own content.        *)
BufferGenuine == ~feedback => \A k \in DOMAIN abuf : k \in Int /\ abuf[k] = k

(* So have the lines written from it.                                      *)
CopiesGenuine == ~feedback => \A y \in DOMAIN out : \A k \in DOMAIN out[y] : k \in Int /\ out[y][k] = k

Inv ==
  /\ TypeOK
  /\ req \in Requests
  /\ pc = "entry" => /\ byi = 0 /\ linewritten = {} /\ NoLine
                     /\ image = [y \in Lines |-> y]
  /\ InLoop => PointLoop /\ LineRemembered /\ WrittenInOrder /\ OnlyWritingChanges /\ BufferGenuine
  /\ CopiesGenuine

-----------------------------------------------------------------------------
(***************************************************************************)
(* The source lines that are sampled.                                      *)
(***************************************************************************)

(* Clipping leaves only lines whose center is in the source window.        *)
LEMMA CenterInside ==
  ASSUME NEW r \in Request, ~NothingToDo(r), OneLine(r), NEW wid, NEW low,
         NEW b \in 0 .. Geometry(r, wid, low).bn - 1
  PROVE  LET g == Geometry(r, wid, low)
         IN  Center(g, b) \in Int /\ 0 < Center(g, b) /\ Center(g, b) < 2 * g.sn * g.an
<1> DEFINE g == Geometry(r, wid, low)
<1>1. /\ r.sn \in Int /\ r.sn > 0 /\ r.sd \in Int /\ r.sd > 0 /\ r.T \in Int
      /\ SrcFirst(r) \in Int /\ SrcLast(r) \in Int /\ DstFirst(r) \in Int /\ DstLast(r) \in Int
  BY Clipping DEF Request
<1>2. /\ g.sn = r.sn /\ g.sd = r.sd /\ g.U = Offset(r)
      /\ g.an = SrcLast(r) - SrcFirst(r) + 1 /\ g.bn = DstLast(r) - DstFirst(r) + 1
  BY DEF Geometry
<1> DEFINE y == DstFirst(r) + b
<1>3. y \in DstFirst(r) .. DstLast(r) /\ y \in Int /\ b \in Int
  BY <1>1, <1>2
<1> DEFINE p == r.sn * SrcFirst(r)   q == r.sn * SrcLast(r)   t == r.sd * y
<1>4. p \in Int /\ q \in Int /\ t \in Int
  BY <1>1, <1>3
<1>5. 2 * p + r.T - r.sn < 2 * t /\ 2 * t < 2 * q + r.T + r.sn
  <2>1. /\ 2 * r.sn * SrcFirst(r) + r.T - Spread(r) < 2 * r.sd * y
        /\ 2 * r.sd * y < 2 * r.sn * SrcLast(r) + r.T + Spread(r)
    <3> HIDE DEF y
    <3> QED BY <1>3, ClippingExact
  <2>2. 2 * r.sn * SrcFirst(r) = 2 * p /\ 2 * r.sn * SrcLast(r) = 2 * q /\ 2 * r.sd * y = 2 * t
    <3> HIDE DEF y
    <3> QED BY <1>1, <1>3
  <2>3. CASE Spread(r) = r.sn
    <3> HIDE DEF p, q, t, y
    <3> QED BY <2>1, <2>2, <2>3
  <2>4. CASE Spread(r) # r.sn
    <3>1. Coerced(r) /\ r.F <= 2
      BY <2>4 DEF OneLine
    <3>2. r.sn = r.sd /\ r.T % (2 * r.sd) = 0
      BY <2>4, <3>1, CoercedExact
    <3>3. Spread(r) <= 2 * r.sn /\ Spread(r) \in Int
      <4>1. r.F \in Nat
        BY DEF Request
      <4>2. r.F = 0 \/ r.F = 1 \/ r.F = 2
        BY <3>1, <4>1
      <4>3. Greatest(r.sn, r.sd) = r.sn
        BY <1>1, <3>2 DEF Greatest
      <4>4. Spread(r) = IF r.sn > r.F * r.sn THEN r.sn ELSE r.F * r.sn
        BY <4>3 DEF Spread, Greatest
      <4> QED BY <1>1, <4>2, <4>4
    <3> DEFINE n == 2 * r.sn
    <3>4. n \in Int /\ n > 0
      BY <1>1
    <3>5. PICK k \in Int : r.T = n * k
      <4> HIDE DEF n
      <4>1. r.T % n = 0
        BY <3>2 DEF n
      <4> QED BY <1>1, <3>4, <4>1, Divisible
    <3> DEFINE f == SrcFirst(r)   l == SrcLast(r)
    <3>6. 2 * t = n * y /\ 2 * p = n * f /\ 2 * q = n * l
      <4> HIDE DEF y
      <4> QED BY <1>1, <1>3, <3>2
    <3>7. f \in Int /\ l \in Int
      BY <1>1
    <3> HIDE DEF n, f, l, p, q, t, y
    <3>8. n * (f + k - 1) < n * y /\ n * y < n * (l + k + 1)
      <4>1. n * (f + k - 1) = n * f + n * k - n /\ n * (l + k + 1) = n * l + n * k + n
        BY <1>3, <3>4, <3>5, <3>7
      <4>2. n * f \in Int /\ n * l \in Int /\ n * k \in Int /\ n * y \in Int
        BY <1>3, <3>4, <3>5, <3>7
      <4>3. Spread(r) <= n
        BY <3>3 DEF n
      <4>4. /\ n * f + r.T - Spread(r) < n * y
            /\ n * y < n * l + r.T + Spread(r)
        BY <2>1, <2>2, <3>6
      <4> QED BY <3>3, <3>4, <3>5, <4>1, <4>2, <4>3, <4>4
    <3>9. f + k <= y /\ y <= l + k
      <4>1. f + k - 1 < y /\ y < l + k + 1
        <5>1. f + k - 1 \in Int /\ l + k + 1 \in Int
          BY <3>5, <3>7
        <5> QED BY <1>3, <3>4, <3>8, <5>1, Scaled
      <4> QED BY <1>3, <3>5, <3>7, <4>1
    <3>10. n * (f + k) <= n * y /\ n * y <= n * (l + k)
      <4>1. f + k \in Int /\ l + k \in Int
        BY <3>5, <3>7
      <4> QED BY <1>3, <3>4, <3>9, <4>1, Scaled
    <3>11. n * (f + k) = n * f + n * k /\ n * (l + k) = n * l + n * k
      BY <3>4, <3>5, <3>7
    <3>12. n * f \in Int /\ n * l \in Int /\ n * k \in Int
      BY <3>4, <3>5, <3>7
    <3> QED BY <1>1, <1>4, <3>5, <3>6, <3>10, <3>11, <3>12
  <2> QED BY <2>3, <2>4
<1>6. Center(g, b) = 2 * t - 2 * p + r.sn - r.T
  <2> DEFINE u == 2 * r.sd * b   v == 2 * r.sd * DstFirst(r)   w == r.sn * (2 * SrcFirst(r) - 1)
  <2>1. u + v = 2 * t /\ w = 2 * p - r.sn
    BY <1>1, <1>3
  <2>2. u \in Int /\ v \in Int /\ w \in Int
    BY <1>1, <1>3
  <2>3. Center(g, b) = u + (v - w - r.T)
    BY <1>2 DEF Center, Offset
  <2> HIDE DEF g, p, q, t, y, u, v, w
  <2> QED BY <1>1, <1>4, <2>1, <2>2, <2>3
<1>7. 2 * g.sn * g.an = 2 * q - 2 * p + 2 * r.sn
  BY <1>1, <1>2
<1> HIDE DEF g, p, q, t, y
<1> QED BY <1>1, <1>4, <1>5, <1>6, <1>7 DEF g

(* Truncation of a positive number, with the roundoff it may suffer.       *)
LEMMA PositiveTruncs ==
  ASSUME NEW x \in Int, NEW n \in Int, n > 0, x > 0, NEW i \in Truncs(x, n)
  PROVE  i \in Int /\ i >= 0 /\ n * i <= x /\ x <= n * i + n /\ (x = n * i + n => Roundoff)
<1> DEFINE t == x \div n
<1>1. t \in Int /\ n * t <= x /\ x < n * t + n
  BY DivBounds
<1>2. TruncDiv(x, n) = t
  BY DEF TruncDiv, FloorDiv
<1>3. x % n = 0 => x = n * t
  BY Divisible
<1> HIDE DEF t
<1>4. /\ t < 0 => n * t + n <= n * 0
      /\ t < 1 => n * t + n <= n * 1
  BY <1>1, Scaled
<1>5. n * t \in Int /\ n * 0 = 0 /\ n * (t - 1) = n * t - n /\ n * (t - 1) \in Int
  BY <1>1
<1>6. t >= 0
  BY <1>1, <1>4, <1>5
<1>7. CASE i = t
  BY <1>1, <1>5, <1>6, <1>7
<1>8. CASE i = t - 1 /\ Unsure(x, n)
  <2>1. x % n = 0 /\ Roundoff
    BY <1>8 DEF Unsure
  <2>2. x = n * t
    <3> QED BY <2>1, <1>3
  <2>3. t # 0
    BY <1>5, <2>2
  <2> QED BY <1>1, <1>5, <1>6, <1>8, <2>1, <2>2, <2>3
<1> QED BY <1>2, <1>7, <1>8 DEF Truncs

(* The line sampled for a later line is the same or a later one.           *)
LEMMA TruncsGrow ==
  ASSUME NEW x \in Int, NEW y \in Int, NEW n \in Int, n > 0, 0 < x, x < y,
         NEW i \in Truncs(x, n), NEW j \in Truncs(y, n)
  PROVE  i <= j
<1>1. /\ i \in Int /\ n * i <= x /\ (x = n * i + n => Roundoff)
      /\ j \in Int /\ y <= n * j + n
  BY PositiveTruncs
<1>2. j < i => n * j + n <= n * i
  BY <1>1, Scaled
<1>3. n * i \in Int /\ n * j \in Int
  BY <1>1
<1> QED BY <1>1, <1>2, <1>3

(* What the loop works with, and the source lines that it may sample.      *)
LEMMA LoopTypes ==
  ASSUME NEW r, NEW g, NEW m, RequestOK(r), SpreadsOneLine(r), Prepared(r, g, m)
  PROVE  /\ g \in GeometryType /\ g.a0 + g.an <= r.ah
         /\ g.a0 \in Nat /\ g.an \in Nat /\ g.b0 \in Int /\ g.bn \in Nat
         /\ g.sn \in Int /\ g.sn > 0 /\ g.sd \in Int /\ g.sd > 0
         /\ g.overlap <=> /\ g.shared
                            /\ g.a0 <= g.b0 + g.bn - 1
                            /\ g.b0 <= g.a0 + g.an - 1
         /\ m \in [0 .. g.bn - 1 -> 0 .. g.bn - 1]
         /\ \A i, j \in 0 .. g.bn - 1 : m[i] = m[j] => i = j
         /\ ~g.overlap => \A i \in 0 .. g.bn - 1 : m[i] = i
         /\ \A b \in 0 .. g.bn - 1 :
              /\ Center(g, b) \in Int /\ 0 < Center(g, b)
              /\ Sampled(g, b) \subseteq 0 .. g.an - 1
<1>1. /\ r \in Request /\ ~NothingToDo(r) /\ OneLine(r)
  BY DEF RequestOK, Prepared, SpreadsOneLine
<1>2. PICK wid \in Widths(r), low \in Roundings(Geometry(r, 1, {})) :
        g = Geometry(r, wid, low)
  BY DEF Prepared
<1>3. wid \in Nat \ {0}
  BY <1>1, WidthsPositive
<1>4. low \in SUBSET Int
  <2>1. Geometry(r, 1, {}) \in GeometryType
    BY <1>1, GeometryTyped
  <2> QED BY <2>1 DEF Roundings, GeometryType
<1>5. /\ g \in GeometryType /\ g.a0 + g.an <= r.ah
      /\ g.overlap <=> /\ g.shared
                         /\ g.a0 <= g.b0 + g.bn - 1
                         /\ g.b0 <= g.a0 + g.an - 1
  BY <1>1, <1>2, <1>3, <1>4, GeometryTyped
<1>6. /\ g.a0 \in Nat /\ g.an \in Nat /\ g.b0 \in Int /\ g.bn \in Nat
      /\ g.sn \in Int /\ g.sn > 0 /\ g.sd \in Int /\ g.sd > 0
  BY <1>5 DEF GeometryType
<1>7. m \in ScanOrders(g)
  BY DEF Prepared
<1>8. ASSUME NEW b \in 0 .. g.bn - 1
      PROVE  /\ Center(g, b) \in Int /\ 0 < Center(g, b)
             /\ Sampled(g, b) \subseteq 0 .. g.an - 1
  <2> DEFINE c == Center(g, b)   n == 2 * g.sn
  <2>1. c \in Int /\ 0 < c /\ c < n * g.an
    BY <1>1, <1>2, CenterInside
  <2>2. n \in Int /\ n > 0
    BY <1>6
  <2> HIDE DEF c, n
  <2>3. ASSUME NEW i \in Truncs(c, n) PROVE i \in 0 .. g.an - 1
    <3>1. i \in Int /\ i >= 0 /\ n * i <= c
      BY <2>1, <2>2, PositiveTruncs
    <3>2. g.an <= i => n * g.an <= n * i
      BY <1>6, <2>2, <3>1, Scaled
    <3>3. n * i \in Int /\ n * g.an \in Int
      BY <1>6, <2>2, <3>1
    <3> QED BY <1>6, <2>1, <3>1, <3>2, <3>3
  <2> QED BY <2>1, <2>3 DEF c, n, Sampled
<1> QED BY <1>5, <1>6, <1>7, <1>8, OrdersPermute

-----------------------------------------------------------------------------
(* The line of the loop in either of its states.                           *)
LEMMA LineTypes ==
  ASSUME Inv, InLoop, byi < geo.bn, \A r \in Requests : SpreadsOneLine(r)
  PROVE  /\ byi \in 0 .. geo.bn - 1 /\ by \in 0 .. geo.bn - 1 /\ by \in Int
         /\ RequestOK(req) /\ SpreadsOneLine(req) /\ PointLoop
         /\ SampledLines \subseteq 0 .. geo.an - 1
         /\ SampledLines = Sampled(geo, by)
<1>1. RequestOK(req) /\ SpreadsOneLine(req) /\ PointLoop
  BY DEF Inv, TypeOK
<1>2. byi \in 0 .. geo.bn /\ geo.bn \in Nat
  BY <1>1, LoopTypes DEF PointLoop, Inv, TypeOK, InLoop
<1>3. byi \in 0 .. geo.bn - 1
  BY <1>2
<1>4. by \in 0 .. geo.bn - 1
  BY <1>1, <1>3, LoopTypes DEF PointLoop, by
<1>5. SampledLines = Sampled(geo, by)
  BY DEF SampledLines, Sampled, Center
<1> QED BY <1>1, <1>2, <1>3, <1>4, <1>5, LoopTypes DEF PointLoop

(* Nothing is written or read when zoom_opt is entered.                    *)
LEMMA InitInv == Init => Inv
<1> SUFFICES ASSUME Init PROVE Inv
  OBVIOUS
<1>1. RequestOK(req) /\ req \in Requests
  BY RequestsAssumption DEF Init, ScanInit, ScanStart
<1> QED BY <1>1 DEF Init, ScanInit, ScanStart, NoLine, Empty, Inv, TypeOK, InLoop, CopiesGenuine

(* A step that reads and writes nothing, and stays where it is.            *)
LEMMA StutterInv ==
  ASSUME Inv, UNCHANGED <<req, geo, ymap, byi, image, linewritten, feedback, out, ayold, abuf>>,
         pc' = pc \/ pc' = "done"
  PROVE  Inv'
BY DEF Inv, TypeOK, InLoop, PointLoop, LineRemembered, Sampled, by, WrittenInOrder, NoLine,
       OnlyWritingChanges, BufferGenuine, CopiesGenuine

(* Every step of the point sampling loop (zoom.c:206-222, 258-274)         *)
(* preserves the invariant.                                                *)
LEMMA NextInv ==
  ASSUME \A r \in Requests : SpreadsOneLine(r)
  PROVE  Inv /\ [Next]_vars => Inv'
<1> SUFFICES ASSUME Inv, [Next]_vars PROVE Inv'
  OBVIOUS
<1>1. CASE Skip \/ Finish \/ Returned \/ UNCHANGED vars
  BY <1>1, StutterInv DEF Skip, Finish, Returned, vars, scanVars
<1>2. CASE Setup
  <2>1. /\ pc = "entry" /\ pc' = "line" /\ ~NothingToDo(req) /\ IsPoint(req) /\ Prepare
        /\ UNCHANGED <<req, byi, image, linewritten, feedback, out, ayold, abuf>>
    BY <1>2 DEF Setup
  <2>2. /\ byi = 0 /\ linewritten = {} /\ ayold = -1 /\ abuf = Empty
        /\ image = [y \in Lines |-> y] /\ RequestOK(req) /\ req \in Requests
        /\ feedback \in BOOLEAN
    BY <2>1 DEF Inv, TypeOK, NoLine
  <2>3. PointLoop'
    BY <2>1 DEF PointLoop, Prepared, Prepare
  <2>4. /\ ymap' \in [0 .. geo'.bn - 1 -> 0 .. geo'.bn - 1] /\ geo'.bn \in Nat
    <3>1. RequestOK(req) /\ SpreadsOneLine(req) /\ Prepared(req, geo', ymap')
      BY <2>1, <2>2, <2>3 DEF PointLoop
    <3> QED BY <3>1, LoopTypes
  <2>5. LineRemembered' /\ WrittenInOrder' /\ OnlyWritingChanges' /\ BufferGenuine'
    BY <2>1, <2>2 DEF LineRemembered, WrittenInOrder, OnlyWritingChanges, BufferGenuine, Empty
  <2>6. TypeOK'
    BY <2>1, <2>2, <2>4 DEF Inv, TypeOK
  <2> QED BY <2>1, <2>2, <2>3, <2>5, <2>6 DEF Inv, CopiesGenuine
<1>3. CASE KeepLine
  <2>1. /\ pc = "line" /\ pc' = "write" /\ byi < geo.bn /\ ayold \in SampledLines
        /\ UNCHANGED <<req, geo, ymap, byi, image, linewritten, feedback, out, ayold, abuf>>
    BY <1>3 DEF KeepLine
  <2>2. /\ SampledLines = Sampled(geo, by) /\ ayold \in 0 .. geo.an - 1
    BY <2>1, LineTypes DEF InLoop
  <2>3. PointLoop /\ LineRemembered /\ WrittenInOrder /\ OnlyWritingChanges /\ BufferGenuine
    BY <2>1 DEF Inv, InLoop
  <2>4. DOMAIN abuf = {geo.a0 + ayold} /\ ayold # -1
    BY <2>2, <2>3 DEF LineRemembered
  <2>5. TypeOK'
    BY <2>1, <2>4 DEF Inv, TypeOK
  <2>6. LineRemembered'
    BY <2>1, <2>2, <2>4 DEF LineRemembered, Sampled, by
  <2> QED BY <2>1, <2>3, <2>5, <2>6 DEF Inv, InLoop, PointLoop, WrittenInOrder, OnlyWritingChanges,
                                         BufferGenuine, CopiesGenuine
<1>4. CASE ReadLine
  <2>1. /\ pc = "line" /\ pc' = "write" /\ byi < geo.bn
        /\ UNCHANGED <<req, geo, ymap, byi, image, linewritten, out>>
    BY <1>4 DEF ReadLine
  <2>2. PICK ay \in SampledLines \ {ayold} :
          /\ ayold' = ay /\ CheckFeedback(geo.a0 + ay)
          /\ abuf' = [y \in {geo.a0 + ay} |-> ContentOf(y)]
    BY <1>4 DEF ReadLine
  <2>3. /\ SampledLines = Sampled(geo, by) /\ ay \in 0 .. geo.an - 1
        /\ RequestOK(req) /\ SpreadsOneLine(req) /\ PointLoop
        /\ byi \in 0 .. geo.bn - 1
    BY <2>1, <2>2, LineTypes DEF InLoop
  <2>4. LineRemembered /\ WrittenInOrder /\ OnlyWritingChanges /\ BufferGenuine
    BY <2>1 DEF Inv, InLoop
  <2>5. DOMAIN abuf' = {geo'.a0 + ayold'} /\ ayold' # -1
    BY <2>1, <2>2, <2>3
  <2>6. feedback' = (feedback \/ (geo.overlap /\ geo.a0 + ay \in linewritten))
    BY <2>2 DEF CheckFeedback
  <2>7. TypeOK'
    BY <2>1, <2>5, <2>6 DEF Inv, TypeOK
  <2>8. LineRemembered'
    BY <2>1, <2>2, <2>3, <2>5 DEF LineRemembered, Sampled, by
  <2> DEFINE y == geo.a0 + ay
  <2>9. ~feedback' => y \in Int /\ ContentOf(y) = y
    <3>1. /\ geo.a0 \in Nat /\ geo.an \in Nat /\ geo.b0 \in Int /\ geo.bn \in Nat
          /\ geo.a0 + geo.an <= req.ah
          /\ ymap \in [0 .. geo.bn - 1 -> 0 .. geo.bn - 1]
          /\ geo.overlap <=> /\ geo.shared
                             /\ geo.a0 <= geo.b0 + geo.bn - 1
                             /\ geo.b0 <= geo.a0 + geo.an - 1
      BY <2>3, LoopTypes DEF PointLoop
    <3>2. req.ah \in Nat /\ req.ah <= PicHeight /\ PicHeight \in Nat
      BY <2>3, RequestsAssumption DEF RequestOK, Request
    <3>3. y \in 0 .. req.ah - 1 /\ y \in Lines /\ y \in Int
          /\ geo.a0 <= y /\ y <= geo.a0 + geo.an - 1
      <4>1. ay \in 0 .. geo.an - 1
        BY <2>3
      <4>2. ay \in Int /\ 0 <= ay /\ ay <= geo.an - 1
        BY <3>1, <4>1
      <4>3. y \in Int /\ 0 <= y /\ y <= req.ah - 1 /\ y <= PicHeight - 1
        BY <3>1, <3>2, <4>2, SMTT(30)
      <4> QED BY <3>1, <3>2, <4>2, <4>3, SMTT(30) DEF Lines
    <3>4. ContentOf(y) = image[y]
      BY <3>3 DEF ContentOf
    <3>5. ASSUME geo.shared, y \in linewritten PROVE geo.overlap
      <4>1. PICK i \in 0 .. byi - 1 : y = geo.b0 + ymap[i]
        BY <2>4, <3>5 DEF WrittenInOrder
      <4>2. i \in 0 .. geo.bn - 1
        BY <2>3, <3>1
      <4>3. ymap[i] \in 0 .. geo.bn - 1
        BY <3>1, <4>2
      <4> HIDE DEF y
      <4>4. geo.a0 <= geo.b0 + geo.bn - 1 /\ geo.b0 <= geo.a0 + geo.an - 1
        <5>1. /\ y \in Int /\ geo.a0 <= y /\ y <= geo.a0 + geo.an - 1 /\ y = geo.b0 + ymap[i]
              /\ geo.a0 \in Int /\ geo.an \in Int /\ geo.b0 \in Int /\ geo.bn \in Int
              /\ ymap[i] \in Int /\ 0 <= ymap[i] /\ ymap[i] <= geo.bn - 1
          BY <3>1, <3>3, <4>1, <4>3, SMTT(30)
        <5> QED BY <5>1
      <4> QED BY <3>1, <3>5, <4>4
    <3> HIDE DEF y
    <3> QED BY <2>4, <2>6, <3>3, <3>4, <3>5 DEF OnlyWritingChanges, y
  <2>10. BufferGenuine'
    BY <2>2, <2>9 DEF BufferGenuine
  <2>11. WrittenInOrder' /\ OnlyWritingChanges'
    BY <2>1, <2>4 DEF WrittenInOrder, OnlyWritingChanges
  <2>12. CopiesGenuine'
    <3>1. CopiesGenuine /\ (~feedback' => ~feedback)
      BY <2>6 DEF Inv
    <3> QED BY <2>1, <3>1 DEF CopiesGenuine
  <2> QED BY <2>1, <2>3, <2>7, <2>8, <2>10, <2>11, <2>12 DEF Inv, InLoop, PointLoop
<1>5. CASE WriteLine
  <2>1. /\ pc = "write" /\ pc' = "line" /\ byi' = byi + 1
        /\ UNCHANGED <<req, geo, ymap, feedback, ayold, abuf>>
        /\ image' = IF geo.shared THEN [image EXCEPT ![geo.b0 + by] = Dirty] ELSE image
        /\ linewritten' = linewritten \cup {geo.b0 + by}
        /\ out' = [y \in DOMAIN out \cup {geo.b0 + by} |->
                     IF y = geo.b0 + by THEN abuf ELSE out[y]]
    BY <1>5 DEF WriteLine, StoreLine
  <2>2. byi < geo.bn /\ image \in [Lines -> Lines \cup {Dirty}] /\ linewritten \subseteq Int
    BY <2>1 DEF Inv, TypeOK
  <2>3. /\ byi \in 0 .. geo.bn - 1 /\ by \in Int
        /\ RequestOK(req) /\ SpreadsOneLine(req) /\ PointLoop
    BY <2>1, <2>2, LineTypes DEF InLoop
  <2>4. /\ geo.b0 \in Int /\ geo.bn \in Nat
        /\ ymap \in [0 .. geo.bn - 1 -> 0 .. geo.bn - 1]
    BY <2>3, LoopTypes DEF PointLoop
  <2>5. LineRemembered /\ WrittenInOrder /\ OnlyWritingChanges /\ BufferGenuine
    BY <2>1 DEF Inv, InLoop
  <2>6. TypeOK'
    <3>1. byi' \in 0 .. geo'.bn
      BY <2>1, <2>3, <2>4
    <3>3. linewritten' \subseteq Int
      <4>1. geo.b0 + by \in Int
        BY <2>3, <2>4
      <4> QED BY <2>1, <2>2, <4>1
    <3>2. image' \in [Lines -> Lines \cup {Dirty}]
      BY <2>1, <2>2
    <3> QED BY <2>1, <2>4, <3>1, <3>2, <3>3 DEF Inv, TypeOK
  <2>7. LineRemembered'
    <3>1. byi' # 0 /\ byi' - 1 = byi
      BY <2>1, <2>3
    <3> QED BY <2>1, <2>5, <3>1 DEF LineRemembered, Sampled, by
  <2>8. WrittenInOrder'
    <3>1. 0 .. byi' - 1 = (0 .. byi - 1) \cup {byi}
      BY <2>1, <2>3
    <3> QED BY <2>1, <2>5, <3>1 DEF WrittenInOrder, by
  <2>9. OnlyWritingChanges' /\ BufferGenuine' /\ CopiesGenuine'
    BY <2>1, <2>2, <2>5 DEF OnlyWritingChanges, BufferGenuine, CopiesGenuine, Inv
  <2> QED BY <2>1, <2>3, <2>6, <2>7, <2>8, <2>9 DEF Inv, InLoop, PointLoop
<1> QED BY <1>1, <1>2, <1>3, <1>4, <1>5 DEF Next

(* So the invariant always holds, whatever the roundoff.                   *)
LEMMA Invariance ==
  ASSUME \A r \in Requests : SpreadsOneLine(r)
  PROVE  Spec => []Inv
<1>1. Init => Inv
  BY InitInv
<1>2. Inv /\ [Next]_vars => Inv'
  BY NextInv
<1> QED BY <1>1, <1>2, PTL DEF Spec

(* The point sampling loop stays within its windows, and abuf holds the    *)
(* line that ayold says (zoom.c:206-274).                                  *)
THEOREM TypeCorrect ==
  ASSUME \A r \in Requests : SpreadsOneLine(r)
  PROVE  Spec => []TypeOK
<1>1. Inv => TypeOK
  BY DEF Inv
<1> QED BY <1>1, Invariance, PTL

(* Whatever the mapping and the roundoff, the source line sampled is in    *)
(* the clipped source window: the clipping of the destination leaves no    *)
(* line whose center is outside (zoom.c:598-615, 208, 260).                *)
THEOREM SamplesInside ==
  ASSUME \A r \in Requests : SpreadsOneLine(r)
  PROVE  Spec => []ReadsSourceWindow
<1>1. ASSUME Inv PROVE ReadsSourceWindow
  <2> SUFFICES ASSUME pc = "write" PROVE ayold \in 0 .. geo.an - 1
    BY DEF ReadsSourceWindow
  <2>1. byi < geo.bn /\ InLoop /\ LineRemembered
    BY <1>1 DEF Inv, TypeOK, InLoop
  <2>2. SampledLines \subseteq 0 .. geo.an - 1 /\ SampledLines = Sampled(geo, by)
    BY <1>1, <2>1, LineTypes
  <2> QED BY <2>1, <2>2 DEF LineRemembered
<1> QED BY <1>1, Invariance, PTL

(* A zoom that did not report FEEDBACK copied no line that was overwritten *)
(* (zoom.c:212, 264).                                                      *)
THEOREM FeedbackCheckComplete ==
  ASSUME \A r \in Requests : SpreadsOneLine(r)
  PROVE  Spec => []CorruptionReported
<1>1. Inv => CorruptionReported
  <2> SUFFICES ASSUME Inv, ~feedback, NEW y \in DOMAIN out, NEW k \in DOMAIN out[y]
               PROVE  out[y][k] # Dirty
    BY DEF CorruptionReported
  <2>1. out[y][k] \in Int
    BY DEF Inv, CopiesGenuine
  <2> QED BY <2>1, RequestsAssumption
<1> QED BY <1>1, Invariance, PTL

(* The next line that is read comes after the one read before.             *)
LEMMA ReadsAhead ==
  ASSUME \A r \in Requests : SpreadsOneLine(r), Inv, ReadLine
  PROVE  ayold' \in 0 .. geo.an - 1 /\ (~geo.overlap => ayold < ayold')
<1>1. pc = "line" /\ InLoop /\ byi < geo.bn /\ LineRemembered
      /\ ayold' \in SampledLines /\ ayold' # ayold
  BY DEF ReadLine, Inv, InLoop
<1>2. /\ byi \in 0 .. geo.bn - 1 /\ by \in 0 .. geo.bn - 1
      /\ RequestOK(req) /\ SpreadsOneLine(req) /\ PointLoop
      /\ SampledLines = Sampled(geo, by) /\ SampledLines \subseteq 0 .. geo.an - 1
  BY <1>1, LineTypes
<1> SUFFICES ASSUME ~geo.overlap PROVE ayold < ayold'
  BY <1>1, <1>2
<1>3. /\ geo.sn \in Int /\ geo.sn > 0 /\ geo.sd \in Int /\ geo.sd > 0
      /\ geo.bn \in Nat /\ geo.an \in Nat /\ geo \in GeometryType
      /\ \A i \in 0 .. geo.bn - 1 : ymap[i] = i
      /\ \A b \in 0 .. geo.bn - 1 : Center(geo, b) \in Int /\ 0 < Center(geo, b)
  BY <1>2, LoopTypes DEF PointLoop
<1>4. CASE byi = 0
  BY <1>1, <1>2, <1>3, <1>4 DEF LineRemembered
<1>5. CASE byi # 0
  <2>1. byi - 1 \in 0 .. geo.bn - 1 /\ byi \in Int
    BY <1>2, <1>3, <1>5
  <2>2. ayold \in Truncs(Center(geo, byi - 1), 2 * geo.sn)
    BY <1>1, <1>3, <1>5, <2>1 DEF LineRemembered, Sampled
  <2>3. ayold' \in Truncs(Center(geo, byi), 2 * geo.sn)
    BY <1>1, <1>2, <1>3 DEF Sampled, by
  <2>4. Center(geo, byi - 1) < Center(geo, byi)
    <3>1. geo.U \in Int /\ 2 * geo.sd * byi \in Int
      BY <1>3, <2>1 DEF GeometryType
    <3>2. 2 * geo.sd * (byi - 1) = 2 * geo.sd * byi - 2 * geo.sd
      BY <1>3, <2>1
    <3> DEFINE t == 2 * geo.sd * byi
    <3>3. Center(geo, byi - 1) = t - 2 * geo.sd + geo.U /\ Center(geo, byi) = t + geo.U
      BY <3>2 DEF Center
    <3> HIDE DEF t
    <3> QED BY <1>3, <3>1, <3>3 DEF t
  <2> DEFINE c == Center(geo, byi - 1)   d == Center(geo, byi)   n == 2 * geo.sn
  <2>5. c \in Int /\ d \in Int /\ 0 < c /\ c < d /\ n \in Int /\ n > 0
    BY <1>2, <1>3, <2>1, <2>4
  <2>6. ayold <= ayold'
    <3> HIDE DEF c, d, n
    <3> QED BY <2>2, <2>3, <2>5, TruncsGrow DEF c, d, n
  <2>7. ayold \in Int /\ ayold' \in Int
    <3> HIDE DEF c, d, n
    <3>1. 0 < d
      BY <2>5
    <3> QED BY <2>2, <2>3, <2>5, <3>1, PositiveTruncs DEF c, d, n
  <2> QED BY <1>1, <2>6, <2>7
<1> QED BY <1>4, <1>5

(* Between two pictures the destination lines are written in order.        *)
LEMMA WritesInOrder ==
  ASSUME \A r \in Requests : SpreadsOneLine(r), Inv, InLoop
  PROVE  /\ req \in Request /\ ~NothingToDo(req)
         /\ geo.a0 = SrcFirst(req) /\ geo.an = SrcLast(req) - SrcFirst(req) + 1
         /\ geo.b0 = DstFirst(req) /\ geo.bn = DstLast(req) - DstFirst(req) + 1
         /\ byi \in 0 .. geo.bn
         /\ geo.overlap => req.same
         /\ ~geo.overlap => /\ linewritten = {geo.b0 + i : i \in 0 .. byi - 1}
                            /\ byi < geo.bn => by = byi
<1>1. /\ RequestOK(req) /\ req \in Requests /\ PointLoop /\ WrittenInOrder
      /\ byi \in 0 .. geo.bn
  BY DEF Inv, TypeOK, InLoop
<1>2. /\ req \in Request /\ ~NothingToDo(req)
      /\ geo.a0 = SrcFirst(req) /\ geo.an = SrcLast(req) - SrcFirst(req) + 1
      /\ geo.b0 = DstFirst(req) /\ geo.bn = DstLast(req) - DstFirst(req) + 1
      /\ geo.overlap => req.same
  BY <1>1 DEF RequestOK, PointLoop, Prepared, Geometry
<1>3. geo.bn \in Nat /\ (~geo.overlap => \A i \in 0 .. geo.bn - 1 : ymap[i] = i)
  BY <1>1, LoopTypes DEF PointLoop
<1>4. ASSUME ~geo.overlap
      PROVE  /\ \A i \in 0 .. byi - 1 : ymap[i] = i
             /\ byi < geo.bn => by = byi
  BY <1>1, <1>3, <1>4 DEF by
<1>5. ~geo.overlap => linewritten = {geo.b0 + i : i \in 0 .. byi - 1}
  <2> SUFFICES ASSUME ~geo.overlap PROVE linewritten = {geo.b0 + i : i \in 0 .. byi - 1}
    OBVIOUS
  <2>1. \A i \in 0 .. byi - 1 : geo.b0 + ymap[i] = geo.b0 + i
    BY <1>4
  <2>2. linewritten = {geo.b0 + ymap[i] : i \in 0 .. byi - 1}
    BY <1>1 DEF WrittenInOrder
  <2> QED BY <2>1, <2>2
<1> QED BY <1>1, <1>2, <1>4, <1>5

(* If the windows do not overlap the source is read strictly downwards and *)
(* no line twice (zoom.c:208-216, 260-268), even with roundoff, as a       *)
(* picture format without random access needs (libpic/pic.3:75).           *)
THEOREM SourceReadInOrder ==
  ASSUME \A r \in Requests : SpreadsOneLine(r)
  PROVE  Spec => ForwardReads
<1>1. Inv /\ [Next]_vars => [ayold < ayold' \/ (ayold # ayold' /\ geo.overlap)]_ayold
  <2> SUFFICES ASSUME Inv, [Next]_vars, ayold' # ayold, ~geo.overlap PROVE ayold < ayold'
    BY Zenon
  <2>1. ReadLine
    BY DEF Next, Skip, Setup, KeepLine, WriteLine, Finish, Returned, vars, scanVars
  <2> QED BY <2>1, ReadsAhead
<1> QED BY <1>1, Invariance, PTL DEF Spec, ForwardReads

-----------------------------------------------------------------------------
(***************************************************************************)
(* The rest holds in exact arithmetic.                                     *)
(***************************************************************************)

(* The line sampled is the only one under a filter of one line.            *)
LEMMA SampledIsNear ==
  ASSUME ~Roundoff, NEW r \in Request, ~NothingToDo(r), OneLine(r), NEW wid \in Widths(r),
         NEW b \in 0 .. Geometry(r, wid, {}).bn - 1, NEW i \in Sampled(Geometry(r, wid, {}), b)
  PROVE  LET g == Geometry(r, wid, {})
         IN  \A k \in Int : Near(g, g.a0 + k, g.b0 + b) <=> k = i
<1> DEFINE g == Geometry(r, wid, {})   c == Center(g, b)   n == 2 * g.sn
<1>1. Aligned(g) /\ g.P = g.sn
  BY ExactGeometry DEF Geometry, OneLine
<1>2. c \in Int /\ 0 < c
  BY CenterInside
<1>3. i \in Truncs(c, n)
  BY DEF Sampled
<1> HIDE DEF g
<1>4. g.sn \in Int /\ g.sn > 0 /\ g.sd \in Int /\ g.U \in Int /\ n \in Int /\ n > 0
  BY <1>1, AlignedTypes
<1>5. b \in Int
  BY <1>1, AlignedTypes DEF g
<1>6. i \in Int /\ n * i <= c /\ c < n * i + n
  <2> HIDE DEF c, n
  <2>1. i \in Int /\ n * i <= c /\ c <= n * i + n /\ c # n * i + n
    BY <1>2, <1>3, <1>4, PositiveTruncs
  <2>2. n * i \in Int
    BY <1>4, <2>1
  <2> QED BY <1>2, <1>4, <2>1, <2>2
<1>7. ASSUME NEW k \in Int PROVE Near(g, g.a0 + k, g.b0 + b) <=> k = i
  <2> DEFINE d == Distance(g, g.a0 + k, g.b0 + b)
  <2>1. /\ d = 2 * g.sn * k + g.sn - 2 * g.sd * b - g.U
        /\ Near(g, g.a0 + k, g.b0 + b) <=> -g.P < d /\ d <= g.P
    BY <1>1, <1>5, DistanceExact
  <2> DEFINE u == n * k   t == 2 * g.sd * b
  <2>2. u \in Int /\ t \in Int
    BY <1>4, <1>5
  <2>3. d = u + g.sn - t - g.U /\ c = t + g.U /\ n = 2 * g.sn
    BY <2>1 DEF Center
  <2> HIDE DEF c, n, u, t, d
  <2>4. Near(g, g.a0 + k, g.b0 + b) <=> c - n < u /\ u <= c
    BY <1>1, <1>4, <2>1, <2>2, <2>3
  <2>5. /\ k < i => u + n <= n * i
        /\ i < k => n * i + n <= u
    BY <1>4, <1>6, Scaled DEF u
  <2>6. n * i \in Int /\ (k = i => u = n * i)
    BY <1>4, <1>6 DEF u
  <2> QED BY <1>2, <1>4, <1>6, <2>2, <2>4, <2>5, <2>6
<1> QED BY <1>7 DEF g

(* What exact arithmetic adds to PointLoop.                                *)
LEMMA ExactLoop ==
  ASSUME ~Roundoff, NEW r, NEW g, NEW m, RequestOK(r), SpreadsOneLine(r), Prepared(r, g, m)
  PROVE  /\ r \in Request /\ ~NothingToDo(r) /\ OneLine(r)
         /\ Aligned(g) /\ g.P = g.sn /\ g.low = {}
         /\ \E wid \in Widths(r) : g = Geometry(r, wid, {})
         /\ \A b \in 0 .. g.bn - 1 : \A i \in Sampled(g, b) :
              \A k \in Int : Near(g, g.a0 + k, g.b0 + b) <=> k = i
<1>1. r \in Request /\ ~NothingToDo(r) /\ OneLine(r)
  BY DEF RequestOK, SpreadsOneLine, Prepared
<1>2. PICK wid \in Widths(r), low \in Roundings(Geometry(r, 1, {})) : g = Geometry(r, wid, low)
  BY DEF Prepared
<1>3. low = {} /\ Aligned(g)
  BY <1>1, <1>2, ExactGeometry
<1>4. g.P = g.sn /\ g.low = {}
  BY <1>1, <1>2, <1>3 DEF Geometry, OneLine
<1> QED BY <1>1, <1>2, <1>3, <1>4, SampledIsNear

(* FEEDBACK is reported only for a translation moved backwards.            *)
OnlyBackwards ==
  /\ pc = "entry" => ~feedback
  /\ feedback => MovedBackwards(geo)

(* Every step preserves it: SampledIsNear reduces the step to SplitIsSafe. *)
LEMMA NextOnlyBackwards ==
  ASSUME ~Roundoff, \A r \in Requests : SpreadsOneLine(r)
  PROVE  Inv /\ OnlyBackwards /\ [Next]_vars => OnlyBackwards'
<1> SUFFICES ASSUME Inv, OnlyBackwards, [Next]_vars PROVE OnlyBackwards'
  OBVIOUS
<1>1. CASE ReadLine
  <2>1. /\ pc = "line" /\ pc' = "write" /\ byi < geo.bn /\ InLoop /\ UNCHANGED geo
    BY <1>1 DEF ReadLine, InLoop
  <2>2. PICK ay \in SampledLines \ {ayold} :
          feedback' = (feedback \/ (geo.overlap /\ geo.a0 + ay \in linewritten))
    BY <1>1 DEF ReadLine, CheckFeedback
  <2> SUFFICES ASSUME geo.overlap, geo.a0 + ay \in linewritten, ~MovedBackwards(geo)
               PROVE  FALSE
    BY <2>1, <2>2 DEF OnlyBackwards
  <2>3. LineRemembered /\ WrittenInOrder
    BY <2>1 DEF Inv
  <2>4. /\ byi \in 0 .. geo.bn - 1 /\ by \in 0 .. geo.bn - 1
        /\ RequestOK(req) /\ SpreadsOneLine(req) /\ PointLoop
        /\ ay \in Sampled(geo, by) /\ ay \in 0 .. geo.an - 1
    BY <2>1, <2>2, LineTypes
  <2>5. /\ Aligned(geo) /\ geo.low = {} /\ ymap \in ScanOrders(geo)
        /\ \A b \in 0 .. geo.bn - 1 : \A j \in Sampled(geo, b) :
              \A k \in Int : Near(geo, geo.a0 + k, geo.b0 + b) <=> k = j
    BY <2>4, ExactLoop DEF PointLoop, Prepared
  <2>6. /\ ymap \in [0 .. geo.bn - 1 -> 0 .. geo.bn - 1]
        /\ geo.a0 \in Int /\ geo.an \in Int /\ geo.b0 \in Int /\ geo.bn \in Int
        /\ \A b \in 0 .. geo.bn - 1 : Sampled(geo, b) \subseteq 0 .. geo.an - 1
    BY <2>4, LoopTypes, SMTT(30) DEF PointLoop
  <2>7. PICK i \in 0 .. byi - 1 : geo.a0 + ay = geo.b0 + ymap[i]
    BY <2>3 DEF WrittenInOrder
  <2>8. byi # 0 /\ byi - 1 \in 0 .. geo.bn - 1 /\ i \in 0 .. geo.bn - 1
    BY <2>4, <2>6, SMTT(30)
  <2>9. ymap[i] \in Int /\ ymap[byi - 1] \in Int /\ ymap[byi - 1] \in 0 .. geo.bn - 1 /\ ay \in Int
    <3>1. ay \in Int
      BY <2>4
    <3>2. ymap[i] \in 0 .. geo.bn - 1 /\ ymap[byi - 1] \in 0 .. geo.bn - 1
      BY <2>6, <2>8
    <3>3. ymap[i] \in Int /\ ymap[byi - 1] \in Int
      BY <3>2
    <3> QED BY <3>1, <3>2, <3>3
  <2>10. ymap[byi] = by /\ by \in Int
    BY <2>4 DEF by
  <2>11. Near(geo, geo.a0 + ay, geo.b0 + ymap[byi])
    BY <2>4, <2>5, <2>9, <2>10
  <2>12. ymap[byi] \in Int
    BY <2>10
  <2>13. Near(geo, geo.a0 + ay, geo.b0 + ymap[byi - 1])
    BY <2>4, <2>5, <2>7, <2>9, <2>11, <2>12, ExactSplitIsSafe
  <2>14. ayold \in Sampled(geo, ymap[byi - 1])
    BY <2>1, <2>3, <2>8 DEF LineRemembered
  <2>15. ay = ayold
    BY <2>5, <2>9, <2>13, <2>14
  <2> QED BY <2>15
<1>2. CASE Setup
  BY <1>2 DEF Setup, OnlyBackwards
<1>3. CASE UNCHANGED <<geo, feedback>> /\ (pc' = pc \/ pc' # "entry")
  BY <1>3 DEF OnlyBackwards
<1> QED BY <1>1, <1>2, <1>3 DEF Next, Skip, KeepLine, WriteLine, Finish, Returned, vars, scanVars

(* A point sampled zoom reads a line that it has overwritten only if its   *)
(* mapping is a pure translation and moves the other way than the clipped  *)
(* windows lie to each other (zoom.c:865-867).                             *)
THEOREM FeedbackCases ==
  ASSUME ~Roundoff, \A r \in Requests : SpreadsOneLine(r)
  PROVE  Spec => [](feedback => MovedBackwards(geo))
<1>1. Init => OnlyBackwards
  BY DEF Init, ScanInit, ScanStart, OnlyBackwards
<1>2. Inv /\ OnlyBackwards /\ [Next]_vars => OnlyBackwards'
  BY NextOnlyBackwards
<1>3. OnlyBackwards => (feedback => MovedBackwards(geo))
  BY DEF OnlyBackwards
<1> QED BY <1>1, <1>2, <1>3, Invariance, PTL DEF Spec

(* zoom() reads no line that it has overwritten, in whatever way the two   *)
(* windows overlap (zoom.c:19-22).                                         *)
THEOREM ZoomInPlace ==
  ASSUME ~Roundoff, \A r \in Requests : SpreadsOneLine(r) /\ FromZoom(r)
  PROVE  Spec => []NoFeedback
<1>1. Init => OnlyBackwards /\ NoFeedback
  BY DEF Init, ScanInit, ScanStart, OnlyBackwards, NoFeedback
<1>2. Inv /\ OnlyBackwards /\ [Next]_vars => OnlyBackwards'
  BY NextOnlyBackwards
<1>3. Inv /\ OnlyBackwards' /\ NoFeedback /\ [Next]_vars => NoFeedback'
  <2> SUFFICES ASSUME Inv, OnlyBackwards', ~feedback, [Next]_vars, feedback' PROVE FALSE
    BY DEF NoFeedback
  <2>1. ReadLine
    BY DEF Next, Skip, Setup, KeepLine, WriteLine, Finish, Returned, vars, scanVars
  <2>2. PointLoop /\ RequestOK(req) /\ SpreadsOneLine(req) /\ FromZoom(req) /\ geo' = geo
    BY <2>1 DEF ReadLine, Inv, TypeOK, InLoop
  <2>3. /\ req \in Request /\ ~NothingToDo(req) /\ OneLine(req)
        /\ \E wid \in Widths(req) : geo = Geometry(req, wid, {})
    BY <2>2, ExactLoop DEF PointLoop
  <2>4. FilterFinds(req)
    <3> SUFFICES ASSUME req.F > 2 PROVE FALSE
      BY DEF FilterFinds
    <3> DEFINE M == Greatest(req.sn, req.sd)
    <3>1. req.F \in Nat /\ req.sn \in Int /\ req.sn > 0 /\ M \in Int /\ M > 0 /\ req.sn <= M
      BY <2>3, Clipping DEF Request, Greatest
    <3>2. req.F * M <= req.sn
      <4>1. req.F * M \in Int /\ Greatest(req.sn, req.F * M) = req.sn
        BY <2>3, <3>1 DEF Spread, OneLine
      <4> HIDE DEF M
      <4> QED BY <3>1, <4>1 DEF Greatest
    <3>3. M * 2 < M * req.F /\ M * req.F = req.F * M
      <4> HIDE DEF M
      <4> QED BY <3>1, Scaled
    <3>4. req.F * M \in Int
      BY <3>1
    <3> HIDE DEF M
    <3> QED BY <3>1, <3>2, <3>3, <3>4
  <2>5. ~MovedBackwards(geo)
    BY <2>2, <2>3, <2>4, ZoomNotBackwards
  <2> QED BY <2>2, <2>5 DEF OnlyBackwards
<1>4. Spec => []Inv
  BY Invariance
<1> QED BY <1>1, <1>2, <1>3, <1>4, PTL DEF Spec

-----------------------------------------------------------------------------
(* The lines in out are those written, and abuf is one line.               *)
CopiesWritten ==
  /\ DOMAIN out = linewritten
  /\ abuf = [k \in DOMAIN abuf |-> abuf[k]]

(* Every step adds to out only the line it writes.                         *)
LEMMA NextCopiesWritten == CopiesWritten /\ [Next]_vars => CopiesWritten'
BY DEF CopiesWritten, Next, Skip, Setup, KeepLine, ReadLine, WriteLine, StoreLine, Finish, Returned,
       vars, scanVars

(* Writing a line is a step of Resample, everything else changes nothing   *)
(* that Resample talks about.                                              *)
LEMMA StepRefines ==
  ASSUME ~Roundoff, \A r \in Requests : SpreadsOneLine(r)
  PROVE  Inv /\ CopiesWritten /\ NoFeedback /\ [Next]_vars => [Ideal!Next]_<<req, out>>
<1> SUFFICES ASSUME Inv, CopiesWritten, ~feedback, [Next]_vars PROVE [Ideal!Next]_<<req, out>>
  BY DEF NoFeedback
<1>1. CASE WriteLine
  <2> DEFINE y == geo.b0 + by   K == geo.a0 + ayold
  <2>1. /\ pc = "write" /\ InLoop /\ req' = req /\ byi < geo.bn
        /\ out' = [z \in DOMAIN out \cup {y} |-> IF z = y THEN abuf ELSE out[z]]
    BY <1>1 DEF WriteLine, StoreLine, InLoop, Inv, TypeOK
  <2>2. LineRemembered /\ WrittenInOrder /\ BufferGenuine
    BY <2>1 DEF Inv
  <2>3. /\ byi \in 0 .. geo.bn - 1 /\ by \in 0 .. geo.bn - 1 /\ by \in Int
        /\ RequestOK(req) /\ SpreadsOneLine(req) /\ PointLoop
        /\ ayold \in Sampled(geo, by) /\ ayold \in 0 .. geo.an - 1
    BY <2>1, <2>2, LineTypes DEF LineRemembered
  <2>4. /\ req \in Request /\ ~NothingToDo(req)
        /\ \E wid \in Widths(req) : geo = Geometry(req, wid, {})
        /\ \A k \in Int : Near(geo, geo.a0 + k, y) <=> k = ayold
    BY <2>3, ExactLoop DEF PointLoop
  <2>5. PICK wid \in Widths(req) : geo = Geometry(req, wid, {})
    BY <2>4
  <2>6. /\ SrcFirst(req) \in Int /\ SrcLast(req) \in Int
        /\ DstFirst(req) \in Int /\ DstLast(req) \in Int
        /\ geo.a0 = SrcFirst(req) /\ geo.an = SrcLast(req) - SrcFirst(req) + 1
        /\ geo.b0 = DstFirst(req) /\ geo.bn = DstLast(req) - DstFirst(req) + 1
        /\ geo.sn = req.sn /\ geo.sd = req.sd /\ geo.T = req.T
    BY <2>4, <2>5, Clipping DEF Geometry
  <2>7. /\ Ideal!SourceLines(req) = SrcFirst(req) .. SrcLast(req)
        /\ Ideal!UsedSpread(req) = geo.P
        /\ Ideal!DestLines(req) = DstFirst(req) .. DstLast(req)
    BY <2>4, <2>5, IdealLines
  <2>8. y \in Ideal!DestLines(req) /\ y \in Int
    BY <2>3, <2>6, <2>7
  <2>9. K \in SrcFirst(req) .. SrcLast(req) /\ K \in Int /\ ayold \in Int
    BY <2>3, <2>6
  <2>10. Ideal!Under(req, y) = {K}
    <3>1. \A L : L \in Ideal!Under(req, y) <=> L \in SrcFirst(req) .. SrcLast(req) /\ Near(geo, L, y)
      <4> HIDE DEF y
      <4> QED BY <2>6, <2>7 DEF Ideal!Under, Near
    <3>2. ASSUME NEW L \in SrcFirst(req) .. SrcLast(req) PROVE Near(geo, L, y) <=> L = K
      <4>1. L - geo.a0 \in Int /\ geo.a0 + (L - geo.a0) = L /\ (L = K <=> L - geo.a0 = ayold)
        BY <2>6, <2>9
      <4> HIDE DEF y, K
      <4> QED BY <2>4, <4>1
    <3> HIDE DEF y, K
    <3> QED BY <2>9, <3>1, <3>2
  <2>11. {K} \in Ideal!Samples(req, y)
    <3> HIDE DEF y, K
    <3> QED BY <2>10 DEF Ideal!Samples
  <2>12. y \notin DOMAIN out
    <3>1. \A i \in 0 .. byi - 1 : geo.b0 + ymap[i] # geo.b0 + ymap[byi]
      <4>1. /\ ymap \in [0 .. geo.bn - 1 -> 0 .. geo.bn - 1]
            /\ \A i, j \in 0 .. geo.bn - 1 : ymap[i] = ymap[j] => i = j
            /\ geo.b0 \in Int /\ geo.bn \in Int
        BY <2>3, LoopTypes, SMTT(30) DEF PointLoop
      <4>2. \A i \in 0 .. byi - 1 : i \in 0 .. geo.bn - 1 /\ i # byi
        BY <2>3, <4>1
      <4>3. \A i \in 0 .. byi - 1 : ymap[i] # ymap[byi]
        BY <2>3, <4>1, <4>2
      <4>4. ymap[byi] \in 0 .. geo.bn - 1 /\ \A i \in 0 .. byi - 1 : ymap[i] \in 0 .. geo.bn - 1
        BY <2>3, <4>1, <4>2
      <4> QED BY <4>1, <4>3, <4>4
    <3> QED BY <2>2, <3>1 DEF WrittenInOrder, CopiesWritten, by
  <2>13. abuf = [k \in {K} |-> k]
    <3>1. DOMAIN abuf = {K}
      BY <2>2, <2>3 DEF LineRemembered
    <3>2. \A k \in DOMAIN abuf : abuf[k] = k
      BY <2>2 DEF BufferGenuine
    <3> HIDE DEF K
    <3> QED BY <3>1, <3>2 DEF CopiesWritten
  <2>14. Ideal!Compute(y)
    <3> HIDE DEF y, K
    <3>1. out' = [z \in DOMAIN out \cup {y} |-> IF z = y THEN [k \in {K} |-> k] ELSE out[z]]
      BY <2>1, <2>13
    <3> QED BY <2>1, <2>10, <2>11, <3>1 DEF Ideal!Compute
  <2> QED BY <2>8, <2>12, <2>14 DEF Ideal!Next
<1>2. CASE UNCHANGED <<req, out>>
  BY <1>2
<1> QED BY <1>1, <1>2 DEF Next, Skip, Setup, KeepLine, ReadLine, Finish, Returned, vars, scanVars

(* As long as nothing is read after it was overwritten, every line of the  *)
(* destination is a copy of the one source line whose pixel its center     *)
(* falls into, as between two different pictures (zoom.c:19-22, 656).      *)
THEOREM ResampleImplemented ==
  ASSUME ~Roundoff, \A r \in Requests : SpreadsOneLine(r)
  PROVE  Spec /\ []NoFeedback => ImplementsResample
<1>1. Init => CopiesWritten /\ Ideal!Init
  BY DEF Init, ScanInit, ScanStart, NoLine, Empty, CopiesWritten, Ideal!Init
<1>2. CopiesWritten /\ [Next]_vars => CopiesWritten'
  BY NextCopiesWritten
<1>3. Inv /\ CopiesWritten /\ NoFeedback /\ [Next]_vars => [Ideal!Next]_<<req, out>>
  BY StepRefines
<1> QED BY <1>1, <1>2, <1>3, Invariance, PTL DEF Spec, ImplementsResample, Ideal!Spec

(* So a point sampled zoom() (zoom.c:676-679) always computes it.          *)
THEOREM ZoomImplementsResample ==
  ASSUME ~Roundoff, \A r \in Requests : SpreadsOneLine(r) /\ FromZoom(r)
  PROVE  Spec => ImplementsResample
<1>1. Spec => []NoFeedback
  BY ZoomInPlace
<1>2. Spec /\ []NoFeedback => ImplementsResample
  BY ResampleImplemented
<1> QED BY <1>1, <1>2, PTL
=============================================================================
