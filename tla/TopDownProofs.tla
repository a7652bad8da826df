--------------------------- MODULE TopDownProofs ---------------------------
(***************************************************************************)
(* The devices keep their side of the contract of TopDown, for pictures,   *)
(* boxes and rows of every size and for every format.                      *)
(***************************************************************************)
EXTENDS TopDown, TLAPS

Formats == Readable \cup Writable

(* Devices that decode or skip rows until the one that is asked for.       *)
Counting == {"pnm", "jpg", "png", "tif", "bmp"}

(* A reader is a record whose counter is one past the row read last, and   *)
(* whose cached position, if it is a dump, is the position of its file.    *)
Reader(d) ==
  DOMAIN d = {"fmt", "nchan", "width", "height", "scanline", "row", "curx", "cury", "pos"}

Behind(d, a) ==
  /\ d.fmt \in Readable
  /\ d.width \in Nat \ {0} /\ d.height \in Nat
  /\ d.scanline \in Int
  /\ d.fmt \in Counting => d.scanline = a + 1
  /\ d.curx \in Int /\ d.cury \in Int
  /\ d.pos = d.cury * d.width + d.curx
  /\ a >= 0 => d.row = IF d.fmt = "gif" /\ d.nchan = 1 THEN Zero ELSE a

SrcInv == Reader(src) /\ asked \in Int /\ asked >= -1 /\ Behind(src, asked)

(* A writer is a record at its start until a row is written; from then on  *)
(* the row written last is at the end of the file.                         *)
Writer(d) ==
  DOMAIN d = {"fmt", "nchan", "width", "height", "scanline", "row", "curx", "cury", "pos", "rows"}

DstInv ==
  /\ Writer(dst)
  /\ dst.fmt \in Formats
  /\ dst.width \in Int
  /\ dst.curx \in Int /\ dst.cury \in Int
  /\ dst.pos = dst.cury * dst.width + dst.curx
  /\ written \subseteq Nat
  /\ written = {} => dst.curx = 0 /\ dst.cury = 0

FileInv ==
  dst.fmt # "dump" =>
    /\ dst.scanline \in Nat
    /\ written = {} => dst.scanline = 0
    /\ written # {} => dst.scanline - 1 \in written
    /\ \A w \in written : w < dst.scanline
    /\ dst.row = Junk \/ dst.row \in written
    /\ FileRight

Inv == SrcInv /\ DstInv /\ FileInv

-----------------------------------------------------------------------------
(* Rows of pixels laid out one after the other: the row of a position.     *)
LEMMA RowOfPosition ==
  ASSUME NEW w \in Nat \ {0}, NEW y \in Nat, NEW x \in Nat, x < w
  PROVE  (y * w + x) \div w = y
  OBVIOUS

(* Freshly opened pictures satisfy the invariant.                          *)
LEMMA InitInv == Init => Inv
<1> SUFFICES ASSUME Init PROVE Inv
  OBVIOUS
<1> USE DEF Init, Size, OpenRead, OpenWrite, Formats, Readable, Writable
<1>1. SrcInv
  BY DEF SrcInv, Reader, Behind, Counting
<1>2. DstInv
  BY DEF DstInv, Writer, UNSET
<1>3. FileInv
  BY DEF FileInv, FileRight
<1> QED BY <1>1, <1>2, <1>3 DEF Inv

-----------------------------------------------------------------------------
(* dump: wherever the file was, the row of the position it seeks to is the *)
(* one asked for, and afterwards the cache agrees with the file.           *)
LEMMA DumpRead ==
  ASSUME NEW d, NEW a, Reader(d), Behind(d, a), d.fmt = "dump",
         NEW y \in Nat, NEW x0 \in Nat, NEW nx \in Nat \ {0}, x0 < d.width
  PROVE  /\ Reader(dump_read_row(d, y, x0, nx))
         /\ Behind(dump_read_row(d, y, x0, nx), y)
<1> DEFINE p == dump_jump_to_pixel(d, x0, y)
           e == dump_read_row(d, y, x0, nx)
           past == x0 + nx >= d.width
<1>1. /\ Reader(p)
      /\ p.fmt = d.fmt /\ p.nchan = d.nchan /\ p.width = d.width /\ p.height = d.height
      /\ p.scanline = d.scanline
      /\ p.curx = x0 /\ p.cury = y /\ p.pos = y * d.width + x0
  BY DEF dump_jump_to_pixel, Reader, Behind
<1>2. p.pos \div d.width = y
  BY <1>1, RowOfPosition DEF Behind
<1>3. e = [dump_advance(p, nx) EXCEPT !.row = y]
  BY <1>1, <1>2 DEF dump_read_row
<1> HIDE DEF p
<1>4. /\ Reader(e)
      /\ e.fmt = d.fmt /\ e.nchan = d.nchan /\ e.width = d.width /\ e.height = d.height
      /\ e.scanline = d.scanline /\ e.row = y
      /\ e.curx = IF past THEN x0 + nx - d.width ELSE x0 + nx
      /\ e.cury = IF past THEN y + 1 ELSE y
      /\ e.pos = y * d.width + x0 + nx
  BY <1>1, <1>3 DEF dump_advance, Reader
<1> HIDE DEF e
<1>5. e.pos = e.cury * e.width + e.curx
  <2>1. CASE past
    <3>1. (y + 1) * d.width = y * d.width + d.width
      BY DEF Behind
    <3> QED BY <1>4, <2>1, <3>1 DEF Behind
  <2>2. CASE ~past
    BY <1>4, <2>2 DEF Behind
  <2> QED BY <2>1, <2>2
<1>6. Behind(e, y)
  BY <1>4, <1>5 DEF Behind, Counting
<1>7. Reader(e) /\ Behind(e, y)
  BY <1>4, <1>6
<1> QED BY <1>7 DEF e

(* The devices that count rows, and gif: the row they come to is the one   *)
(* asked for if it lies ahead of the row they came to before.              *)
LEMMA CountedRead ==
  ASSUME NEW d, NEW a \in Int, Reader(d), Behind(d, a), d.fmt # "dump",
         NEW y \in Nat, a < y, NEW x0, NEW nx
  PROVE  Reader(ReadRow(d, y, x0, nx)) /\ Behind(ReadRow(d, y, x0, nx), y)
<1> DEFINE e == ReadRow(d, y, x0, nx)
<1>1. d.fmt \in {"pnm", "jpg", "png", "tif", "bmp", "gif", "bmpup"}
  BY DEF Behind, Readable
<1>2. d.scanline \in Int /\ d.height \in Int /\ (d.fmt \in Counting => d.scanline = a + 1)
  BY DEF Behind
<1>3. /\ Reader(e)
      /\ e.fmt = d.fmt /\ e.nchan = d.nchan /\ e.width = d.width /\ e.height = d.height
      /\ e.scanline = IF d.fmt = "gif" THEN d.scanline ELSE y + 1
      /\ e.row = IF d.fmt = "gif" /\ d.nchan = 1 THEN Zero ELSE y
      /\ e.curx = d.curx /\ e.cury = d.cury /\ e.pos = d.pos
  <2>1. CASE d.fmt = "pnm"
    <3>1. Further(d.scanline, y) = y
      BY <1>2, <2>1 DEF Further, Counting
    <3>2. e = [d EXCEPT !.scanline = Further(d.scanline, y) + 1, !.row = Further(d.scanline, y)]
      BY <2>1 DEF ReadRow, pnm_read_row
    <3> QED BY <2>1, <3>1, <3>2 DEF Reader
  <2>2. CASE d.fmt \in {"jpg", "png", "tif", "bmp"}
    <3>1. e = [d EXCEPT !.scanline = y + 1, !.row = y]
      BY <1>2, <2>2 DEF ReadRow, seek_row_read, Counting
    <3> QED BY <2>2, <3>1 DEF Reader
  <2>3. CASE d.fmt = "gif"
    BY <2>3 DEF ReadRow, gif_read_row, Reader
  <2>4. CASE d.fmt = "bmpup"
    <3>1. d.height - 1 - (d.height - (y + 1)) = y
      BY <1>2
    <3>2. e = [d EXCEPT !.scanline = y + 1, !.row = d.height - 1 - (d.height - (y + 1))]
      BY <2>4 DEF ReadRow, bmp_seek_row_read
    <3> QED BY <2>4, <3>1, <3>2 DEF Reader
  <2> QED BY <1>1, <2>1, <2>2, <2>3, <2>4
<1> HIDE DEF e
<1>4. Behind(e, y)
  BY <1>3 DEF Behind, Counting
<1>5. Reader(e) /\ Behind(e, y)
  BY <1>3, <1>4
<1> QED BY <1>5 DEF e

(* Reading a part of a row further down leaves every source, whether it    *)
(* seeks or counts rows, where it has to be.                               *)
LEMMA ReadInv ==
  ASSUME SrcInv, NEW y \in Row, NEW s \in Span, Read(y, s)
  PROVE  SrcInv'
<1>1. /\ y \in Nat /\ s.x0 \in Nat /\ s.nx \in Nat \ {0}
      /\ src.width \in Nat /\ s.x0 + s.nx <= src.width
      /\ asked \in Int /\ asked < y
      /\ Reader(src) /\ Behind(src, asked)
  BY DEF Row, Span, Read, SrcInv, Behind
<1>2. src' = ReadRow(src, y, s.x0, s.nx) /\ asked' = y
  BY DEF Read
<1>3. Reader(ReadRow(src, y, s.x0, s.nx)) /\ Behind(ReadRow(src, y, s.x0, s.nx), y)
  <2>1. CASE src.fmt = "dump"
    <3>1. s.x0 < src.width
      BY <1>1
    <3>2. ReadRow(src, y, s.x0, s.nx) = dump_read_row(src, y, s.x0, s.nx)
      BY <2>1 DEF ReadRow
    <3> QED BY <1>1, <2>1, <3>1, <3>2, DumpRead
  <2>2. CASE src.fmt # "dump"
    BY <1>1, <2>2, CountedRead
  <2> QED BY <2>1, <2>2
<1> QED BY <1>1, <1>2, <1>3 DEF SrcInv, Reader, Behind

-----------------------------------------------------------------------------
(* Parameters are set while the file is still empty.                       *)
LEMMA SetInv ==
  ASSUME DstInv, FileInv,
         (\E nchan \in {1, 3} : SetChannels(nchan)) \/ (\E b \in Box : SetPlace(b))
  PROVE  DstInv' /\ FileInv'
<1>1. /\ Writer(dst') /\ written = {} /\ written' = written
      /\ dst'.fmt = dst.fmt /\ dst'.width \in Int
      /\ dst'.scanline = dst.scanline /\ dst'.row = dst.row /\ dst'.rows = dst.rows
      /\ dst'.curx = dst.curx /\ dst'.cury = dst.cury /\ dst'.pos = dst.pos
  <2>1. CASE \E nchan \in {1, 3} : SetChannels(nchan)
    BY <2>1 DEF DstInv, Writer, SetChannels, SetNchan
  <2>2. CASE \E b \in Box : SetPlace(b)
    <3>1. PICK b \in Box : SetPlace(b)
      BY <2>2
    <3>2. b.x0 \in Int /\ b.y0 \in Int /\ b.nx \in Int /\ b.ny \in Int
      BY DEF Box
    <3>3. written = {} /\ written' = written /\ dst' = SetBox(dst, b.x0, b.y0, b.nx, b.ny)
      BY <3>1 DEF SetPlace
    <3>4. CASE dst.fmt = "dump"
      BY <3>2, <3>3, <3>4 DEF DstInv, Writer, SetBox
    <3>5. CASE dst.fmt # "dump"
      <4>1. dst' = [dst EXCEPT !.width = b.x0 + b.nx, !.height = b.y0 + b.ny]
        BY <3>3, <3>5 DEF SetBox
      <4>2. b.x0 + b.nx \in Int /\ Writer(dst)
        BY <3>2 DEF DstInv
      <4> QED BY <3>3, <4>1, <4>2 DEF Writer
    <3> QED BY <3>4, <3>5
  <2> QED BY <2>1, <2>2
<1>2. dst.curx = 0 /\ dst.cury = 0 /\ dst.pos = 0
  <2>1. dst.width \in Int /\ 0 * dst.width + 0 = 0
    BY DEF DstInv
  <2> QED BY <1>1, <2>1 DEF DstInv
<1>3. DstInv'
  BY <1>1, <1>2 DEF DstInv, Writer
<1>4. FileInv'
  BY <1>1 DEF FileInv, FileRight
<1> QED BY <1>3, <1>4

(* dump writes where its cached position says, and moves it on.            *)
LEMMA WriteDumpInv ==
  ASSUME DstInv, dst.fmt = "dump", NEW y \in Row, NEW s \in Span, Write(y, s)
  PROVE  DstInv' /\ FileInv'
<1> DEFINE d == dst
           p == dump_jump_to_pixel(d, s.x0, y)
           past == s.x0 + s.nx >= d.width
<1>1. /\ y \in Nat /\ s.x0 \in Nat /\ s.nx \in Nat /\ d.width \in Int
      /\ Writer(d) /\ d.pos = d.cury * d.width + d.curx
  BY DEF Row, Span, DstInv
<1>2. /\ Writer(p) /\ p.fmt = d.fmt /\ p.width = d.width
      /\ p.curx = s.x0 /\ p.cury = y /\ p.pos = y * d.width + s.x0
  BY <1>1 DEF dump_jump_to_pixel, Writer
<1>3. dst' = [dump_advance(p, s.nx) EXCEPT
                !.rows = [r \in DOMAIN d.rows \cup {p.pos} |-> IF r = p.pos THEN y ELSE d.rows[r]]]
  BY DEF Write, WriteRow, dump_write_row
<1> HIDE DEF p
<1>4. /\ Writer(dst') /\ dst'.fmt = "dump" /\ dst'.width = d.width
      /\ dst'.curx = IF past THEN s.x0 + s.nx - d.width ELSE s.x0 + s.nx
      /\ dst'.cury = IF past THEN y + 1 ELSE y
      /\ dst'.pos = y * d.width + s.x0 + s.nx
  BY <1>1, <1>2, <1>3 DEF dump_advance, Writer
<1>5. dst'.pos = dst'.cury * dst'.width + dst'.curx
  <2>1. CASE past
    <3>1. (y + 1) * d.width = y * d.width + d.width
      BY <1>1
    <3> QED BY <1>1, <1>4, <2>1, <3>1
  <2>2. CASE ~past
    BY <1>1, <1>4, <2>2
  <2> QED BY <2>1, <2>2
<1>6. written' = written \cup {y} /\ written \subseteq Nat
  BY DEF Write, DstInv
<1>7. DstInv'
  BY <1>1, <1>4, <1>5, <1>6 DEF DstInv, Writer, Formats, Readable
<1>8. FileInv'
  BY <1>4 DEF FileInv
<1> QED BY <1>7, <1>8

(* The other devices pad the file up to the row and append it.             *)
LEMMA WriteFileInv ==
  ASSUME DstInv, FileInv, dst.fmt # "dump", NEW y \in Row, NEW s \in Span, Write(y, s)
  PROVE  DstInv' /\ FileInv'
<1> DEFINE n == dst.scanline
           pad == Padding(dst)
           padded == [r \in 0 .. y - 1 |-> IF r < n THEN dst.rows[r] ELSE pad]
           rows == [r \in 0 .. y |-> IF r = y THEN y ELSE padded[r]]
<1>1. y \in Nat /\ written \subseteq Nat /\ written' = written \cup {y} /\ \A w \in written : w < y
  BY DEF Row, Write, DstInv
<1>2. /\ n \in Nat /\ n <= y
      /\ \A w \in written : w < n
      /\ dst.row = Junk \/ dst.row \in written
      /\ DOMAIN dst.rows = 0 .. n - 1 /\ written \subseteq DOMAIN dst.rows
      /\ \A r \in 0 .. n - 1 :
           IF r \in written THEN dst.rows[r] = r
           ELSE dst.rows[r] \in IF dst.fmt \in {"jpg", "tif"}
                                THEN {Junk} \cup {w \in written : w < r} ELSE {Zero}
  <2>1. /\ n \in Nat /\ (written = {} => n = 0) /\ (written # {} => n - 1 \in written)
        /\ \A w \in written : w < n
        /\ dst.row = Junk \/ dst.row \in written
        /\ FileRight
    BY DEF FileInv
  <2>2. n <= y
    BY <1>1, <2>1
  <2>3. DOMAIN dst.rows = 0 .. n - 1
    BY <2>1 DEF FileRight
  <2> QED BY <2>1, <2>2, <2>3 DEF FileRight
<1>3. Further(n, y) = y
  BY <1>1, <1>2 DEF Further
<1>4. dst' = write_row(dst, y)
  BY DEF Write, WriteRow
<1> DEFINE p == seek_row_write(dst, y)
<1>5. /\ Writer(p) /\ p.fmt = dst.fmt /\ p.width = dst.width
      /\ p.curx = dst.curx /\ p.cury = dst.cury /\ p.pos = dst.pos
      /\ p.scanline = y /\ p.rows = padded
  BY <1>3 DEF seek_row_write, DstInv, Writer
<1>6. dst' = [p EXCEPT !.scanline = p.scanline + 1, !.row = y,
                !.rows = [r \in 0 .. p.scanline |-> IF r = p.scanline THEN y ELSE p.rows[r]]]
  BY <1>4 DEF write_row
<1> HIDE DEF p, padded
<1>7. /\ Writer(dst') /\ dst'.fmt = dst.fmt /\ dst'.width = dst.width
      /\ dst'.curx = dst.curx /\ dst'.cury = dst.cury /\ dst'.pos = dst.pos
      /\ dst'.scanline = y + 1 /\ dst'.row = y /\ dst'.rows = rows
  BY <1>5, <1>6 DEF Writer
<1>8. DstInv'
  BY <1>1, <1>7 DEF DstInv, Writer
<1>9. FileRight'
  <2>1. DOMAIN rows = 0 .. y
    OBVIOUS
  <2>2. ASSUME NEW r \in 0 .. y
        PROVE  IF r \in written' THEN rows[r] = r
               ELSE rows[r] \in IF dst.fmt \in {"jpg", "tif"}
                                THEN {Junk} \cup {w \in written' : w < r} ELSE {Zero}
    <3>1. CASE r = y
      BY <1>1, <3>1
    <3>2. CASE r < n
      <4>1. rows[r] = dst.rows[r] /\ r \in 0 .. n - 1 /\ r # y
        BY <1>1, <1>2, <3>2 DEF padded
      <4> QED BY <1>1, <1>2, <4>1
    <3>3. CASE r # y /\ r >= n
      <4>1. rows[r] = pad /\ r \notin written'
        BY <1>1, <1>2, <3>3 DEF padded
      <4>2. pad \in IF dst.fmt \in {"jpg", "tif"}
                   THEN {Junk} \cup {w \in written : w < r} ELSE {Zero}
        <5>1. CASE dst.fmt \in {"jpg", "tif"}
          <6>1. pad = dst.row
            BY <5>1 DEF Padding
          <6>2. \A w \in written : w < r
            BY <1>1, <1>2, <3>3
          <6> QED BY <1>2, <5>1, <6>1, <6>2
        <5>2. CASE dst.fmt \notin {"jpg", "tif"}
          BY <5>2 DEF Padding
        <5> QED BY <5>1, <5>2
      <4> QED BY <1>1, <4>1, <4>2
    <3> QED BY <1>1, <1>2, <3>1, <3>2, <3>3
  <2> HIDE DEF rows
  <2>3. DOMAIN dst'.rows = 0 .. y /\ dst'.scanline - 1 = y
    BY <1>1, <1>7, <2>1
  <2>4. written' \subseteq 0 .. y
    BY <1>1
  <2>5. \A r \in DOMAIN dst'.rows :
          IF r \in written' THEN dst'.rows[r] = r
          ELSE dst'.rows[r] \in IF dst'.fmt \in {"jpg", "tif"}
                               THEN {Junk} \cup {w \in written' : w < r} ELSE {Zero}
    BY <1>7, <2>2, <2>3
  <2> QED BY <2>3, <2>4, <2>5 DEF FileRight
<1>10. FileInv'
  BY <1>1, <1>7, <1>9 DEF FileInv
<1> QED BY <1>8, <1>10

-----------------------------------------------------------------------------
(* The inductive invariant holds for both pictures and for every sequence  *)
(* of rows and spans (libpic/dump.c:107-186, pnm.c:259-317).               *)
THEOREM InvInvariant == Spec => []Inv
<1>1. Init => Inv
  BY InitInv
<1>2. Inv /\ [Next]_vars => Inv'
  <2> SUFFICES ASSUME Inv, [Next]_vars PROVE Inv'
    OBVIOUS
  <2> USE DEF Inv
  <2>1. CASE (\E nchan \in {1, 3} : SetChannels(nchan)) \/ (\E b \in Box : SetPlace(b))
    <3>1. UNCHANGED <<src, asked>>
      BY <2>1 DEF SetChannels, SetPlace
    <3>2. SrcInv'
      BY <3>1 DEF SrcInv, Reader, Behind
    <3> QED BY <2>1, <3>2, SetInv
  <2>2. ASSUME NEW y \in Row, NEW s \in Span, Read(y, s) PROVE Inv'
    <3>1. UNCHANGED <<dst, written>>
      BY <2>2 DEF Read
    <3>2. DstInv' /\ FileInv'
      BY <3>1 DEF DstInv, Writer, FileInv, FileRight
    <3> QED BY <2>2, <3>2, ReadInv
  <2>3. ASSUME NEW y \in Row, NEW s \in Span, Write(y, s) PROVE Inv'
    <3>1. UNCHANGED <<src, asked>>
      BY <2>3 DEF Write
    <3>2. SrcInv'
      BY <3>1 DEF SrcInv, Reader, Behind
    <3> QED BY <2>3, <3>2, WriteDumpInv, WriteFileInv
  <2>4. CASE UNCHANGED vars
    <3>1. UNCHANGED <<src, dst, asked, written>>
      BY <2>4 DEF vars
    <3> QED BY <3>1 DEF SrcInv, Reader, Behind, DstInv, Writer, FileInv, FileRight
  <2> QED BY <2>1, <2>2, <2>3, <2>4 DEF Next
<1> QED BY <1>1, <1>2, PTL DEF Spec

(* Whatever top-down program uses it, every device delivers the row it was *)
(* asked for.                                                              *)
THEOREM RowsAreRight == Spec => []RowRight
<1>1. Inv => RowRight
  BY DEF Inv, SrcInv, Behind, RowRight
<1> QED BY <1>1, InvInvariant, PTL

(* And keeps in its file every row written, under its number.              *)
THEOREM FilesAreRight == Spec => []FileRight
<1>1. Inv => FileRight
  BY DEF Inv, FileInv, FileRight
<1> QED BY <1>1, InvInvariant, PTL

(* And dump never believes to be elsewhere than where its file is.         *)
THEOREM PositionsAreRight == Spec => []PositionRight
<1>1. Inv => PositionRight
  BY DEF Inv, SrcInv, DstInv, Behind, PositionRight
<1> QED BY <1>1, InvInvariant, PTL
=============================================================================
