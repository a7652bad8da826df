------------------------------- MODULE TopDown -------------------------------
(***************************************************************************)
(* The contract between a program and the pictures it uses: whoever reads  *)
(* and writes rows downwards, no row twice, and sets the parameters of a   *)
(* picture before the first row (pic.3:75, 95-96), reads the rows it asks  *)
(* for and finds in the file the rows it wrote.                            *)
(***************************************************************************)
EXTENDS PicFile

CONSTANTS
  Sizes,        \* sizes of the pictures that are read
  Boxes,        \* boxes set on those that are written
  Rows, Spans   \* rows, and parts of rows, that are read and written

(* Of these the ones that make sense.                                      *)
Size == Sizes \cap [width : Nat \ {0}, height : Nat \ {0}]
Box  == Boxes \cap [x0 : Nat, y0 : Nat, nx : Int, ny : Int]
Row  == Rows \cap Nat
Span == Spans \cap [x0 : Nat, nx : Nat \ {0}]

VARIABLES
  src, dst,     \* the records of the two devices
  asked,        \* the row read last, -1 before the first
  written       \* the rows written

vars == <<src, dst, asked, written>>

Init ==
  /\ \E fmt \in Readable, nchan \in {1, 3}, s \in Size :
       src = OpenRead(fmt, nchan, s.width, s.height)
  /\ \E fmt \in Readable \cup Writable : dst = OpenWrite(fmt)
  /\ asked = -1
  /\ written = {}

SetChannels(nchan) ==
  /\ written = {}
  /\ dst' = SetNchan(dst, nchan)
  /\ UNCHANGED <<src, asked, written>>

SetPlace(b) ==
  /\ written = {}
  /\ dst' = SetBox(dst, b.x0, b.y0, b.nx, b.ny)
  /\ UNCHANGED <<src, asked, written>>

Read(y, s) ==
  /\ asked < y /\ y < src.height
  /\ s.x0 + s.nx <= src.width
  /\ src' = ReadRow(src, y, s.x0, s.nx)
  /\ asked' = y
  /\ UNCHANGED <<dst, written>>

Write(y, s) ==
  /\ dst.width > 0 /\ CanWrite(dst)
  /\ \A r \in written : r < y
  /\ dst' = WriteRow(dst, y, s.x0, s.nx)
  /\ written' = written \cup {y}
  /\ UNCHANGED <<src, asked>>

Next ==
  \/ \E nchan \in {1, 3} : SetChannels(nchan)
  \/ \E b \in Box : SetPlace(b)
  \/ \E y \in Row, s \in Span : Read(y, s) \/ Write(y, s)

Spec == Init /\ [][Next]_vars

-----------------------------------------------------------------------------
(* The row a device delivers is the row it was asked for, although each    *)
(* one counts rows or caches positions in its own way; but a grey gif is   *)
(* all zero (pnm.c:278-349, jpg.c:241-287, dump.c:257-308, gif.c:216).     *)
RowRight ==
  asked >= 0 => src.row = IF src.fmt = "gif" /\ src.nchan = 1 THEN Zero ELSE asked

(* A file holds every row written under its own number, padding before     *)
(* and between them, and nothing else (pnm.c:184-238, tif.c:163-211); the  *)
(* padding is black except in jpg and tif.                                 *)
FileRight ==
  dst.fmt # "dump" =>
    /\ DOMAIN dst.rows = 0 .. dst.scanline - 1
    /\ written \subseteq DOMAIN dst.rows
    /\ \A r \in DOMAIN dst.rows :
         IF r \in written THEN dst.rows[r] = r
         ELSE dst.rows[r] \in IF dst.fmt \in {"jpg", "tif"}
                              THEN {Junk} \cup {w \in written : w < r} ELSE {Zero}

(* The position dump has cached is where its files are (dump.c:288-308).   *)
PositionRight ==
  \A d \in {src, dst} : d.fmt = "dump" => d.pos = d.cury * d.width + d.curx
=============================================================================
