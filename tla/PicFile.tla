------------------------------ MODULE PicFile ------------------------------
(***************************************************************************)
(* The picture file devices of libpic: dump, pnm, jpg, png, gif, tif, bmp. *)
(* Each keeps a record of where it is in its file; the operations below    *)
(* are what its procedures do to that record.                              *)
(*                                                                         *)
(* A row is abstracted to its number, and where its pixels start in it to  *)
(* a count of bytes.  A row that nobody wrote is Zero, or Junk if it comes *)
(* from a buffer that was never cleared.                                   *)
(***************************************************************************)
EXTENDS Integers

CONSTANTS Zero, Junk

ASSUME PaddingAssumption == Zero \notin Int /\ Junk \notin Int /\ Zero # Junk

(* The devices that can be read and written; "bmpup" is a BMP file whose   *)
(* first row is the bottom one, the usual kind.                            *)
Readable == {"dump", "pnm", "jpg", "png", "gif", "tif", "bmp", "bmpup"}
Writable == {"dump", "pnm", "jpg", "png", "tif", "bmp"}

UNSET == -239        \* PIXEL_UNDEFINED

Further(x, y) == IF x < y THEN y ELSE x

(* What the devices keep: size, number of the next row of the file, what   *)
(* the row buffer holds; of dump the cached position and that of the file, *)
(* in pixels behind the header.                                            *)
OpenRead(fmt, nchan, width, height) ==
  [fmt |-> fmt, nchan |-> nchan, width |-> width, height |-> height,
   scanline |-> 0, row |-> Junk, curx |-> 0, cury |-> 0, pos |-> 0]

(* A picture opened for writing has no size yet and an empty file, which   *)
(* is a function from row numbers (dump: positions) to what they hold.     *)
OpenWrite(fmt) ==
  [fmt |-> fmt, nchan |-> 3, width |-> UNSET, height |-> UNSET,
   scanline |-> 0, row |-> Junk, curx |-> 0, cury |-> 0, pos |-> 0,
   rows |-> [r \in {} |-> r]]

-----------------------------------------------------------------------------
(* Fault: whatever is transferred counts as a whole line.                  *)
dump_advanceWholeLine(d, nx) == [d EXCEPT !.pos = @ + nx, !.curx = 0, !.cury = @ + 1]

(* dump caches its position in the file and seeks only if it has to.       *)
dump_advance(d, nx) ==
  LET past == d.curx + nx >= d.width
  IN  [d EXCEPT !.pos = @ + nx,
                !.curx = IF past THEN @ + nx - d.width ELSE @ + nx,
                !.cury = IF past THEN @ + 1 ELSE @]

dump_jump_to_pixel(d, x, y) ==
  IF x = d.curx /\ y = d.cury THEN d
  ELSE [d EXCEPT !.curx = x, !.cury = y, !.pos = y * d.width + x]

dump_read_row(d, y, x0, nx) ==
  LET p == dump_jump_to_pixel(d, x0, y)
  IN  [dump_advance(p, nx) EXCEPT !.row = p.pos \div d.width]

(* pnm skips rows up to y, and reads the next one whatever its number.     *)
pnm_read_row(d, y) ==
  LET n == Further(d.scanline, y) IN [d EXCEPT !.scanline = n + 1, !.row = n]

(* jpg, png, tif and bmp from the top decode rows into their buffer until  *)
(* row y is there; a row they have passed is not brought back.             *)
seek_row_read(d, y) ==
  IF d.scanline <= y THEN [d EXCEPT !.scanline = y + 1, !.row = y] ELSE d

(* bmp from the bottom seeks to the row, counted from the end of the file. *)
bmp_seek_row_read(d, y) ==
  LET fromBottom == d.height - (y + 1)
  IN  [d EXCEPT !.scanline = y + 1, !.row = d.height - 1 - fromBottom]

(* gif has the whole image in memory, but no grey pictures: they are 0.    *)
gif_read_row(d, y) == [d EXCEPT !.row = IF d.nchan = 1 THEN Zero ELSE y]

(* pic_read_row or pic_read_row_rgba, by the number of channels.           *)
ReadRow(d, y, x0, nx) ==
  CASE d.fmt = "dump" -> dump_read_row(d, y, x0, nx)
    [] d.fmt = "pnm" -> pnm_read_row(d, y)
    [] d.fmt = "gif" -> gif_read_row(d, y)
    [] d.fmt = "bmpup" -> bmp_seek_row_read(d, y)
    [] OTHER -> seek_row_read(d, y)

(* The byte of the row where the pixels that are delivered start: the      *)
(* color rows of png and bmp are indexed by the column itself.             *)
ReadStart(d, x0) ==
  IF d.nchan = 3 /\ d.fmt \in {"png", "bmp", "bmpup"} THEN x0 ELSE d.nchan * x0

-----------------------------------------------------------------------------
(* Fault: the box ends one row too late.                                   *)
SetBoxInclusive(d, x0, y0, nx, ny) ==
  IF d.fmt = "dump" THEN [d EXCEPT !.width = nx, !.height = ny]
  ELSE [d EXCEPT !.width = x0 + nx, !.height = y0 + ny + 1]

(* pic_set_box: dump ignores the origin, the others extend the picture to  *)
(* the origin of the coordinates.                                          *)
SetBox(d, x0, y0, nx, ny) ==
  IF d.fmt = "dump" THEN [d EXCEPT !.width = nx, !.height = ny]
  ELSE [d EXCEPT !.width = x0 + nx, !.height = y0 + ny]

SetNchan(d, nchan) == [d EXCEPT !.nchan = nchan]

(* gif has no writer.  The first row fails for a grey picture in bmp,      *)
(* which asserts, and in jpg, whose library takes the rows for color.      *)
CanWrite(d) == d.fmt \in Writable /\ (d.nchan = 1 => d.fmt \notin {"bmp", "jpg"})

dump_write_row(d, y, x0, nx) ==
  LET p == dump_jump_to_pixel(d, x0, y)
  IN  [dump_advance(p, nx) EXCEPT
         !.rows = [r \in DOMAIN d.rows \cup {p.pos} |-> IF r = p.pos THEN y ELSE d.rows[r]]]

(* Rows nobody writes: pnm, png and bmp clear the buffer first, jpg and    *)
(* tif put out what it holds.                                              *)
Padding(d) == IF d.fmt \in {"jpg", "tif"} THEN d.row ELSE Zero

(* Fault: the row counter is not moved past the rows that are padded.      *)
seek_row_writeUncounted(d, y) ==
  [d EXCEPT !.rows = [r \in 0 .. Further(d.scanline, y) - 1 |->
                        IF r < d.scanline THEN d.rows[r] ELSE Padding(d)]]

(* Rows that are skipped are written as padding.                           *)
seek_row_write(d, y) ==
  [d EXCEPT !.scanline = Further(@, y),
            !.rows = [r \in 0 .. Further(d.scanline, y) - 1 |->
                        IF r < d.scanline THEN d.rows[r] ELSE Padding(d)]]

(* Then the row itself, wherever the file is by then.                      *)
write_row(d, y) ==
  LET p == seek_row_write(d, y)
  IN  [p EXCEPT !.scanline = @ + 1, !.row = y,
                !.rows = [r \in 0 .. p.scanline |-> IF r = p.scanline THEN y ELSE p.rows[r]]]

WriteRow(d, y, x0, nx) ==
  IF d.fmt = "dump" THEN dump_write_row(d, y, x0, nx) ELSE write_row(d, y)

WriteStart(d, x0) ==
  IF d.nchan = 3 /\ d.fmt \in {"jpg", "png", "tif", "bmp"} THEN x0 ELSE d.nchan * x0

(* Where row y of a file is found by a reader of the same format.          *)
Key(d, y, x0) == IF d.fmt = "dump" THEN y * d.width + x0 ELSE y

(* A pixel row is inside the picture that the header of the file tells of. *)
InHeader(d, y, x0, nx) == y < d.height /\ x0 + nx <= d.width

-----------------------------------------------------------------------------
(* pic_close: jpg wants every row of the picture read or written and gives *)
(* up the process otherwise, png ends a file it has only read as one it    *)
(* wrote, or one without any row; its library then jumps back into         *)
(* picpng_open, which has returned, and anything may happen.               *)
CloseRead(d) ==
  CASE d.fmt = "jpg" /\ d.scanline < d.height -> {"exit1"}
    [] d.fmt = "png" -> {"closed", "crash"}
    [] OTHER -> {"closed"}

CloseWrite(d) ==
  CASE d.fmt = "jpg" /\ (d.scanline = 0 \/ d.scanline < d.height) -> {"exit1"}
    [] d.fmt = "png" /\ d.scanline = 0 -> {"closed", "crash"}
    [] OTHER -> {"closed"}

(* What exit() alone completes, flushing stdio: the libraries of jpg, png  *)
(* and tif have more to write.                                             *)
Flushed(d) == d.fmt \in {"dump", "pnm", "bmp"}
=============================================================================
