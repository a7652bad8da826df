----------------------------- MODULE ZoomFiles -----------------------------
(***************************************************************************)
(* The program: zoom/zoom_main.c opens two picture files, finds windows    *)
(* and mapping from its options, runs one of the scan loops and closes the *)
(* files.  The loops are those of FilteredZoom and UnfilteredZoom, the     *)
(* files those of PicFile.                                                 *)
(***************************************************************************)
EXTENDS ZoomScan, PicFile, Sequences

CONSTANTS Jobs,            \* command lines
          Width, Height,   \* size of the source picture
          Beyond,          \* as in UnfilteredZoom
          Boxes, Rows, Spans   \* as in TopDown

-----------------------------------------------------------------------------
(***************************************************************************)
(* A window in one dimension: first line, last line and their number.      *)
(* -s and -d give the first and the number, -sw and -dw the first and the  *)
(* last; an option leaves alone what it does not give.                     *)
(***************************************************************************)

(* The last line an option by itself asks for.                             *)
End(o) == IF o.sized THEN o.lo + o.v - 1 ELSE o.v

(* The last of the options that gives a number, or an end; 0: none does.   *)
LastOf(opts, sized) ==
  CHOOSE i \in 0 .. Len(opts) :
    /\ i > 0 => opts[i].sized = sized
    /\ \A k \in 1 .. Len(opts) : opts[k].sized = sized => k <= i

GivenBy(opts) ==
  LET s == LastOf(opts, TRUE)
      e == LastOf(opts, FALSE)
  IN  [lo |-> opts[Len(opts)].lo,
       hi |-> IF e = 0 THEN UNDEF ELSE opts[e].v,
       n  |-> IF s = 0 THEN 0 ELSE opts[s].v]

SetMax(w)  == [w EXCEPT !.hi = w.lo + w.n - 1]
SetSize(w) == [w EXCEPT !.n = w.hi - w.lo + 1]

Complete(w) == IF w.hi = UNDEF THEN SetMax(w) ELSE w

(* The source window is the whole picture, the destination window equals   *)
(* the source window, unless options give them.                            *)
SourceWindow(opts, size) ==
  SetSize(IF opts = <<>> THEN [lo |-> 0, hi |-> size - 1, n |-> 0] ELSE Complete(GivenBy(opts)))
DestWindow(opts, a) == IF opts = <<>> THEN a ELSE SetSize(Complete(GivenBy(opts)))

Slower(p, q) == p.sn * q.sd < q.sn * p.sd

(* Fault: the larger scale is used for both dimensions.                    *)
SquaredLarger(own, other) == IF Slower(own, other) THEN other ELSE own

(* -square: the smaller scale is used for both dimensions.                 *)
Squared(own, other) == IF Slower(other, own) THEN other ELSE own

(* -intscale: a scale above 1 is rounded down to an integer.               *)
Whole(s) == IF s.sn > s.sd THEN [sn |-> s.sn \div s.sd, sd |-> 1] ELSE s

(* zoom_opt in one dimension, from window a to window b, where the other   *)
(* dimension has this scale: the mapping, and the last line of b.          *)
ZoomOpt(a, b, other, square, intscale) ==
  LET own == [sn |-> b.n, sd |-> a.n]
      sq  == IF square THEN Squared(own, other) ELSE own
      s   == IF intscale THEN Whole(sq) ELSE sq
      n   == IF s = own THEN b.n ELSE CeilDiv(a.n * s.sn, s.sd)
  IN  [sn |-> s.sn, sd |-> s.sd, last |-> b.lo + n - 1,
       T |-> s.sd * (2 * b.lo - 1) - s.sn * (2 * a.lo - 1)]

(***************************************************************************)
(* What a command line asks of zoom_continuous in each dimension, with a   *)
(* mapping and a filter of its own.  Only the y request drives a scan      *)
(* loop; of the x request come the columns and their weight tables.        *)
(***************************************************************************)
DimRequest(job, dim, a, b, other, size) ==
  LET z == IF job.map = <<>> THEN ZoomOpt(a, b, other, job.square, job.intscale)
           ELSE LET m == job.map[1][dim]
                IN  [sn |-> m.sn, sd |-> m.sd, T |-> m.T, last |-> b.hi]
      f == job.filt[dim]
  IN  [sn |-> z.sn, sd |-> z.sd, T |-> z.T,
       F |-> f.F, cardinal |-> f.cardinal, lobes |-> f.lobes, coerce |-> job.coerce,
       a0 |-> a.lo, a1 |-> a.hi, b0 |-> b.lo, b1 |-> z.last,
       ah |-> size, bh |-> UNDEF, same |-> FALSE, xover |-> FALSE, xpoint |-> FALSE,
       xtables |-> {"line"}]

Scale(a, b) == [sn |-> b.n, sd |-> a.n]

XRequest(job) ==
  LET ax == SourceWindow(job.sx, Width)   bx == DestWindow(job.dx, ax)
      ay == SourceWindow(job.sy, Height)  by_ == DestWindow(job.dy, ay)
  IN  DimRequest(job, "x", ax, bx, Scale(ay, by_), Width)

RequestOf(job) ==
  LET ax == SourceWindow(job.sx, Width)   bx == DestWindow(job.dx, ax)
      ay == SourceWindow(job.sy, Height)  by_ == DestWindow(job.dy, ay)
  IN  [DimRequest(job, "y", ay, by_, Scale(ax, bx), Height) EXCEPT
         !.xpoint = IsPoint(XRequest(job)), !.xtables = XTables(XRequest(job))]

(* The columns read and written, after the clipping.                       *)
Columns(x) ==
  [ax0 |-> SrcFirst(x), anx |-> SrcLast(x) - SrcFirst(x) + 1,
   bx0 |-> DstFirst(x), bnx |-> DstLast(x) - DstFirst(x) + 1]

(* Command lines for pictures that are not empty, whose columns are not    *)
(* all clipped away, and whose destination begins inside its picture.  No  *)
(* -sw or -dw ends at the line that stands for no end: the program tells   *)
(* by it that none was given (zoom_main.c:243).                            *)
Given == Seq([sized : BOOLEAN, lo : Int, v : Int])
EndsGiven(opts) == \A i \in 1 .. Len(opts) : ~opts[i].sized => opts[i].v # UNDEF

JobOK(job) ==
  LET x == XRequest(job)
      y == RequestOf(job)
      c == Columns(x)
  IN  /\ job.src \in Readable /\ job.dst \in Readable \cup Writable /\ job.nchan \in {1, 3}
      /\ job.sx \in Given /\ job.dx \in Given /\ job.sy \in Given /\ job.dy \in Given
      /\ EndsGiven(job.sx) /\ EndsGiven(job.dx) /\ EndsGiven(job.sy) /\ EndsGiven(job.dy)
      /\ y.b0 >= 0
      /\ x \in Request /\ x.b0 >= 0 /\ ~NothingToDo(x)
      /\ [x0 |-> c.bx0, y0 |-> DstFirst(y), nx |-> c.bnx, ny |-> DstLast(y) - DstFirst(y) + 1]
           \in Boxes
      /\ SrcFirst(y) .. SrcLast(y) \subseteq Rows /\ DstFirst(y) .. DstLast(y) \subseteq Rows
      /\ [x0 |-> c.ax0, nx |-> c.anx] \in Spans /\ [x0 |-> c.bx0, nx |-> c.bnx] \in Spans

ASSUME JobsAssumption ==
  /\ Width \in Nat \ {0} /\ Height \in Nat \ {0}
  /\ {RequestOf(job) : job \in Jobs} \subseteq Requests
  /\ \A job \in Jobs : JobOK(job)

-----------------------------------------------------------------------------
VARIABLES
  job,                         \* the command line
  cols,                        \* the columns read and written
  stage,                       \* where main is
  src, dst,                    \* the two files
  asked,                       \* source row read last
  win, ayf, linebuf, accum,    \* as in FilteredZoom
  ayold, abuf                  \* as in UnfilteredZoom

filtVars == <<win, ayf, linebuf, accum>>
unfiltVars == <<ayold, abuf>>
fileVars == <<src, dst, asked>>
vars == <<scanVars, job, cols, stage, fileVars, filtVars, unfiltVars>>

F == INSTANCE FilteredZoom
U == INSTANCE UnfilteredZoom

Unfiltered == IsPoint(req) /\ req.xpoint

Init ==
  /\ job \in Jobs
  /\ req = RequestOf(job)
  /\ cols = Columns(XRequest(job))
  /\ ScanStart /\ F!NoLines /\ U!NoLine
  /\ stage = "open"
  /\ src = OpenRead(job.src, job.nchan, Width, Height)
  /\ dst = OpenWrite(job.dst)
  /\ asked = -1

(* Both files open; the destination gets the channels of the source.       *)
Open ==
  /\ stage = "open"
  /\ job.dst \in Writable
  /\ stage' = "zoom"
  /\ dst' = SetNchan(dst, src.nchan)
  /\ UNCHANGED <<scanVars, job, cols, src, asked, filtVars, unfiltVars>>

(* A format that cannot be written.                                        *)
CannotOpen ==
  /\ stage = "open"
  /\ job.dst \notin Writable
  /\ stage' = "exit1"
  /\ UNCHANGED <<scanVars, job, cols, fileVars, filtVars, unfiltVars>>

(* zoom_continuous tells the destination its window, unless a scale is not *)
(* positive ...                                                            *)
SetWindow ==
  dst' = IF req.sn <= 0 THEN dst
         ELSE SetBox(dst, cols.bx0, DstFirst(req), cols.bnx, DstLast(req) - DstFirst(req) + 1)

(* ... and returns if there is nothing to do, or enters one of the loops.  *)
Enter ==
  /\ stage = "zoom"
  /\ SetWindow
  /\ \/ F!Skip /\ NothingToDo(req) /\ UNCHANGED unfiltVars
     \/ F!Setup /\ UNCHANGED unfiltVars
     \/ U!Setup /\ UNCHANGED filtVars
  /\ UNCHANGED <<job, cols, stage, src, asked>>

(* The destination has its window, and make_weighttab gives up the process *)
(* over a column, before any line is read.                                 *)
GiveUpColumns ==
  /\ stage = "zoom"
  /\ SetWindow
  /\ F!ColumnsFail
  /\ stage' = "exit1"
  /\ UNCHANGED <<job, cols, src, asked, unfiltVars>>

(* The steps of the loops that leave the files alone.                      *)
Compute ==
  /\ stage = "zoom"
  /\ \/ ~Unfiltered /\ (F!BeginLine \/ F!UseLine \/ F!Finish) /\ UNCHANGED unfiltVars
     \/ Unfiltered /\ (U!KeepLine \/ U!Finish) /\ UNCHANGED filtVars
  /\ UNCHANGED <<job, cols, stage, fileVars>>

(* make_weighttab gives up the process over a line.                        *)
GiveUp ==
  /\ stage = "zoom"
  /\ ~Unfiltered /\ (F!NullFilter \/ F!WeightOverflow)
  /\ stage' = "exit1"
  /\ UNCHANGED <<job, cols, fileVars, unfiltVars>>

(* A source line is read.                                                  *)
Read ==
  /\ stage = "zoom"
  /\ \/ ~Unfiltered /\ F!ReadLine /\ asked' = geo.a0 + ayf /\ UNCHANGED unfiltVars
     \/ Unfiltered /\ U!ReadLine /\ asked' = geo.a0 + ayold' /\ UNCHANGED filtVars
  /\ src' = ReadRow(src, asked', cols.ax0, cols.anx)
  /\ UNCHANGED <<job, cols, stage, dst>>

(* A destination line is written.                                          *)
Write ==
  /\ stage = "zoom"
  /\ CanWrite(dst)
  /\ \/ ~Unfiltered /\ F!WriteLine /\ UNCHANGED unfiltVars
     \/ Unfiltered /\ U!WriteLine /\ UNCHANGED filtVars
  /\ dst' = WriteRow(dst, geo.b0 + by, cols.bx0, cols.bnx)
  /\ UNCHANGED <<job, cols, stage, src, asked>>

(* The device refuses the first one: bmp aborts, jpg exits.                *)
CannotWrite ==
  /\ stage = "zoom"
  /\ ~CanWrite(dst)
  /\ pc = "write" \/ (pc = "taps" /\ ayf = win.i1)
  /\ stage' = IF dst.fmt = "bmp" THEN "crash" ELSE "exit1"
  /\ UNCHANGED <<scanVars, job, cols, fileVars, filtVars, unfiltVars>>

(* main closes the source first, then the destination.                     *)
CloseSource ==
  /\ stage = "zoom" /\ pc = "done"
  /\ stage' \in CloseRead(src)
  /\ UNCHANGED <<scanVars, job, cols, fileVars, filtVars, unfiltVars>>

CloseDest ==
  /\ stage = "closed"
  /\ stage' \in {IF how = "closed" THEN "exit0" ELSE how : how \in CloseWrite(dst)}
  /\ UNCHANGED <<scanVars, job, cols, fileVars, filtVars, unfiltVars>>

Over == stage \in {"exit0", "exit1", "crash"}
Ended == Over /\ UNCHANGED vars

Next ==
  \/ Open \/ CannotOpen \/ Enter \/ GiveUpColumns \/ Compute \/ GiveUp
  \/ Read \/ Write \/ CannotWrite \/ CloseSource \/ CloseDest \/ Ended

Spec == Init /\ [][Next]_vars
FairSpec == Spec /\ WF_vars(Next)

-----------------------------------------------------------------------------
(* A line of the destination got its weights from the middle of its window *)
(* for want of any (zoom.c:775); the lines after it may need source lines  *)
(* before that one, which sequential readers do not bring back.            *)
Backwards == geo # Empty /\ Trimmed(geo)

(* Every row that reaches the scan loop is the row it asked for, and from  *)
(* the right column on; but png and bmp index color rows by the column,    *)
(* not by three times the column (png.c:299, bmp.c:523).                   *)
SourceRight ==
  asked >= 0 =>
    /\ \/ src.row = (IF src.fmt = "gif" /\ src.nchan = 1 THEN Zero ELSE asked)
       \/ Backwards
    /\ \/ ReadStart(src, cols.ax0) = src.nchan * cols.ax0
       \/ cols.ax0 > 0 /\ src.nchan = 3 /\ src.fmt \in {"png", "bmp", "bmpup"}

(* The destination is in its file when the program is over: it finished,   *)
(* or it exited and the rest of the file was only waiting in stdio.        *)
Saved ==
  /\ linewritten # {} /\ pc = "done"
  /\ stage = "exit0" \/ (stage = "exit1" /\ Flushed(dst))

(* A destination that is saved holds every row of the valid window as it   *)
(* was computed, black rows around them, and is as large as they need.     *)
(* Except: dump forgets the origin of the window (dump.c:169), jpg and tif *)
(* pad with a buffer nobody cleared (jpg.c:150, tif.c:166), and all but    *)
(* pnm and dump misplace color pixels beside the edge (jpg.c:187).         *)
SavedRight ==
  Saved =>
    /\ \A y \in linewritten :
         /\ Key(dst, y, cols.bx0) \in DOMAIN dst.rows
         /\ dst.rows[Key(dst, y, cols.bx0)] = y
         /\ \/ InHeader(dst, y, cols.bx0, cols.bnx)
            \/ dst.fmt = "dump" /\ (geo.b0 > 0 \/ cols.bx0 > 0)
    /\ dst.fmt # "dump" =>
         /\ DOMAIN dst.rows = 0 .. dst.height - 1
         /\ \A r \in DOMAIN dst.rows \ linewritten :
              dst.rows[r] = Zero \/ dst.fmt \in {"jpg", "tif"}
    /\ WriteStart(dst, cols.bx0) = dst.nchan * cols.bx0
         \/ (cols.bx0 > 0 /\ dst.nchan = 3 /\ dst.fmt \notin {"dump", "pnm"})

(* The only ways to lose a destination: there is nothing to write; no      *)
(* weights to compute it, because a filter was made narrower after the     *)
(* windows were clipped for it (zoom.c:631-633) or has negative lobes that *)
(* the edge of the source may unbalance (zoom.c:784), in either dimension; *)
(* a format or grey that its device cannot write; and the source, closed   *)
(* first (zoom_main.c:307): png always, and jpg if its last row was not    *)
(* needed, when jpg, png or tif have yet to finish.                        *)
LostOnlyIf ==
  Over /\ ~Saved =>
    \/ NothingToDo(req)
    \/ pc = "null" /\ Coerced(req)
    \/ pc = "overflow" /\ req.lobes /\ ~Coerced(req)
    \/ pc = "xnull" /\ Coerced(XRequest(job))
    \/ pc = "xoverflow" /\ XRequest(job).lobes /\ ~Coerced(XRequest(job))
    \/ job.dst \notin Writable
    \/ job.nchan = 1 /\ job.dst \in {"jpg", "bmp"}
    \/ job.src = "png"
    \/ job.src = "jpg" /\ asked < Height - 1 /\ ~Flushed(dst)

(* Whatever -square and -intscale make of the scales, and however windows  *)
(* are given, no row is written outside the window asked for last; but a   *)
(* -d inherits the end of a -dw before it (zoom_main.c:139, 247).          *)
WithinAsked ==
  job.map = <<>> /\ job.dy # <<>> =>
    LET k == Len(job.dy)
    IN  \A y \in linewritten :
          /\ job.dy[k].lo <= y
          /\ \E i \in 1 .. k : /\ i = k \/ ~job.dy[i].sized
                               /\ y <= End(job.dy[i])

(* For the files the program is a client that reads and writes top-down.   *)
Client == INSTANCE TopDown WITH
  written <- linewritten,
  Sizes <- {[width |-> Width, height |-> Height]}

(* (and the source is only read backwards for want of weights).            *)
ImplementsTopDown == Client!Init /\ [][Client!Next \/ Backwards]_(Client!vars)

(* The program comes to an end.                                            *)
Terminates == <>Over
=============================================================================
