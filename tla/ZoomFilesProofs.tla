-------------------------- MODULE ZoomFilesProofs --------------------------
(***************************************************************************)
(* Theorems about the whole program of ZoomFiles, for pictures, windows,   *)
(* mappings and filters of every size and all formats, in exact            *)
(* arithmetic: it uses its files from top to bottom, so it reads the rows  *)
(* it means to and saves the rows it computed; and these stay in the       *)
(* window that was asked for.                                              *)
(*                                                                         *)
(* The proofs put together what is proved of the scan loops (in            *)
(* ExactZoomProofs and UnfilteredZoomProofs) and of the devices (in        *)
(* TopDownProofs), each instantiated here with the program's variables.    *)
(***************************************************************************)
EXTENDS ZoomFiles, ZoomGeometryProofs, WellFoundedInduction,
        SequenceTheorems

(* The requests that the unfiltered loop gets.                             *)
PointRequests == {r \in Requests : IsPoint(r) /\ r.xpoint}

FE == INSTANCE ExactZoomProofs
UP == INSTANCE UnfilteredZoomProofs WITH Requests <- PointRequests
TP == INSTANCE TopDownProofs WITH
  written <- linewritten,
  Sizes <- {[width |-> Width, height |-> Height]}

-----------------------------------------------------------------------------
(***************************************************************************)
(* The instances compute what the definitions of this module compute.      *)
(***************************************************************************)

(* The filtered loop's instance.                                           *)
LEMMA SameInF ==
  /\ \A r : F!IsPoint(r) <=> IsPoint(r)
  /\ \A r : F!NothingToDo(r) <=> NothingToDo(r)
  /\ \A r : F!Widths(r) = Widths(r)
  /\ \A r, wid, low : F!Geometry(r, wid, low) = Geometry(r, wid, low)
  /\ \A g : F!Roundings(g) = Roundings(g)
  /\ \A g : F!ScanOrders(g) = ScanOrders(g)
  /\ \A g, b : F!SourceWindows(g, b) = SourceWindows(g, b)
  /\ \A g, b : F!CutOff(g, b) <=> CutOff(g, b)
<1>1. \A r : F!IsPoint(r) <=> IsPoint(r)
  BY DEF F!IsPoint, IsPoint, F!Coerced, Coerced, F!Offset, Offset, F!Spread, Spread, F!Greatest,
         Greatest, F!DstFirst, DstFirst, F!SrcFirst, SrcFirst, F!FloorDiv, FloorDiv, F!UNDEF,
         UNDEF
<1>2. \A r : F!NothingToDo(r) <=> NothingToDo(r)
  BY DEF F!NothingToDo, NothingToDo, F!SrcFirst, SrcFirst, F!SrcLast, SrcLast, F!DstFirst,
         DstFirst, F!DstLast, DstLast, F!Spread, Spread, F!Greatest, Greatest, F!Least, Least,
         F!FloorDiv, FloorDiv, F!CeilDiv, CeilDiv, F!UNDEF, UNDEF
<1>3. \A r : F!Widths(r) = Widths(r)
  BY SMTT(30) DEF F!Widths, Widths, F!Ceils, Ceils, F!CeilDiv, CeilDiv, F!Unsure, Unsure, F!Spread,
         Spread, F!Greatest, Greatest
<1>4. \A r, wid, low : F!Geometry(r, wid, low) = Geometry(r, wid, low)
  BY DEF F!Geometry, Geometry, F!SrcFirst, SrcFirst, F!SrcLast, SrcLast, F!DstFirst, DstFirst,
         F!DstLast, DstLast, F!Offset, Offset, F!Coerced, Coerced, F!Spread, Spread, F!Greatest,
         Greatest, F!Least, Least, F!FloorDiv, FloorDiv, F!CeilDiv, CeilDiv, F!UNDEF, UNDEF
<1>5. \A g : F!Roundings(g) = Roundings(g)
  BY DEF F!Roundings, Roundings, F!Unsure, Unsure, F!WindowLo, WindowLo
<1>6. \A g : F!ScanOrders(g) = ScanOrders(g)
  BY DEF F!ScanOrders, ScanOrders, F!ScanOrder, ScanOrder, F!SplitPoints, SplitPoints,
         F!TranslateSplit, TranslateSplit, F!MagnifySplits, MagnifySplits, F!MinifySplits,
         MinifySplits, F!LoTruncs, LoTruncs, F!Truncs, Truncs, F!TruncDiv, TruncDiv, F!FloorDiv,
         FloorDiv, F!CeilDiv, CeilDiv, F!Unsure, Unsure, F!WindowLo, WindowLo, F!Greatest,
         Greatest, F!Least, Least, F!Floors, Floors, F!Ceils, Ceils
<1>7. \A g, b : F!SourceWindows(g, b) = SourceWindows(g, b)
  BY DEF F!SourceWindows, SourceWindows, F!FullWindows, FullWindows, F!Weightless, Weightless,
         F!Middle, Middle, F!LoTruncs, LoTruncs, F!HiTruncs, HiTruncs, F!Truncs, Truncs,
         F!TruncDiv, TruncDiv, F!FloorDiv, FloorDiv, F!CeilDiv, CeilDiv, F!Unsure, Unsure,
         F!WindowLo, WindowLo, F!WindowHi, WindowHi, F!Greatest, Greatest, F!Least, Least
<1>8. \A g, b : F!CutOff(g, b) <=> CutOff(g, b)
  BY DEF F!CutOff, CutOff, F!WindowLo, WindowLo, F!WindowHi, WindowHi
<1> QED BY <1>1, <1>2, <1>3, <1>4, <1>5, <1>6, <1>7, <1>8

(* That of the theorems on the filtered loop in exact arithmetic.          *)
LEMMA SameInFE ==
  /\ \A r : FE!SrcFirst(r) = SrcFirst(r)
  /\ \A r : FE!SrcLast(r) = SrcLast(r)
  /\ \A r : FE!DstFirst(r) = DstFirst(r)
  /\ \A r : FE!DstLast(r) = DstLast(r)
  /\ \A r : FE!IsPoint(r) <=> IsPoint(r)
  /\ \A r : FE!Coerced(r) <=> Coerced(r)
  /\ \A r : FE!NothingToDo(r) <=> NothingToDo(r)
  /\ \A r : FE!Widths(r) = Widths(r)
  /\ \A r, wid, low : FE!Geometry(r, wid, low) = Geometry(r, wid, low)
  /\ \A g : FE!Roundings(g) = Roundings(g)
  /\ \A g : FE!ScanOrders(g) = ScanOrders(g)
  /\ \A g, b : FE!SourceWindows(g, b) = SourceWindows(g, b)
  /\ \A g, b : FE!CutOff(g, b) <=> CutOff(g, b)
  /\ \A g : FE!Trimmed(g) <=> Trimmed(g)
<1>1. \A r : FE!SrcFirst(r) = SrcFirst(r)
  BY DEF FE!SrcFirst, SrcFirst, FE!Greatest, Greatest
<1>2. \A r : FE!SrcLast(r) = SrcLast(r)
  BY DEF FE!SrcLast, SrcLast, FE!Least, Least
<1>3. \A r : FE!DstFirst(r) = DstFirst(r)
  BY DEF FE!DstFirst, DstFirst, FE!SrcFirst, SrcFirst, FE!Spread, Spread, FE!Greatest, Greatest,
         FE!FloorDiv, FloorDiv, FE!UNDEF, UNDEF
<1>4. \A r : FE!DstLast(r) = DstLast(r)
  BY DEF FE!DstLast, DstLast, FE!SrcLast, SrcLast, FE!Spread, Spread, FE!Greatest, Greatest,
         FE!Least, Least, FE!CeilDiv, CeilDiv, FE!UNDEF, UNDEF
<1>5. \A r : FE!IsPoint(r) <=> IsPoint(r)
  BY DEF FE!IsPoint, IsPoint, FE!Coerced, Coerced, FE!Offset, Offset, FE!Spread, Spread,
         FE!Greatest, Greatest, FE!DstFirst, DstFirst, FE!SrcFirst, SrcFirst, FE!FloorDiv,
         FloorDiv, FE!UNDEF, UNDEF
<1>6. \A r : FE!NothingToDo(r) <=> NothingToDo(r)
  BY DEF FE!NothingToDo, NothingToDo, FE!SrcFirst, SrcFirst, FE!SrcLast, SrcLast, FE!DstFirst,
         DstFirst, FE!DstLast, DstLast, FE!Spread, Spread, FE!Greatest, Greatest, FE!Least,
         Least, FE!FloorDiv, FloorDiv, FE!CeilDiv, CeilDiv, FE!UNDEF, UNDEF
<1>7. \A r : FE!Widths(r) = Widths(r)
  BY DEF FE!Widths, Widths, FE!Ceils, Ceils, FE!CeilDiv, CeilDiv, FE!Unsure, Unsure, FE!Spread,
         Spread, FE!Greatest, Greatest
<1>8. \A r, wid, low : FE!Geometry(r, wid, low) = Geometry(r, wid, low)
  BY DEF FE!Geometry, Geometry, FE!SrcFirst, SrcFirst, FE!SrcLast, SrcLast, FE!DstFirst,
         DstFirst, FE!DstLast, DstLast, FE!Offset, Offset, FE!Coerced, Coerced, FE!Spread,
         Spread, FE!Greatest, Greatest, FE!Least, Least, FE!FloorDiv, FloorDiv, FE!CeilDiv,
         CeilDiv, FE!UNDEF, UNDEF
<1>9. \A g : FE!Roundings(g) = Roundings(g)
  BY DEF FE!Roundings, Roundings, FE!Unsure, Unsure, FE!WindowLo, WindowLo
<1>10. \A g : FE!ScanOrders(g) = ScanOrders(g)
  BY DEF FE!ScanOrders, ScanOrders, FE!ScanOrder, ScanOrder, FE!SplitPoints, SplitPoints,
         FE!TranslateSplit, TranslateSplit, FE!MagnifySplits, MagnifySplits, FE!MinifySplits,
         MinifySplits, FE!LoTruncs, LoTruncs, FE!Truncs, Truncs, FE!TruncDiv, TruncDiv,
         FE!FloorDiv, FloorDiv, FE!CeilDiv, CeilDiv, FE!Unsure, Unsure, FE!WindowLo, WindowLo,
         FE!Greatest, Greatest, FE!Least, Least, FE!Floors, Floors, FE!Ceils, Ceils
<1>11. \A g, b : FE!SourceWindows(g, b) = SourceWindows(g, b)
  BY DEF FE!SourceWindows, SourceWindows, FE!FullWindows, FullWindows, FE!Weightless,
         Weightless, FE!Middle, Middle, FE!LoTruncs, LoTruncs, FE!HiTruncs, HiTruncs, FE!Truncs,
         Truncs, FE!TruncDiv, TruncDiv, FE!FloorDiv, FloorDiv, FE!CeilDiv, CeilDiv, FE!Unsure,
         Unsure, FE!WindowLo, WindowLo, FE!WindowHi, WindowHi, FE!Greatest, Greatest, FE!Least,
         Least
<1>12. \A g, b : FE!CutOff(g, b) <=> CutOff(g, b)
  BY DEF FE!CutOff, CutOff, FE!WindowLo, WindowLo, FE!WindowHi, WindowHi
<1>13. \A g : FE!Trimmed(g) <=> Trimmed(g)
  BY DEF FE!Trimmed, Trimmed, FE!FullWindows, FullWindows, FE!Weightless, Weightless,
         FE!LoTruncs, LoTruncs, FE!HiTruncs, HiTruncs, FE!Truncs, Truncs, FE!TruncDiv, TruncDiv,
         FE!FloorDiv, FloorDiv, FE!CeilDiv, CeilDiv, FE!Unsure, Unsure, FE!WindowLo, WindowLo,
         FE!WindowHi, WindowHi, FE!Greatest, Greatest, FE!Least, Least
<1>14. \A r : FE!Coerced(r) <=> Coerced(r)
  BY DEF FE!Coerced, Coerced, FE!Offset, Offset, FE!Spread, Spread, FE!Greatest, Greatest,
         FE!DstFirst, DstFirst, FE!SrcFirst, SrcFirst, FE!FloorDiv, FloorDiv, FE!UNDEF, UNDEF
<1> QED BY <1>1, <1>2, <1>3, <1>4, <1>5, <1>6, <1>7, <1>8, <1>9, <1>10, <1>11, <1>12, <1>13, <1>14

(* The unfiltered loop's instance.                                         *)
LEMMA SameInU ==
  /\ \A r : U!IsPoint(r) <=> IsPoint(r)
  /\ \A r : U!NothingToDo(r) <=> NothingToDo(r)
  /\ \A r : U!Widths(r) = Widths(r)
  /\ \A r, wid, low : U!Geometry(r, wid, low) = Geometry(r, wid, low)
  /\ \A g : U!Roundings(g) = Roundings(g)
  /\ \A g : U!ScanOrders(g) = ScanOrders(g)
  /\ \A x, n : U!Truncs(x, n) = Truncs(x, n)
<1>1. \A r : U!IsPoint(r) <=> IsPoint(r)
  BY DEF U!IsPoint, IsPoint, U!Coerced, Coerced, U!Offset, Offset, U!Spread, Spread, U!Greatest,
         Greatest, U!DstFirst, DstFirst, U!SrcFirst, SrcFirst, U!FloorDiv, FloorDiv, U!UNDEF,
         UNDEF
<1>2. \A r : U!NothingToDo(r) <=> NothingToDo(r)
  BY DEF U!NothingToDo, NothingToDo, U!SrcFirst, SrcFirst, U!SrcLast, SrcLast, U!DstFirst,
         DstFirst, U!DstLast, DstLast, U!Spread, Spread, U!Greatest, Greatest, U!Least, Least,
         U!FloorDiv, FloorDiv, U!CeilDiv, CeilDiv, U!UNDEF, UNDEF
<1>3. \A r : U!Widths(r) = Widths(r)
  BY DEF U!Widths, Widths, U!Ceils, Ceils, U!CeilDiv, CeilDiv, U!Unsure, Unsure, U!Spread,
         Spread, U!Greatest, Greatest
<1>4. \A r, wid, low : U!Geometry(r, wid, low) = Geometry(r, wid, low)
  BY DEF U!Geometry, Geometry, U!SrcFirst, SrcFirst, U!SrcLast, SrcLast, U!DstFirst, DstFirst,
         U!DstLast, DstLast, U!Offset, Offset, U!Coerced, Coerced, U!Spread, Spread, U!Greatest,
         Greatest, U!Least, Least, U!FloorDiv, FloorDiv, U!CeilDiv, CeilDiv, U!UNDEF, UNDEF
<1>5. \A g : U!Roundings(g) = Roundings(g)
  BY DEF U!Roundings, Roundings, U!Unsure, Unsure, U!WindowLo, WindowLo
<1>6. \A g : U!ScanOrders(g) = ScanOrders(g)
  BY DEF U!ScanOrders, ScanOrders, U!ScanOrder, ScanOrder, U!SplitPoints, SplitPoints,
         U!TranslateSplit, TranslateSplit, U!MagnifySplits, MagnifySplits, U!MinifySplits,
         MinifySplits, U!LoTruncs, LoTruncs, U!Truncs, Truncs, U!TruncDiv, TruncDiv, U!FloorDiv,
         FloorDiv, U!CeilDiv, CeilDiv, U!Unsure, Unsure, U!WindowLo, WindowLo, U!Greatest,
         Greatest, U!Least, Least, U!Floors, Floors, U!Ceils, Ceils
<1>7. \A x, n : U!Truncs(x, n) = Truncs(x, n)
  BY DEF U!Truncs, Truncs, U!TruncDiv, TruncDiv, U!FloorDiv, FloorDiv, U!CeilDiv, CeilDiv,
         U!Unsure, Unsure
<1> QED BY <1>1, <1>2, <1>3, <1>4, <1>5, <1>6, <1>7

(* That of the theorems on the unfiltered loop.                            *)
LEMMA SameInUP ==
  /\ \A r : UP!SrcFirst(r) = SrcFirst(r)
  /\ \A r : UP!SrcLast(r) = SrcLast(r)
  /\ \A r : UP!DstFirst(r) = DstFirst(r)
  /\ \A r : UP!DstLast(r) = DstLast(r)
  /\ \A r : UP!IsPoint(r) <=> IsPoint(r)
  /\ \A r : UP!NothingToDo(r) <=> NothingToDo(r)
  /\ \A r : UP!Widths(r) = Widths(r)
  /\ \A r, wid, low : UP!Geometry(r, wid, low) = Geometry(r, wid, low)
  /\ \A g : UP!Roundings(g) = Roundings(g)
  /\ \A g : UP!ScanOrders(g) = ScanOrders(g)
  /\ \A x, n : UP!Truncs(x, n) = Truncs(x, n)
<1>1. \A r : UP!SrcFirst(r) = SrcFirst(r)
  BY DEF UP!SrcFirst, SrcFirst, UP!Greatest, Greatest
<1>2. \A r : UP!SrcLast(r) = SrcLast(r)
  BY DEF UP!SrcLast, SrcLast, UP!Least, Least
<1>3. \A r : UP!DstFirst(r) = DstFirst(r)
  BY DEF UP!DstFirst, DstFirst, UP!SrcFirst, SrcFirst, UP!Spread, Spread, UP!Greatest, Greatest,
         UP!FloorDiv, FloorDiv, UP!UNDEF, UNDEF
<1>4. \A r : UP!DstLast(r) = DstLast(r)
  BY DEF UP!DstLast, DstLast, UP!SrcLast, SrcLast, UP!Spread, Spread, UP!Greatest, Greatest,
         UP!Least, Least, UP!CeilDiv, CeilDiv, UP!UNDEF, UNDEF
<1>5. \A r : UP!IsPoint(r) <=> IsPoint(r)
  BY DEF UP!IsPoint, IsPoint, UP!Coerced, Coerced, UP!Offset, Offset, UP!Spread, Spread,
         UP!Greatest, Greatest, UP!DstFirst, DstFirst, UP!SrcFirst, SrcFirst, UP!FloorDiv,
         FloorDiv, UP!UNDEF, UNDEF
<1>6. \A r : UP!NothingToDo(r) <=> NothingToDo(r)
  BY DEF UP!NothingToDo, NothingToDo, UP!SrcFirst, SrcFirst, UP!SrcLast, SrcLast, UP!DstFirst,
         DstFirst, UP!DstLast, DstLast, UP!Spread, Spread, UP!Greatest, Greatest, UP!Least,
         Least, UP!FloorDiv, FloorDiv, UP!CeilDiv, CeilDiv, UP!UNDEF, UNDEF
<1>7. \A r : UP!Widths(r) = Widths(r)
  BY DEF UP!Widths, Widths, UP!Ceils, Ceils, UP!CeilDiv, CeilDiv, UP!Unsure, Unsure, UP!Spread,
         Spread, UP!Greatest, Greatest
<1>8. \A r, wid, low : UP!Geometry(r, wid, low) = Geometry(r, wid, low)
  BY DEF UP!Geometry, Geometry, UP!SrcFirst, SrcFirst, UP!SrcLast, SrcLast, UP!DstFirst,
         DstFirst, UP!DstLast, DstLast, UP!Offset, Offset, UP!Coerced, Coerced, UP!Spread,
         Spread, UP!Greatest, Greatest, UP!Least, Least, UP!FloorDiv, FloorDiv, UP!CeilDiv,
         CeilDiv, UP!UNDEF, UNDEF
<1>9. \A g : UP!Roundings(g) = Roundings(g)
  BY DEF UP!Roundings, Roundings, UP!Unsure, Unsure, UP!WindowLo, WindowLo
<1>10. \A g : UP!ScanOrders(g) = ScanOrders(g)
  BY DEF UP!ScanOrders, ScanOrders, UP!ScanOrder, ScanOrder, UP!SplitPoints, SplitPoints,
         UP!TranslateSplit, TranslateSplit, UP!MagnifySplits, MagnifySplits, UP!MinifySplits,
         MinifySplits, UP!LoTruncs, LoTruncs, UP!Truncs, Truncs, UP!TruncDiv, TruncDiv,
         UP!FloorDiv, FloorDiv, UP!CeilDiv, CeilDiv, UP!Unsure, Unsure, UP!WindowLo, WindowLo,
         UP!Greatest, Greatest, UP!Least, Least, UP!Floors, Floors, UP!Ceils, Ceils
<1>11. \A x, n : UP!Truncs(x, n) = Truncs(x, n)
  BY DEF UP!Truncs, Truncs, UP!TruncDiv, TruncDiv, UP!FloorDiv, FloorDiv, UP!CeilDiv, CeilDiv,
         UP!Unsure, Unsure
<1> QED BY <1>1, <1>2, <1>3, <1>4, <1>5, <1>6, <1>7, <1>8, <1>9, <1>10, <1>11


(* A step of the filtered loop of the program is one of the loop that      *)
(* ExactZoomProofs is about.                                               *)
LEMMA FilteredStep ==
  ASSUME F!Skip \/ F!Setup \/ F!ColumnsFail \/ F!BeginLine \/ F!NullFilter
           \/ F!WeightOverflow \/ F!UseLine \/ F!ReadLine \/ F!WriteLine \/ F!Finish
  PROVE  FE!Next
<1> USE SameInF, SameInFE
<1>1. F!Skip => FE!Skip
  BY DEF F!Skip, FE!Skip
<1>2. F!Setup => FE!Setup
  <2>1. F!Prepare => FE!Prepare
    BY DEF F!Prepare, FE!Prepare
  <2> QED BY <2>1 DEF F!Setup, FE!Setup, F!Unread, FE!Unread
<1>3. F!BeginLine => FE!BeginLine
  BY DEF F!BeginLine, FE!BeginLine, F!by, FE!by, F!Empty, FE!Empty
<1>4. F!NullFilter => FE!NullFilter
  BY DEF F!NullFilter, FE!NullFilter, F!by, FE!by
<1>5. F!WeightOverflow => FE!WeightOverflow
  BY DEF F!WeightOverflow, FE!WeightOverflow, F!by, FE!by
<1>6. F!UseLine => FE!UseLine
  BY DEF F!UseLine, FE!UseLine, F!Cached, FE!Cached, F!Slot, FE!Slot, F!Accumulate, FE!Accumulate,
         F!scanVars, FE!scanVars
<1>7. F!ReadLine => FE!ReadLine
  BY DEF F!ReadLine, FE!ReadLine, F!Cached, FE!Cached, F!Slot, FE!Slot, F!Accumulate, FE!Accumulate,
         F!CheckFeedback, FE!CheckFeedback
<1>8. F!WriteLine => FE!WriteLine
  BY DEF F!WriteLine, FE!WriteLine, F!StoreLine, FE!StoreLine, F!by, FE!by
<1>9. F!Finish => FE!Finish
  BY DEF F!Finish, FE!Finish
<1>10. F!ColumnsFail => FE!ColumnsFail
  BY DEF F!ColumnsFail, FE!ColumnsFail
<1> QED BY <1>1, <1>2, <1>3, <1>4, <1>5, <1>6, <1>7, <1>8, <1>9, <1>10 DEF FE!Next

(* A step of the unfiltered loop is one of the loop that                   *)
(* UnfilteredZoomProofs is about.                                          *)
LEMMA UnfilteredStep ==
  ASSUME U!Skip \/ U!Setup \/ U!KeepLine \/ U!ReadLine \/ U!WriteLine \/ U!Finish
  PROVE  UP!Next
<1> USE SameInU, SameInUP
<1>1. U!Skip => UP!Skip
  BY DEF U!Skip, UP!Skip
<1>2. U!Setup => UP!Setup
  <2>1. U!Prepare => UP!Prepare
    BY DEF U!Prepare, UP!Prepare
  <2> QED BY <2>1 DEF U!Setup, UP!Setup
<1>3. U!KeepLine => UP!KeepLine
  BY DEF U!KeepLine, UP!KeepLine, U!SampledLines, UP!SampledLines, U!by, UP!by
<1>4. U!ReadLine => UP!ReadLine
  BY DEF U!ReadLine, UP!ReadLine, U!SampledLines, UP!SampledLines, U!by, UP!by,
         U!CheckFeedback, UP!CheckFeedback, U!ContentOf, UP!ContentOf
<1>5. U!WriteLine => UP!WriteLine
  BY DEF U!WriteLine, UP!WriteLine, U!StoreLine, UP!StoreLine, U!by, UP!by
<1>6. U!Finish => UP!Finish
  BY DEF U!Finish, UP!Finish
<1> QED BY <1>1, <1>2, <1>3, <1>4, <1>5, <1>6 DEF UP!Next

(* The devices of the abstract client.                                     *)
LEMMA SameFiles ==
  /\ \A d, y, x0, nx : Client!ReadRow(d, y, x0, nx) = ReadRow(d, y, x0, nx)
  /\ \A d, y, x0, nx : Client!WriteRow(d, y, x0, nx) = WriteRow(d, y, x0, nx)
  /\ \A d, x0, y0, nx, ny : Client!SetBox(d, x0, y0, nx, ny) = SetBox(d, x0, y0, nx, ny)
  /\ \A d, nchan : Client!SetNchan(d, nchan) = SetNchan(d, nchan)
  /\ \A d : Client!CanWrite(d) <=> CanWrite(d)
  /\ \A f, n, w, h : Client!OpenRead(f, n, w, h) = OpenRead(f, n, w, h)
  /\ \A f : Client!OpenWrite(f) = OpenWrite(f)
  /\ Client!Readable = Readable /\ Client!Writable = Writable
<1>1. \A d, y, x0, nx : Client!ReadRow(d, y, x0, nx) = ReadRow(d, y, x0, nx)
  BY DEF Client!ReadRow, ReadRow, Client!dump_read_row, dump_read_row, Client!dump_advance,
         dump_advance, Client!dump_jump_to_pixel, dump_jump_to_pixel, Client!pnm_read_row,
         pnm_read_row, Client!gif_read_row, gif_read_row, Client!bmp_seek_row_read,
         bmp_seek_row_read, Client!seek_row_read, seek_row_read, Client!Further, Further
<1>2. \A d, y, x0, nx : Client!WriteRow(d, y, x0, nx) = WriteRow(d, y, x0, nx)
  BY DEF Client!WriteRow, WriteRow, Client!dump_write_row, dump_write_row, Client!dump_advance,
         dump_advance, Client!dump_jump_to_pixel, dump_jump_to_pixel, Client!write_row,
         write_row, Client!seek_row_write, seek_row_write, Client!Padding, Padding,
         Client!Further, Further
<1>3. /\ \A d, x0, y0, nx, ny : Client!SetBox(d, x0, y0, nx, ny) = SetBox(d, x0, y0, nx, ny)
      /\ \A d, nchan : Client!SetNchan(d, nchan) = SetNchan(d, nchan)
  BY DEF Client!SetBox, SetBox, Client!SetNchan, SetNchan
<1>4. Client!Readable = Readable /\ Client!Writable = Writable
  BY DEF Client!Readable, Readable, Client!Writable, Writable
<1>5. \A d : Client!CanWrite(d) <=> CanWrite(d)
  BY <1>4 DEF Client!CanWrite, CanWrite
<1>6. /\ \A f, n, w, h : Client!OpenRead(f, n, w, h) = OpenRead(f, n, w, h)
      /\ \A f : Client!OpenWrite(f) = OpenWrite(f)
  BY DEF Client!OpenRead, OpenRead, Client!OpenWrite, OpenWrite, Client!UNSET, UNSET
<1> QED BY <1>1, <1>2, <1>3, <1>4, <1>5, <1>6

(* The devices of TopDownProofs.                                           *)
LEMMA SameInTP ==
  /\ \A d, y, x0, nx : TP!ReadRow(d, y, x0, nx) = ReadRow(d, y, x0, nx)
  /\ \A d, y, x0, nx : TP!WriteRow(d, y, x0, nx) = WriteRow(d, y, x0, nx)
  /\ \A d, x0, y0, nx, ny : TP!SetBox(d, x0, y0, nx, ny) = SetBox(d, x0, y0, nx, ny)
  /\ \A d, nchan : TP!SetNchan(d, nchan) = SetNchan(d, nchan)
  /\ \A d : TP!CanWrite(d) <=> CanWrite(d)
  /\ \A f, n, w, h : TP!OpenRead(f, n, w, h) = OpenRead(f, n, w, h)
  /\ \A f : TP!OpenWrite(f) = OpenWrite(f)
  /\ TP!Readable = Readable /\ TP!Writable = Writable
<1>1. \A d, y, x0, nx : TP!ReadRow(d, y, x0, nx) = ReadRow(d, y, x0, nx)
  BY DEF TP!ReadRow, ReadRow, TP!dump_read_row, dump_read_row, TP!dump_advance,
         dump_advance, TP!dump_jump_to_pixel, dump_jump_to_pixel, TP!pnm_read_row,
         pnm_read_row, TP!gif_read_row, gif_read_row, TP!bmp_seek_row_read,
         bmp_seek_row_read, TP!seek_row_read, seek_row_read, TP!Further, Further
<1>2. \A d, y, x0, nx : TP!WriteRow(d, y, x0, nx) = WriteRow(d, y, x0, nx)
  BY DEF TP!WriteRow, WriteRow, TP!dump_write_row, dump_write_row, TP!dump_advance,
         dump_advance, TP!dump_jump_to_pixel, dump_jump_to_pixel, TP!write_row,
         write_row, TP!seek_row_write, seek_row_write, TP!Padding, Padding,
         TP!Further, Further
<1>3. /\ \A d, x0, y0, nx, ny : TP!SetBox(d, x0, y0, nx, ny) = SetBox(d, x0, y0, nx, ny)
      /\ \A d, nchan : TP!SetNchan(d, nchan) = SetNchan(d, nchan)
  BY DEF TP!SetBox, SetBox, TP!SetNchan, SetNchan
<1>4. TP!Readable = Readable /\ TP!Writable = Writable
  BY DEF TP!Readable, Readable, TP!Writable, Writable
<1>5. \A d : TP!CanWrite(d) <=> CanWrite(d)
  BY <1>4 DEF TP!CanWrite, CanWrite
<1>6. /\ \A f, n, w, h : TP!OpenRead(f, n, w, h) = OpenRead(f, n, w, h)
      /\ \A f : TP!OpenWrite(f) = OpenWrite(f)
  BY DEF TP!OpenRead, OpenRead, TP!OpenWrite, OpenWrite, TP!UNSET, UNSET
<1> QED BY <1>1, <1>2, <1>3, <1>4, <1>5, <1>6

(* What the loops assume of the requests.                                  *)
LEMMA RequestsTyped ==
  /\ PicHeight \in Nat /\ Dirty \notin Int
  /\ \A r \in Requests : r \in Request
  /\ \A r \in Requests : FE!RequestOK(r)
  /\ \A r \in PointRequests : UP!RequestOK(r)
BY RequestsAssumption
   DEF RequestOK, Request, UNDEF, FE!RequestOK, FE!Request, FE!UNDEF, UP!RequestOK, UP!Request,
       UP!UNDEF, PointRequests

-----------------------------------------------------------------------------
(***************************************************************************)
(* Command lines.                                                          *)
(***************************************************************************)

(* The two pictures of a command line are different ones, and the height   *)
(* of the destination is still open.                                       *)
LEMMA RequestFields ==
  ASSUME NEW j \in Jobs
  PROVE  /\ RequestOf(j) \in Requests /\ RequestOf(j) \in Request
         /\ ~RequestOf(j).same /\ RequestOf(j).bh = UNDEF /\ RequestOf(j).ah = Height
         /\ RequestOf(j).b0 >= 0
         /\ XRequest(j) \in Request /\ ~NothingToDo(XRequest(j))
         /\ XRequest(j).bh = UNDEF /\ XRequest(j).ah = Width
         /\ XRequest(j).b0 >= 0
<1>1. RequestOf(j) \in Requests /\ JobOK(j)
  BY JobsAssumption
<1>2. RequestOf(j) \in Request
  BY <1>1, RequestsTyped
<1>3. ~RequestOf(j).same /\ RequestOf(j).bh = UNDEF /\ RequestOf(j).ah = Height
  BY DEF RequestOf, DimRequest
<1>4. XRequest(j).bh = UNDEF /\ XRequest(j).ah = Width
  BY DEF XRequest, DimRequest
<1> QED BY <1>1, <1>2, <1>3, <1>4 DEF JobOK

(* The columns of the two pictures, and the rows after the clipping.       *)
LEMMA Places ==
  ASSUME NEW j \in Jobs
  PROVE  LET c == Columns(XRequest(j))
             r == RequestOf(j)
         IN  /\ c.ax0 \in Nat /\ c.anx \in Nat \ {0} /\ c.ax0 + c.anx <= Width
             /\ c.bx0 \in Nat /\ c.bnx \in Nat \ {0}
             /\ SrcFirst(r) \in Nat /\ SrcLast(r) \in Int /\ SrcLast(r) < Height
             /\ DstFirst(r) \in Nat /\ DstLast(r) \in Int
             /\ r.b0 \in Int /\ r.b0 <= DstFirst(r) /\ r.b1 \in Int /\ DstLast(r) <= r.b1
<1> DEFINE x == XRequest(j)
           r == RequestOf(j)
<1>1. /\ r \in Request /\ r.bh = UNDEF /\ r.ah = Height /\ r.b0 >= 0
      /\ x \in Request /\ ~NothingToDo(x) /\ x.bh = UNDEF /\ x.ah = Width /\ x.b0 >= 0
  BY RequestFields
<1>2. /\ SrcFirst(r) \in Nat /\ SrcLast(r) \in Int /\ SrcLast(r) < Height
      /\ DstFirst(r) \in Int /\ DstLast(r) \in Int
      /\ r.b0 <= DstFirst(r) /\ DstLast(r) <= r.b1
  BY <1>1, ClippingTyped
<1>3. /\ SrcFirst(x) \in Nat /\ SrcLast(x) \in Int /\ SrcLast(x) < Width
      /\ SrcFirst(x) <= SrcLast(x)
      /\ DstFirst(x) \in Int /\ DstLast(x) \in Int /\ DstFirst(x) <= DstLast(x)
      /\ x.b0 <= DstFirst(x)
  BY <1>1, Clipping, ClippingTyped
<1>4. r.b0 \in Int /\ r.b1 \in Int /\ x.b0 \in Int /\ Width \in Int
  BY <1>1, JobsAssumption DEF Request
<1> HIDE DEF x, r
<1> QED BY <1>1, <1>2, <1>3, <1>4 DEF Columns, x, r

(* What is set of the files, read and written is within their contract.    *)
LEMMA PlacesInContract ==
  ASSUME NEW j \in Jobs
  PROVE  LET c == Columns(XRequest(j))
             r == RequestOf(j)
             b == [x0 |-> c.bx0, y0 |-> DstFirst(r),
                   nx |-> c.bnx, ny |-> DstLast(r) - DstFirst(r) + 1]
             s == [x0 |-> c.ax0, nx |-> c.anx]
             t == [x0 |-> c.bx0, nx |-> c.bnx]
         IN  /\ b \in Client!Box /\ s \in Client!Span /\ t \in Client!Span
             /\ b \in TP!Box /\ s \in TP!Span /\ t \in TP!Span
             /\ SrcFirst(r) .. SrcLast(r) \subseteq Client!Row \cap TP!Row
             /\ DstFirst(r) .. DstLast(r) \subseteq Client!Row \cap TP!Row
<1> DEFINE c == Columns(XRequest(j))
           r == RequestOf(j)
           b == [x0 |-> c.bx0, y0 |-> DstFirst(r), nx |-> c.bnx, ny |-> DstLast(r) - DstFirst(r) + 1]
           s == [x0 |-> c.ax0, nx |-> c.anx]
           t == [x0 |-> c.bx0, nx |-> c.bnx]
<1>1. /\ c.ax0 \in Nat /\ c.anx \in Nat \ {0} /\ c.bx0 \in Nat /\ c.bnx \in Nat \ {0}
      /\ SrcFirst(r) \in Nat /\ SrcLast(r) \in Int
      /\ DstFirst(r) \in Nat /\ DstLast(r) \in Int
  BY Places
<1>2. /\ b \in Boxes /\ s \in Spans /\ t \in Spans
      /\ SrcFirst(r) .. SrcLast(r) \subseteq Rows /\ DstFirst(r) .. DstLast(r) \subseteq Rows
  BY JobsAssumption DEF JobOK
<1> HIDE DEF c, r
<1>3. /\ b \in [x0 : Nat, y0 : Nat, nx : Int, ny : Int]
      /\ s \in [x0 : Nat, nx : Nat \ {0}] /\ t \in [x0 : Nat, nx : Nat \ {0}]
      /\ SrcFirst(r) .. SrcLast(r) \subseteq Nat /\ DstFirst(r) .. DstLast(r) \subseteq Nat
  BY <1>1
<1> HIDE DEF b, s, t
<1>4. /\ b \in Client!Box /\ s \in Client!Span /\ t \in Client!Span
      /\ b \in TP!Box /\ s \in TP!Span /\ t \in TP!Span
      /\ SrcFirst(r) .. SrcLast(r) \subseteq Client!Row \cap TP!Row
      /\ DstFirst(r) .. DstLast(r) \subseteq Client!Row \cap TP!Row
  BY <1>2, <1>3 DEF Client!Box, Client!Span, Client!Row, TP!Box, TP!Span, TP!Row
<1> QED BY <1>4 DEF b, s, t, c, r

-----------------------------------------------------------------------------
(***************************************************************************)
(* The scan loops inside the program.                                      *)
(***************************************************************************)

(* The hypothesis of UnfilteredZoomProofs: no filter gets to the           *)
(* unfiltered loop that was wider than a line when the destination was     *)
(* clipped; but the triangle may be, where it is only moved by whole       *)
(* lines.  A wider one reads outside the source window (zoom.c:629).       *)
CopiesSpreadOneLine == \A r \in PointRequests : UP!SpreadsOneLine(r)

(* What is proved of the loop that the request gets.                       *)
LoopInv ==
  /\ ~Unfiltered => FE!Inv /\ FE!ScanInv /\ FE!ForwardInv
  /\ Unfiltered => UP!Inv

InLoop == pc \in {"line", "taps", "write"}

(* Every step of the program is a step of that loop, or leaves it alone.   *)
LEMMA LoopSteps ==
  ASSUME [Next]_vars
  PROVE  /\ req' = req
         /\ ~Unfiltered => [FE!Next]_(FE!vars)
         /\ Unfiltered => [UP!Next]_(UP!vars)
<1> USE DEF scanVars, filtVars, unfiltVars, Unfiltered
<1> DEFINE filtered == FE!Next
           unfiltered == UP!Next
           Stays == UNCHANGED <<scanVars, filtVars, unfiltVars>>
<1>1. CASE Stays
  BY <1>1 DEF FE!vars, FE!scanVars, UP!vars, UP!scanVars
<1>2. ASSUME \/ F!Skip \/ F!Setup \/ F!ColumnsFail \/ F!BeginLine \/ F!NullFilter
             \/ F!WeightOverflow \/ F!UseLine \/ F!ReadLine \/ F!WriteLine \/ F!Finish
      PROVE  filtered /\ req' = req
  <2>1. filtered
    BY <1>2, FilteredStep
  <2>2. req' = req
    BY <1>2 DEF F!Skip, F!Setup, F!ColumnsFail, F!BeginLine, F!NullFilter, F!WeightOverflow,
                F!UseLine, F!ReadLine, F!WriteLine, F!Finish, F!scanVars
  <2> QED BY <2>1, <2>2
<1>3. ASSUME U!Skip \/ U!Setup \/ U!KeepLine \/ U!ReadLine \/ U!WriteLine \/ U!Finish
      PROVE  unfiltered /\ req' = req
  <2>1. unfiltered
    BY <1>3, UnfilteredStep
  <2>2. req' = req
    BY <1>3 DEF U!Skip, U!Setup, U!KeepLine, U!ReadLine, U!WriteLine, U!Finish
  <2> QED BY <2>1, <2>2
<1> HIDE DEF filtered, unfiltered, Stays
<1> SUFFICES /\ req' = req
             /\ ~Unfiltered => filtered \/ Stays
             /\ Unfiltered => unfiltered \/ Stays
  BY <1>1 DEF filtered, unfiltered
<1>4. CASE Enter
  <2>1. F!Skip /\ NothingToDo(req) /\ UNCHANGED unfiltVars => U!Skip
    BY SameInF, SameInU DEF F!Skip, U!Skip
  <2>2. F!Setup => ~Unfiltered
    BY SameInF DEF F!Setup
  <2>3. U!Setup => Unfiltered
    BY SameInU DEF U!Setup
  <2> QED BY <1>2, <1>3, <1>4, <2>1, <2>2, <2>3 DEF Enter
<1>5. CASE Compute \/ GiveUp \/ Read \/ Write
  BY <1>2, <1>3, <1>5 DEF Compute, GiveUp, Read, Write
<1>6. CASE Open \/ CannotOpen \/ CannotWrite \/ CloseSource \/ CloseDest \/ Ended \/ UNCHANGED vars
  <2>1. Stays
    BY <1>6 DEF Stays, Open, CannotOpen, CannotWrite, CloseSource, CloseDest, Ended, vars
  <2> QED BY <2>1 DEF Stays
<1>7. CASE GiveUpColumns
  <2>1. ~Unfiltered /\ F!ColumnsFail
    BY <1>7, SameInF DEF GiveUpColumns, F!ColumnsFail
  <2> QED BY <1>2, <2>1
<1> QED BY <1>4, <1>5, <1>6, <1>7 DEF Next

(* The program enters the loops as their specifications do.                *)
LEMMA InitLoop == Init => LoopInv
<1> SUFFICES ASSUME Init PROVE LoopInv
  OBVIOUS
<1>1. req \in Requests
  BY JobsAssumption DEF Init
<1>2. ASSUME ~Unfiltered PROVE FE!Inv /\ FE!ScanInv /\ FE!ForwardInv
  <2>1. FE!Init
    BY <1>1 DEF Init, ScanStart, F!NoLines, FE!Init, FE!ScanInit, FE!ScanStart, FE!NoLines, Empty,
                F!Empty, FE!Empty, Lines, FE!Lines
  <2> QED BY <2>1, RequestsTyped, RoundoffAssumption, FE!InitInv, FE!InitScanInv, FE!InitForwardInv
<1>3. ASSUME Unfiltered PROVE UP!Inv
  <2>1. req \in PointRequests
    BY <1>1, <1>3 DEF Unfiltered, PointRequests
  <2>2. UP!Init
    BY <2>1 DEF Init, ScanStart, U!NoLine, UP!Init, UP!ScanInit, UP!ScanStart, UP!NoLine, Empty,
                U!Empty, UP!Empty, Lines, UP!Lines
  <2> QED BY <2>2, RequestsTyped, RoundoffAssumption, UP!InitInv
<1> QED BY <1>2, <1>3 DEF LoopInv

(* In exact arithmetic they stay what they are.                            *)
LEMMA NextLoop ==
  ASSUME ~Roundoff, CopiesSpreadOneLine, LoopInv, [Next]_vars
  PROVE  LoopInv'
<1>1. /\ req' = req
      /\ ~Unfiltered => [FE!Next]_(FE!vars)
      /\ Unfiltered => [UP!Next]_(UP!vars)
  BY LoopSteps
<1>2. Unfiltered' <=> Unfiltered
  BY <1>1 DEF Unfiltered
<1>3. ASSUME ~Unfiltered PROVE (FE!Inv /\ FE!ScanInv /\ FE!ForwardInv)'
  <2>1. FE!Inv /\ FE!ScanInv /\ FE!ForwardInv /\ [FE!Next]_(FE!vars)
    BY <1>1, <1>3 DEF LoopInv
  <2>2. FE!ExactInv
    BY <2>1, RequestsTyped, RoundoffAssumption, FE!ExactScan DEF FE!Inv
  <2> QED BY <2>1, <2>2, RequestsTyped, RoundoffAssumption, FE!NextInv, FE!NextScanInv,
             FE!NextForwardInv
<1>4. ASSUME Unfiltered PROVE UP!Inv'
  <2>1. UP!Inv /\ [UP!Next]_(UP!vars)
    BY <1>1, <1>4 DEF LoopInv
  <2> QED BY <2>1, RequestsTyped, RoundoffAssumption, UP!NextInv DEF CopiesSpreadOneLine
<1> QED BY <1>2, <1>3, <1>4 DEF LoopInv

(* What the program needs to know of both loops: nothing is written before *)
(* they are entered, the windows are the clipped ones, and the lines of    *)
(* the destination are written in order.                                   *)
LEMMA InOrder ==
  ASSUME ~Roundoff, CopiesSpreadOneLine, LoopInv, InLoop, ~req.same
  PROVE  /\ req \in Request /\ ~NothingToDo(req)
         /\ ~geo.overlap
         /\ geo.a0 = SrcFirst(req) /\ geo.an = SrcLast(req) - SrcFirst(req) + 1
         /\ geo.b0 = DstFirst(req) /\ geo.bn = DstLast(req) - DstFirst(req) + 1
         /\ byi \in 0 .. geo.bn
         /\ linewritten = {geo.b0 + i : i \in 0 .. byi - 1}
         /\ byi < geo.bn => by = byi
<1>1. CASE ~Unfiltered
  <2>1. FE!Inv /\ FE!ScanInv
    BY <1>1 DEF LoopInv
  <2>2. FE!ExactInv
    BY <2>1, RequestsTyped, RoundoffAssumption, FE!ExactScan DEF FE!Inv
  <2>3. FE!InLoop
    BY <2>1 DEF InLoop, FE!InLoop, FE!Inv, FE!TypeOK
  <2>4. req \in FE!Request => req \in Request
    BY DEF FE!Request, Request, FE!UNDEF, UNDEF
  <2>5. /\ req \in FE!Request /\ ~FE!NothingToDo(req)
        /\ geo.a0 = FE!SrcFirst(req) /\ geo.an = FE!SrcLast(req) - FE!SrcFirst(req) + 1
        /\ geo.b0 = FE!DstFirst(req) /\ geo.bn = FE!DstLast(req) - FE!DstFirst(req) + 1
        /\ byi \in 0 .. geo.bn
        /\ geo.overlap => req.same
        /\ ~geo.overlap => /\ linewritten = {geo.b0 + i : i \in 0 .. byi - 1}
                           /\ byi < geo.bn => FE!by = byi
    BY <2>1, <2>2, <2>3, RequestsTyped, RoundoffAssumption, FE!WritesInOrder
  <2>6. FE!by = by
    BY DEF by, FE!by
  <2>7. /\ FE!SrcFirst(req) = SrcFirst(req) /\ FE!SrcLast(req) = SrcLast(req)
        /\ FE!DstFirst(req) = DstFirst(req) /\ FE!DstLast(req) = DstLast(req)
        /\ FE!NothingToDo(req) <=> NothingToDo(req)
    BY SameInFE
  <2>8. ~geo.overlap
    BY <2>5
  <2>9. linewritten = {geo.b0 + i : i \in 0 .. byi - 1}
    BY <2>5, <2>8
  <2>10. byi < geo.bn => by = byi
    BY <2>5, <2>6, <2>8
  <2> QED BY <2>4, <2>5, <2>7, <2>8, <2>9, <2>10
<1>2. CASE Unfiltered
  <2>1. UP!Inv
    BY <1>2 DEF LoopInv
  <2>3. UP!InLoop
    BY <2>1 DEF InLoop, UP!InLoop, UP!Inv, UP!TypeOK
  <2>4. req \in UP!Request => req \in Request
    BY DEF UP!Request, Request, UP!UNDEF, UNDEF
  <2>5. /\ req \in UP!Request /\ ~UP!NothingToDo(req)
        /\ geo.a0 = UP!SrcFirst(req) /\ geo.an = UP!SrcLast(req) - UP!SrcFirst(req) + 1
        /\ geo.b0 = UP!DstFirst(req) /\ geo.bn = UP!DstLast(req) - UP!DstFirst(req) + 1
        /\ byi \in 0 .. geo.bn
        /\ geo.overlap => req.same
        /\ ~geo.overlap => /\ linewritten = {geo.b0 + i : i \in 0 .. byi - 1}
                           /\ byi < geo.bn => UP!by = byi
    BY <2>1, <2>3, RequestsTyped, RoundoffAssumption, UP!WritesInOrder
       DEF CopiesSpreadOneLine
  <2>6. UP!by = by
    BY DEF by, UP!by
  <2>7. /\ UP!SrcFirst(req) = SrcFirst(req) /\ UP!SrcLast(req) = SrcLast(req)
        /\ UP!DstFirst(req) = DstFirst(req) /\ UP!DstLast(req) = DstLast(req)
        /\ UP!NothingToDo(req) <=> NothingToDo(req)
    BY SameInUP
  <2>8. ~geo.overlap
    BY <2>5
  <2>9. linewritten = {geo.b0 + i : i \in 0 .. byi - 1}
    BY <2>5, <2>8
  <2>10. byi < geo.bn => by = byi
    BY <2>5, <2>6, <2>8
  <2> QED BY <2>4, <2>5, <2>7, <2>8, <2>9, <2>10
<1> QED BY <1>1, <1>2

-----------------------------------------------------------------------------
(***************************************************************************)
(* What the steps of either loop do to the program.                        *)
(***************************************************************************)

(* What the command line makes of the place of the destination.            *)
PlaceSet ==
  [x0 |-> cols.bx0, y0 |-> DstFirst(req), nx |-> cols.bnx, ny |-> DstLast(req) - DstFirst(req) + 1]

WindowSet ==
  dst' = SetBox(dst, cols.bx0, DstFirst(req), cols.bnx, DstLast(req) - DstFirst(req) + 1)

(* zoom_continuous sets the window, and returns or enters a loop.          *)
LEMMA EnterEffect ==
  ASSUME Enter
  PROVE  /\ stage = "zoom" /\ pc = "entry"
         /\ UNCHANGED <<req, job, cols, stage, src, asked, linewritten>>
         /\ WindowSet \/ (dst' = dst /\ pc' = "done")
         /\ \/ pc' = "done" /\ NothingToDo(req)
            \/ pc' = "line" /\ ~NothingToDo(req)
<1>1. F!Setup => ~NothingToDo(req)
  BY SameInF DEF F!Setup
<1>2. U!Setup => ~NothingToDo(req)
  BY SameInU DEF U!Setup
<1>3. req.sn <= 0 => NothingToDo(req)
  BY DEF NothingToDo
<1> QED BY <1>1, <1>2, <1>3 DEF Enter, SetWindow, WindowSet, F!Skip, F!Setup, U!Setup

(* Over a column it gives up with the window set and nothing read.         *)
LEMMA GiveUpColumnsEffect ==
  ASSUME req \in Request, GiveUpColumns
  PROVE  /\ stage = "zoom" /\ pc = "entry" /\ stage' = "exit1" /\ ~NothingToDo(req)
         /\ UNCHANGED <<req, job, cols, src, asked, linewritten, geo, ayold>>
         /\ WindowSet
         /\ pc' \in {"xnull", "xoverflow"} /\ pc' \in req.xtables
<1>1. ~NothingToDo(req)
  BY SameInF DEF GiveUpColumns, F!ColumnsFail
<1>2. ~(req.sn <= 0)
  BY <1>1 DEF NothingToDo
<1>3. req.xtables \subseteq {"line", "xnull", "xoverflow"}
  BY DEF Request
<1> QED BY <1>1, <1>2, <1>3 DEF GiveUpColumns, F!ColumnsFail, SetWindow, WindowSet, unfiltVars

(* A step without files leaves rows read and rows written alone.           *)
LEMMA ComputeEffect ==
  ASSUME Compute
  PROVE  /\ stage = "zoom" /\ InLoop
         /\ UNCHANGED <<req, job, cols, stage, src, dst, asked, linewritten, geo>>
         /\ Unfiltered => UNCHANGED ayold
         /\ ~Unfiltered => UNCHANGED linebuf
         /\ pc' \notin {"entry", "xnull", "xoverflow"}
         /\ pc' = "done" => byi = geo.bn
BY DEF Compute, fileVars, InLoop, filtVars, unfiltVars, F!BeginLine, F!UseLine, F!Finish, U!KeepLine,
       U!Finish, F!scanVars

(* The program gives up inside a loop and leaves the files as they are.    *)
LEMMA GiveUpEffect ==
  ASSUME GiveUp
  PROVE  /\ stage = "zoom" /\ pc = "line" /\ InLoop
         /\ stage' = "exit1"
         /\ UNCHANGED <<req, job, cols, src, dst, asked, linewritten, geo>>
         /\ pc' \in {"null", "overflow"}
BY DEF GiveUp, fileVars, InLoop, F!NullFilter, F!WeightOverflow

(* Reading changes the source file only.                                   *)
LEMMA ReadEffect ==
  ASSUME Read
  PROVE  /\ stage = "zoom" /\ InLoop /\ InLoop'
         /\ UNCHANGED <<req, job, cols, stage, dst, linewritten, geo>>
         /\ src' = ReadRow(src, asked', cols.ax0, cols.anx)
BY DEF Read, InLoop, F!ReadLine, U!ReadLine

(* Writing adds one line, the next of the destination window, in the order *)
(* of the rows.                                                            *)
LEMMA WriteEffect ==
  ASSUME ~Roundoff, CopiesSpreadOneLine, LoopInv, ~req.same, Write
  PROVE  /\ stage = "zoom" /\ InLoop /\ InLoop'
         /\ UNCHANGED <<req, job, cols, stage, src, asked, geo>>
         /\ Unfiltered => UNCHANGED ayold
         /\ ~Unfiltered => UNCHANGED linebuf
         /\ CanWrite(dst)
         /\ geo.b0 + byi \in DstFirst(req) .. DstLast(req)
         /\ linewritten = {geo.b0 + i : i \in 0 .. byi - 1}
         /\ linewritten' = linewritten \cup {geo.b0 + byi}
         /\ dst' = WriteRow(dst, geo.b0 + byi, cols.bx0, cols.bnx)
<1>1. /\ stage = "zoom" /\ InLoop /\ InLoop'
      /\ UNCHANGED <<req, job, cols, stage, src, asked, geo>>
      /\ Unfiltered => UNCHANGED ayold
      /\ ~Unfiltered => UNCHANGED linebuf
      /\ CanWrite(dst)
      /\ linewritten' = linewritten \cup {geo.b0 + by}
      /\ dst' = WriteRow(dst, geo.b0 + by, cols.bx0, cols.bnx)
  BY DEF Write, InLoop, F!WriteLine, F!StoreLine, F!by, U!WriteLine, U!StoreLine, U!by, by
<1>2. byi < geo.bn
  <2>1. ~Unfiltered => FE!TypeOK /\ pc = "taps"
    BY DEF LoopInv, FE!Inv, Write, F!WriteLine
  <2>2. Unfiltered => UP!TypeOK /\ pc = "write"
    BY DEF LoopInv, UP!Inv, Write, U!WriteLine
  <2> QED BY <2>1, <2>2 DEF FE!TypeOK, FE!InTaps, UP!TypeOK
<1>3. /\ geo.b0 = DstFirst(req) /\ geo.bn = DstLast(req) - DstFirst(req) + 1
      /\ byi \in 0 .. geo.bn
      /\ linewritten = {geo.b0 + i : i \in 0 .. byi - 1}
      /\ by = byi
      /\ DstFirst(req) \in Int /\ DstLast(req) \in Int
  <2>1. req \in Request /\ ~NothingToDo(req)
    BY <1>1, InOrder
  <2> QED BY <1>1, <1>2, <2>1, InOrder, Clipping
<1> QED BY <1>1, <1>2, <1>3

(* The other steps touch the destination at most.                          *)
LEMMA OtherEffect ==
  ASSUME Open \/ CannotOpen \/ CannotWrite \/ CloseSource \/ CloseDest \/ Ended \/ UNCHANGED vars
  PROVE  UNCHANGED <<req, pc, byi, linewritten, geo, linebuf, ayold, job, cols, src, asked>>
BY DEF Open, CannotOpen, CannotWrite, CloseSource, CloseDest, Ended, vars, scanVars, fileVars,
       filtVars, unfiltVars

-----------------------------------------------------------------------------
(***************************************************************************)
(* What the command line settles, and how far the program is.              *)
(***************************************************************************)

Settled ==
  /\ job \in Jobs /\ req = RequestOf(job) /\ cols = Columns(XRequest(job))
  /\ TP!Reader(src)
  /\ src.fmt = job.src /\ src.nchan = job.nchan /\ src.width = Width /\ src.height = Height
  /\ TP!Writer(dst) /\ dst.fmt = job.dst

(* Before the loops nothing is read or written; afterwards the destination *)
(* has the size it was given, and the lines written are those of the valid *)
(* window, all of them if a loop ended.                                    *)
Progress ==
  /\ stage \in {"open", "zoom", "closed", "exit0", "exit1", "crash"}
  /\ InLoop \/ pc \in {"entry", "done", "null", "overflow", "xnull", "xoverflow"}
  /\ stage = "open" => pc = "entry"
  /\ pc \in {"entry", "xnull", "xoverflow"} => linewritten = {} /\ asked = -1 /\ geo = Empty
  /\ job.dst \notin Writable => pc = "entry" /\ stage \in {"open", "exit1"}
  /\ job.dst \in Writable /\ stage # "open" => dst.nchan = job.nchan
  /\ pc # "entry" /\ ~NothingToDo(req) =>
       /\ dst.width = IF dst.fmt = "dump" THEN cols.bnx ELSE cols.bx0 + cols.bnx
       /\ dst.height = IF dst.fmt = "dump" THEN DstLast(req) - DstFirst(req) + 1
                       ELSE DstLast(req) + 1
  /\ linewritten \subseteq DstFirst(req) .. DstLast(req)
  /\ linewritten # {} => geo.b0 = DstFirst(req) /\ CanWrite(dst) /\ ~NothingToDo(req)
  /\ pc = "done" => NothingToDo(req) \/ linewritten = DstFirst(req) .. DstLast(req)

(* Reading and writing change neither the kind of a file nor its size.     *)
LEMMA ReadKeeps ==
  ASSUME NEW d, TP!Reader(d), NEW y, NEW x0, NEW nx
  PROVE  LET e == ReadRow(d, y, x0, nx)
         IN  /\ TP!Reader(e)
             /\ e.fmt = d.fmt /\ e.nchan = d.nchan /\ e.width = d.width /\ e.height = d.height
BY DEF TP!Reader, ReadRow, dump_read_row, dump_advance, dump_jump_to_pixel, pnm_read_row,
       gif_read_row, bmp_seek_row_read, seek_row_read

(* Nor does writing.                                                       *)
LEMMA WriteKeeps ==
  ASSUME NEW d, TP!Writer(d), NEW y, NEW x0, NEW nx
  PROVE  LET e == WriteRow(d, y, x0, nx)
         IN  /\ TP!Writer(e)
             /\ e.fmt = d.fmt /\ e.nchan = d.nchan /\ e.width = d.width /\ e.height = d.height
BY DEF TP!Writer, WriteRow, dump_write_row, dump_advance, dump_jump_to_pixel, write_row,
       seek_row_write

(* The size of a destination is the one that is set.                       *)
LEMMA SetKeeps ==
  ASSUME NEW d, TP!Writer(d), NEW x0, NEW y0, NEW nx, NEW ny, NEW nchan
  PROVE  /\ LET e == SetBox(d, x0, y0, nx, ny)
            IN  /\ TP!Writer(e)
                /\ e.fmt = d.fmt /\ e.nchan = d.nchan
                /\ e.width = IF d.fmt = "dump" THEN nx ELSE x0 + nx
                /\ e.height = IF d.fmt = "dump" THEN ny ELSE y0 + ny
         /\ LET e == SetNchan(d, nchan)
            IN  /\ TP!Writer(e)
                /\ e.fmt = d.fmt /\ e.nchan = nchan /\ e.width = d.width /\ e.height = d.height
BY DEF TP!Writer, SetBox, SetNchan

(* They hold at the start.                                                 *)
LEMMA InitSettled == Init => Settled /\ Progress
<1> SUFFICES ASSUME Init PROVE Settled /\ Progress
  OBVIOUS
<1>1. Settled
  BY DEF Init, Settled, OpenRead, OpenWrite, TP!Reader, TP!Writer
<1>2. Progress
  BY DEF Init, ScanStart, Progress
<1> QED BY <1>1, <1>2

(* No step changes what the command line settles.                          *)
LEMMA NextSettled ==
  ASSUME ~Roundoff, CopiesSpreadOneLine, LoopInv, Settled, [Next]_vars
  PROVE  Settled'
<1>0. ~req.same
  BY RequestFields DEF Settled
<1>1. CASE Enter
  BY <1>1, EnterEffect, SetKeeps DEF Settled, WindowSet
<1>2. CASE Compute \/ GiveUp
  BY <1>2, ComputeEffect, GiveUpEffect DEF Settled, TP!Reader, TP!Writer
<1>3. CASE Read
  BY <1>3, ReadEffect, ReadKeeps DEF Settled, TP!Writer
<1>4. CASE Write
  BY <1>0, <1>4, WriteEffect, WriteKeeps DEF Settled, TP!Reader
<1>5. CASE Open
  BY <1>5, OtherEffect, SetKeeps DEF Settled, Open, TP!Reader
<1>6. CASE CannotOpen \/ CannotWrite \/ CloseSource \/ CloseDest \/ Ended \/ UNCHANGED vars
  <2>1. dst' = dst
    BY <1>6 DEF CannotOpen, CannotWrite, CloseSource, CloseDest, Ended, vars, fileVars
  <2> QED BY <1>6, <2>1, OtherEffect DEF Settled, TP!Reader, TP!Writer
<1>7. CASE GiveUpColumns
  BY <1>7, RequestFields, GiveUpColumnsEffect, SetKeeps DEF Settled, WindowSet
<1> QED BY <1>1, <1>2, <1>3, <1>4, <1>5, <1>6, <1>7 DEF Next

(* Every step keeps Progress.                                              *)
LEMMA NextProgress ==
  ASSUME ~Roundoff, CopiesSpreadOneLine, LoopInv, Settled, Progress, [Next]_vars
  PROVE  Progress'
<1>0. /\ ~req.same
      /\ DstFirst(req) \in Nat /\ DstLast(req) \in Int
      /\ cols.bx0 \in Nat /\ cols.bnx \in Nat \ {0}
  BY RequestFields, Places DEF Settled
<1>a. ASSUME WindowSet
      PROVE  /\ dst'.fmt = dst.fmt /\ dst'.nchan = dst.nchan
             /\ dst'.width = IF dst.fmt = "dump" THEN cols.bnx ELSE cols.bx0 + cols.bnx
             /\ dst'.height = IF dst.fmt = "dump" THEN DstLast(req) - DstFirst(req) + 1
                              ELSE DstLast(req) + 1
  <2>1. DstFirst(req) + (DstLast(req) - DstFirst(req) + 1) = DstLast(req) + 1
    BY <1>0
  <2> QED BY <1>a, <2>1, SetKeeps DEF Settled, WindowSet
<1>1. CASE Enter
  <2>1. /\ stage = "zoom" /\ pc = "entry" /\ UNCHANGED <<req, job, cols, stage, asked, linewritten>>
        /\ (pc' = "done" /\ NothingToDo(req)) \/ (pc' = "line" /\ ~NothingToDo(req))
    BY <1>1, EnterEffect
  <2>2. dst'.fmt = dst.fmt /\ dst'.nchan = dst.nchan
    BY <1>1, <1>a, EnterEffect
  <2>3. pc' = "line" =>
          /\ dst'.width = IF dst.fmt = "dump" THEN cols.bnx ELSE cols.bx0 + cols.bnx
          /\ dst'.height = IF dst.fmt = "dump" THEN DstLast(req) - DstFirst(req) + 1
                           ELSE DstLast(req) + 1
    BY <1>1, <1>a, EnterEffect
  <2>4. InLoop' \/ pc' = "done"
    BY <2>1 DEF InLoop
  <2>5. linewritten = {} /\ job.dst \in Writable
    BY <2>1 DEF Progress
  <2> QED BY <2>1, <2>2, <2>3, <2>4, <2>5 DEF Progress
<1>2. CASE Compute
  <2>1. /\ stage = "zoom" /\ InLoop /\ UNCHANGED <<req, job, cols, stage, dst, asked, linewritten, geo>>
        /\ pc # "entry" /\ pc' \notin {"entry", "xnull", "xoverflow"}
        /\ pc' = "done" => byi = geo.bn
    BY <1>2, ComputeEffect DEF InLoop
  <2>2. pc' = "done" => linewritten = DstFirst(req) .. DstLast(req)
    <3> SUFFICES ASSUME pc' = "done" PROVE linewritten = DstFirst(req) .. DstLast(req)
      OBVIOUS
    <3>1. /\ geo.b0 = DstFirst(req) /\ byi = DstLast(req) - DstFirst(req) + 1
          /\ linewritten = {geo.b0 + i : i \in 0 .. byi - 1}
      BY <1>0, <2>1, InOrder
    <3>2. \A y \in DstFirst(req) .. DstLast(req) :
            /\ y - DstFirst(req) \in 0 .. byi - 1
            /\ y = geo.b0 + (y - DstFirst(req))
      BY <1>0, <3>1
    <3>3. \A i \in 0 .. byi - 1 : geo.b0 + i \in DstFirst(req) .. DstLast(req)
      BY <1>0, <3>1
    <3> QED BY <3>1, <3>2, <3>3
  <2>3. InLoop' \/ pc' \in {"entry", "done", "null", "overflow"}
    BY <1>2 DEF Compute, InLoop, F!BeginLine, F!UseLine, F!Finish, U!KeepLine, U!Finish, F!scanVars
  <2> QED BY <2>1, <2>2, <2>3 DEF Progress, CanWrite
<1>3. CASE GiveUp
  BY <1>3, GiveUpEffect DEF Progress, CanWrite
<1>4. CASE Read
  <2>1. /\ stage = "zoom" /\ InLoop /\ InLoop'
        /\ UNCHANGED <<req, job, cols, stage, dst, linewritten, geo>>
    BY <1>4, ReadEffect
  <2>2. pc # "entry" /\ pc' \notin {"entry", "xnull", "xoverflow", "done"}
    BY <2>1 DEF InLoop
  <2> QED BY <2>1, <2>2 DEF Progress, CanWrite
<1>5. CASE Write
  <2>1. /\ stage = "zoom" /\ InLoop /\ InLoop'
        /\ UNCHANGED <<req, job, cols, stage, asked, geo>>
        /\ CanWrite(dst)
        /\ geo.b0 + byi \in DstFirst(req) .. DstLast(req)
        /\ linewritten' = linewritten \cup {geo.b0 + byi}
        /\ dst' = WriteRow(dst, geo.b0 + byi, cols.bx0, cols.bnx)
    BY <1>0, <1>5, WriteEffect
  <2>2. pc # "entry" /\ pc' \notin {"entry", "xnull", "xoverflow", "done"} /\ geo.b0 = DstFirst(req)
        /\ ~NothingToDo(req)
    BY <1>0, <2>1, InOrder DEF InLoop
  <2>3. /\ dst'.fmt = dst.fmt /\ dst'.nchan = dst.nchan /\ dst'.width = dst.width
        /\ dst'.height = dst.height
    BY <2>1, WriteKeeps DEF Settled
  <2> QED BY <2>1, <2>2, <2>3 DEF Progress, CanWrite
<1>6. CASE Open
  <2>1. /\ UNCHANGED <<req, pc, linewritten, geo, job, cols, src, asked>>
        /\ stage = "open" /\ job.dst \in Writable /\ stage' = "zoom"
        /\ dst' = SetNchan(dst, src.nchan)
    BY <1>6, OtherEffect DEF Open
  <2>2. pc = "entry" /\ linewritten = {}
    BY <2>1 DEF Progress
  <2>3. dst'.nchan = src.nchan /\ src.nchan = job.nchan
    BY <2>1, SetKeeps DEF Settled
  <2> QED BY <2>1, <2>2, <2>3 DEF Progress, InLoop
<1>7. CASE CannotOpen \/ CannotWrite \/ CloseSource \/ CloseDest \/ Ended \/ UNCHANGED vars
  <2>1. UNCHANGED <<req, pc, linewritten, geo, job, cols, dst, asked>>
    BY <1>7, OtherEffect DEF CannotOpen, CannotWrite, CloseSource, CloseDest, Ended, vars, fileVars
  <2>2. /\ stage' \in {"open", "zoom", "closed", "exit0", "exit1", "crash"}
        /\ stage' = "open" => stage = "open"
        /\ stage = "open" => stage' = "open" \/ (stage' = "exit1" /\ job.dst \notin Writable)
        /\ stage # "open" /\ stage' # stage => stage \in {"zoom", "closed"}
    BY <1>7 DEF Progress, CannotOpen, CannotWrite, CloseSource, CloseDest, Ended, vars, CloseRead,
                CloseWrite
  <2> QED BY <2>1, <2>2 DEF Progress, InLoop, CanWrite
<1>8. CASE GiveUpColumns
  <2>1. /\ stage = "zoom" /\ pc = "entry" /\ stage' = "exit1"
        /\ UNCHANGED <<req, job, cols, asked, linewritten, geo>>
        /\ pc' \in {"xnull", "xoverflow"} /\ WindowSet
    BY <1>8, RequestFields, GiveUpColumnsEffect DEF Settled
  <2>2. linewritten = {} /\ asked = -1 /\ geo = Empty
        /\ job.dst \in Writable /\ dst.nchan = job.nchan
    BY <2>1 DEF Progress
  <2> QED BY <1>a, <2>1, <2>2 DEF Progress
<1> QED BY <1>1, <1>2, <1>3, <1>4, <1>5, <1>6, <1>7, <1>8 DEF Next

-----------------------------------------------------------------------------
(***************************************************************************)
(* The program keeps its side of the contract of TopDown.                  *)
(***************************************************************************)

(* The row read last is the one that the loop remembers last.              *)
Asked ==
  /\ asked \in Int /\ asked >= -1
  /\ Unfiltered => ayold \in Int
  /\ InLoop => \/ asked = -1
               \/ Unfiltered /\ asked = geo.a0 + ayold
               \/ ~Unfiltered /\ \E j \in DOMAIN linebuf : asked = geo.a0 + linebuf[j].y

(* Nothing is read at the start.                                           *)
LEMMA InitAsked == Init => Asked
BY DEF Init, U!NoLine, ScanStart, Asked, InLoop

(* Rows are read in the source window, and each one below the one before,  *)
(* unless a line without weights has the window of another.                *)
LEMMA ReadsForward ==
  ASSUME ~Roundoff, CopiesSpreadOneLine, LoopInv, Settled, Asked, Read
  PROVE  /\ asked' \in SrcFirst(req) .. SrcLast(req)
         /\ asked < asked' \/ Backwards
         /\ Asked'
<1>0. /\ ~req.same
      /\ SrcFirst(req) \in Nat /\ SrcLast(req) \in Int
  BY RequestFields, Places DEF Settled
<1>1. /\ InLoop /\ InLoop' /\ UNCHANGED <<req, geo>>
  BY ReadEffect
<1>2. /\ ~NothingToDo(req) /\ ~geo.overlap
      /\ geo.a0 = SrcFirst(req) /\ geo.an = SrcLast(req) - SrcFirst(req) + 1
      /\ pc # "entry"
  BY <1>0, <1>1, InOrder DEF InLoop
<1>3. geo.a0 \in Nat /\ geo.an \in Int
  BY <1>0, <1>2
<1>4. Unfiltered' <=> Unfiltered
  BY <1>1 DEF Unfiltered
<1>5. CASE ~Unfiltered
  <2>1. F!ReadLine /\ asked' = geo.a0 + ayf
    BY <1>5 DEF Read
  <2>2. FE!ReadLine
    BY <2>1 DEF F!ReadLine, FE!ReadLine, F!Cached, FE!Cached, F!Slot, FE!Slot, F!Accumulate,
                FE!Accumulate, F!CheckFeedback, FE!CheckFeedback
  <2>3. FE!Inv /\ FE!ForwardInv
    BY <1>5 DEF LoopInv
  <2>4. /\ ayf \in 0 .. geo.an - 1
        /\ ~geo.overlap /\ ~FE!Trimmed(geo) => \A k \in DOMAIN linebuf : linebuf[k].y < ayf
    BY <2>2, <2>3, RequestsTyped, RoundoffAssumption, FE!ReadsAhead
  <2>5. /\ DOMAIN linebuf = 0 .. geo.wid - 1 /\ geo.wid \in Nat \ {0}
        /\ \A j \in DOMAIN linebuf : linebuf[j].y \in Int
    <3>1. FE!GeometryOK
      BY <2>2, <2>3 DEF FE!Inv, FE!TypeOK, FE!ReadLine
    <3> QED BY <1>3, <3>1, SMTT(30) DEF FE!GeometryOK, FE!GeometryType, FE!Unread
  <2>6. asked' \in SrcFirst(req) .. SrcLast(req)
    BY <1>0, <1>2, <2>1, <2>4
  <2>7. asked < asked' \/ Backwards
    <3>0. geo # Empty
      <4>1. "wid" \in DOMAIN geo
        <5>1. FE!GeometryOK
          BY <2>2, <2>3 DEF FE!Inv, FE!TypeOK, FE!ReadLine
        <5> QED BY <5>1 DEF FE!GeometryOK, FE!GeometryType
      <4>2. DOMAIN Empty = {}
        BY DEF Empty
      <4> QED BY <4>1, <4>2
    <3> SUFFICES ASSUME ~Trimmed(geo) PROVE asked < asked'
      BY <3>0 DEF Backwards
    <3>1. \A k \in DOMAIN linebuf : linebuf[k].y < ayf
      BY <1>2, <2>4, SameInFE
    <3>2. ayf \in Int
      BY <1>3, <2>4
    <3>3. asked = -1 \/ \E j \in DOMAIN linebuf : asked = geo.a0 + linebuf[j].y
      BY <1>1, <1>5 DEF Asked
    <3>4. CASE asked = -1
      BY <1>0, <2>6, <3>4
    <3>5. ASSUME NEW j \in DOMAIN linebuf, asked = geo.a0 + linebuf[j].y PROVE asked < asked'
      BY <1>3, <2>1, <2>5, <3>1, <3>2, <3>5
    <3> QED BY <3>3, <3>4, <3>5
  <2>8. Asked'
    <3>1. ayf % geo.wid \in DOMAIN linebuf
      BY <2>4, <2>5
    <3>2. linebuf' = [linebuf EXCEPT ![ayf % geo.wid] = [y |-> ayf, data |-> image[geo.a0 + ayf]]]
      BY <2>1 DEF F!ReadLine, F!Slot
    <3>3. ayf % geo.wid \in DOMAIN linebuf' /\ linebuf'[ayf % geo.wid].y = ayf
      BY <3>1, <3>2
    <3>4. asked' = geo'.a0 + linebuf'[ayf % geo.wid].y
      BY <1>1, <2>1, <3>3
    <3>5. asked' \in Int /\ asked' >= -1
      BY <1>0, <2>6
    <3> QED BY <1>4, <1>5, <3>3, <3>4, <3>5 DEF Asked
  <2> QED BY <2>6, <2>7, <2>8
<1>6. CASE Unfiltered
  <2>1. U!ReadLine /\ asked' = geo.a0 + ayold'
    BY <1>6 DEF Read
  <2>2. UP!ReadLine
    BY <2>1, SameInU, SameInUP
       DEF U!ReadLine, UP!ReadLine, U!SampledLines, UP!SampledLines, U!by, UP!by, U!CheckFeedback,
           UP!CheckFeedback, U!ContentOf, UP!ContentOf
  <2>3. UP!Inv
    BY <1>6 DEF LoopInv
  <2>4. ayold' \in 0 .. geo.an - 1 /\ (~geo.overlap => ayold < ayold')
    BY <2>2, <2>3, RequestsTyped, RoundoffAssumption, UP!ReadsAhead DEF CopiesSpreadOneLine
  <2>5. asked' \in SrcFirst(req) .. SrcLast(req)
    BY <1>0, <1>2, <2>1, <2>4
  <2>6. ayold' \in Int /\ ayold \in Int
    BY <1>3, <1>6, <2>4 DEF Asked
  <2>7. asked < asked'
    <3>1. asked = -1 \/ asked = geo.a0 + ayold
      BY <1>1, <1>6 DEF Asked
    <3> QED BY <1>0, <1>2, <1>3, <2>1, <2>4, <2>5, <2>6, <3>1
  <2>8. asked' \in Int /\ asked' >= -1
    BY <1>0, <2>5
  <2>9. asked' = geo'.a0 + ayold'
    BY <1>1, <2>1
  <2> QED BY <1>1, <1>4, <1>6, <2>5, <2>6, <2>7, <2>8, <2>9 DEF Asked
<1> QED BY <1>5, <1>6

(* Every step keeps Asked.                                                 *)
LEMMA NextAsked ==
  ASSUME ~Roundoff, CopiesSpreadOneLine, LoopInv, Settled, Progress, Asked, [Next]_vars
  PROVE  Asked'
<1>0. ~req.same
  BY RequestFields DEF Settled
<1>1. CASE Enter
  <2>1. pc = "entry" /\ asked' = asked /\ req' = req
    BY <1>1, EnterEffect
  <2>2. asked = -1
    BY <2>1 DEF Progress
  <2>3. ayold' = ayold
    BY <1>1 DEF Enter, unfiltVars, U!Setup
  <2> QED BY <2>1, <2>2, <2>3 DEF Asked, Unfiltered
<1>2. CASE Compute
  <2>1. /\ InLoop /\ UNCHANGED <<req, asked, geo>>
        /\ Unfiltered => UNCHANGED ayold
        /\ ~Unfiltered => UNCHANGED linebuf
    BY <1>2, ComputeEffect
  <2> QED BY <2>1 DEF Asked, Unfiltered
<1>3. CASE Write
  <2>1. /\ InLoop /\ UNCHANGED <<req, asked, geo>>
        /\ Unfiltered => UNCHANGED ayold
        /\ ~Unfiltered => UNCHANGED linebuf
    BY <1>0, <1>3, WriteEffect
  <2> QED BY <2>1 DEF Asked, Unfiltered
<1>4. CASE GiveUp
  <2>1. UNCHANGED <<req, asked, ayold>> /\ ~InLoop'
    BY <1>4, GiveUpEffect DEF GiveUp, unfiltVars, InLoop
  <2> QED BY <2>1 DEF Asked, Unfiltered
<1>5. CASE Read
  BY <1>5, ReadsForward
<1>6. CASE Open \/ CannotOpen \/ CannotWrite \/ CloseSource \/ CloseDest \/ Ended \/ UNCHANGED vars
  <2>1. UNCHANGED <<req, pc, geo, linebuf, ayold, asked>>
    BY <1>6, OtherEffect
  <2> QED BY <2>1 DEF Asked, Unfiltered, InLoop
<1>7. CASE GiveUpColumns
  <2>1. UNCHANGED <<req, asked, ayold>> /\ ~InLoop'
    BY <1>7, RequestFields, GiveUpColumnsEffect DEF Settled, InLoop
  <2> QED BY <2>1 DEF Asked, Unfiltered
<1> QED BY <1>1, <1>2, <1>3, <1>4, <1>5, <1>6, <1>7 DEF Next

(* The two instances of the contract say the same.                         *)
LEMMA SameContract ==
  /\ \A nchan : TP!SetChannels(nchan) <=> Client!SetChannels(nchan)
  /\ \A b : TP!SetPlace(b) <=> Client!SetPlace(b)
  /\ \A y, s : TP!Read(y, s) <=> Client!Read(y, s)
  /\ \A y, s : TP!Write(y, s) <=> Client!Write(y, s)
<1> USE SameFiles, SameInTP
<1>1. \A nchan : TP!SetChannels(nchan) <=> Client!SetChannels(nchan)
  BY DEF TP!SetChannels, Client!SetChannels
<1>2. \A b : TP!SetPlace(b) <=> Client!SetPlace(b)
  BY DEF TP!SetPlace, Client!SetPlace
<1>3. \A y, s : TP!Read(y, s) <=> Client!Read(y, s)
  BY DEF TP!Read, Client!Read
<1>4. \A y, s : TP!Write(y, s) <=> Client!Write(y, s)
  BY DEF TP!Write, Client!Write
<1> QED BY <1>1, <1>2, <1>3, <1>4

(* What is read and written by the program.                                *)
SpanRead    == [x0 |-> cols.ax0, nx |-> cols.anx]
SpanWritten == [x0 |-> cols.bx0, nx |-> cols.bnx]

(* Opening sets the channels once.                                         *)
LEMMA OpenInContract ==
  ASSUME Settled, Progress, Open
  PROVE  job.nchan \in {1, 3} /\ Client!SetChannels(job.nchan)
<1>1. /\ stage = "open" /\ dst' = SetNchan(dst, src.nchan)
      /\ UNCHANGED <<src, asked, linewritten>>
  BY OtherEffect DEF Open
<1>2. linewritten = {}
  BY <1>1 DEF Progress
<1>3. src.nchan = job.nchan /\ job.nchan \in {1, 3}
  BY JobsAssumption DEF Settled, JobOK
<1> QED BY <1>1, <1>2, <1>3, SameFiles DEF Client!SetChannels

(* The window is set before any row is written.                            *)
LEMMA WindowInContract ==
  ASSUME Settled, Progress, pc = "entry", WindowSet, UNCHANGED <<src, asked, linewritten>>
  PROVE  PlaceSet \in Client!Box \cap TP!Box /\ Client!SetPlace(PlaceSet)
<1>1. linewritten = {}
  BY DEF Progress
<1>2. PlaceSet \in Client!Box \cap TP!Box
  BY PlacesInContract DEF Settled, PlaceSet
<1> QED BY <1>1, <1>2, SameFiles DEF Client!SetPlace, PlaceSet, WindowSet

(* Entering a loop, or giving up before it, does no more than that.        *)
LEMMA EnterInContract ==
  ASSUME Settled, Progress, Enter \/ GiveUpColumns
  PROVE  \/ PlaceSet \in Client!Box \cap TP!Box /\ Client!SetPlace(PlaceSet)
         \/ UNCHANGED <<src, dst, asked, linewritten>>
<1>1. pc = "entry" /\ UNCHANGED <<src, asked, linewritten>> /\ (WindowSet \/ dst' = dst)
  BY RequestFields, EnterEffect, GiveUpColumnsEffect DEF Settled
<1> QED BY <1>1, WindowInContract

(* A row is read further down than the one before.                         *)
LEMMA ReadInContract ==
  ASSUME ~Roundoff, CopiesSpreadOneLine, LoopInv, Settled, Asked, Read, ~Backwards
  PROVE  /\ asked' \in Client!Row \cap TP!Row /\ SpanRead \in Client!Span \cap TP!Span
         /\ Client!Read(asked', SpanRead)
<1>1. UNCHANGED <<dst, linewritten>> /\ src' = ReadRow(src, asked', cols.ax0, cols.anx)
  BY ReadEffect
<1>2. asked' \in SrcFirst(req) .. SrcLast(req) /\ asked < asked'
  BY ReadsForward
<1>3. asked' \in Client!Row \cap TP!Row /\ SpanRead \in Client!Span \cap TP!Span
  BY <1>2, PlacesInContract DEF Settled, SpanRead
<1>4. asked' < src.height /\ SpanRead.x0 + SpanRead.nx <= src.width
  <2>1. /\ SrcFirst(req) \in Nat /\ SrcLast(req) \in Int /\ SrcLast(req) < Height
        /\ cols.ax0 + cols.anx <= Width
    BY Places DEF Settled
  <2> QED BY <1>2, <2>1, JobsAssumption DEF Settled, SpanRead
<1> QED BY <1>1, <1>2, <1>3, <1>4, SameFiles DEF Client!Read, SpanRead

(* A row is written further down than all before.                          *)
LEMMA WriteInContract ==
  ASSUME ~Roundoff, CopiesSpreadOneLine, LoopInv, Settled, Progress, Write
  PROVE  /\ geo.b0 + byi \in Client!Row \cap TP!Row /\ SpanWritten \in Client!Span \cap TP!Span
         /\ Client!Write(geo.b0 + byi, SpanWritten)
<1>0. /\ ~req.same
      /\ DstFirst(req) \in Nat /\ DstLast(req) \in Int
      /\ cols.bx0 \in Nat /\ cols.bnx \in Nat \ {0}
  BY RequestFields, Places DEF Settled
<1>1. /\ InLoop /\ UNCHANGED <<src, asked>>
      /\ CanWrite(dst)
      /\ geo.b0 + byi \in DstFirst(req) .. DstLast(req)
      /\ linewritten = {geo.b0 + i : i \in 0 .. byi - 1}
      /\ linewritten' = linewritten \cup {geo.b0 + byi}
      /\ dst' = WriteRow(dst, geo.b0 + byi, cols.bx0, cols.bnx)
  BY <1>0, WriteEffect
<1>2. \A r \in linewritten : r < geo.b0 + byi
  <2>1. geo.b0 \in Int /\ byi \in Int
    BY <1>0, <1>1, InOrder
  <2> QED BY <1>1, <2>1
<1>3. dst.width > 0
  <2>1. dst.width = IF dst.fmt = "dump" THEN cols.bnx ELSE cols.bx0 + cols.bnx
    BY <1>0, <1>1, InOrder DEF Progress, InLoop
  <2> QED BY <1>0, <2>1
<1>4. geo.b0 + byi \in Client!Row \cap TP!Row /\ SpanWritten \in Client!Span \cap TP!Span
  BY <1>1, PlacesInContract DEF Settled, SpanWritten
<1> QED BY <1>1, <1>2, <1>3, <1>4, SameFiles DEF Client!Write, SpanWritten

-----------------------------------------------------------------------------
(***************************************************************************)
(* So the devices keep theirs.                                             *)
(***************************************************************************)

(* A dump has every row where a reader of the same width looks for it.     *)
DumpHolds ==
  dst.fmt = "dump" =>
    /\ DOMAIN dst.rows = {y * dst.width + cols.bx0 : y \in linewritten}
    /\ \A y \in linewritten : dst.rows[y * dst.width + cols.bx0] = y

Files ==
  /\ TP!DstInv /\ TP!FileInv
  /\ Backwards \/ TP!SrcInv
  /\ src.fmt = "jpg" => src.scanline \in Int /\ asked < src.scanline
  /\ DumpHolds

(* The files are just opened.                                              *)
LEMMA InitContract == Init => Client!Init /\ TP!Init
<1> SUFFICES ASSUME Init PROVE Client!Init /\ TP!Init
  OBVIOUS
<1> DEFINE s == [width |-> Width, height |-> Height]
<1>1. job \in Jobs /\ job.src \in Readable /\ job.dst \in Readable \cup Writable /\ job.nchan \in {1, 3}
  BY JobsAssumption DEF Init, JobOK
<1>2. s \in Client!Size /\ s \in TP!Size
  BY JobsAssumption DEF Client!Size, TP!Size
<1>3. /\ src = OpenRead(job.src, job.nchan, s.width, s.height) /\ dst = OpenWrite(job.dst)
      /\ asked = -1 /\ linewritten = {}
  BY DEF Init, ScanStart
<1> HIDE DEF s
<1>4. Client!Init
  BY <1>1, <1>2, <1>3, SameFiles DEF Client!Init
<1>5. TP!Init
  BY <1>1, <1>2, <1>3, SameInTP DEF TP!Init
<1> QED BY <1>4, <1>5

(* Files holds at the start.                                               *)
LEMMA InitFiles == Init => Files
<1> SUFFICES ASSUME Init PROVE Files
  OBVIOUS
<1>1. TP!DstInv /\ TP!FileInv /\ TP!SrcInv
  BY InitContract, PaddingAssumption, TP!InitInv DEF TP!Inv
<1>2. src.scanline \in Int /\ asked < src.scanline
  BY DEF Init, OpenRead
<1>3. DumpHolds
  BY DEF Init, OpenWrite, ScanStart, DumpHolds
<1> QED BY <1>1, <1>2, <1>3 DEF Files

(* Reading a jpeg file leaves the row counter beyond the row read.         *)
LEMMA JpgReads ==
  ASSUME NEW d, TP!Reader(d), d.fmt = "jpg", d.scanline \in Int, NEW y \in Int, NEW x0, NEW nx
  PROVE  LET e == ReadRow(d, y, x0, nx) IN e.scanline \in Int /\ y < e.scanline
BY DEF TP!Reader, ReadRow, seek_row_read

(* Positions of rows in a dump are as different as the rows.               *)
LEMMA PositionsDiffer ==
  ASSUME NEW w \in Nat \ {0}, NEW x \in Int, NEW y \in Int, NEW z \in Int, y # z
  PROVE  y * w + x # z * w + x
<1>1. CASE y < z
  <2>1. y * w = w * y /\ z * w = w * z /\ w * y \in Int /\ w * z \in Int /\ w * y < w * z
    BY <1>1, Scaled
  <2> QED BY <2>1
<1>2. CASE z < y
  <2>1. y * w = w * y /\ z * w = w * z /\ w * y \in Int /\ w * z \in Int /\ w * z < w * y
    BY <1>2, Scaled
  <2> QED BY <2>1
<1> QED BY <1>1, <1>2

(* Writing row z to a dump puts it there, and leaves the other rows.       *)
LEMMA DumpWrites ==
  ASSUME NEW d, TP!Writer(d), d.fmt = "dump", d.pos = d.cury * d.width + d.curx,
         NEW z \in Int, NEW x0 \in Int, NEW nx
  PROVE  LET e == WriteRow(d, z, x0, nx)
             k == z * d.width + x0
         IN  /\ DOMAIN e.rows = DOMAIN d.rows \cup {k}
             /\ e.rows[k] = z
             /\ \A r \in DOMAIN d.rows : r # k => e.rows[r] = d.rows[r]
<1> DEFINE p == dump_jump_to_pixel(d, x0, z)
           e == WriteRow(d, z, x0, nx)
<1>1. TP!Writer(p) /\ p.pos = z * d.width + x0
  BY DEF dump_jump_to_pixel, TP!Writer
<1>2. e = [dump_advance(p, nx) EXCEPT
             !.rows = [r \in DOMAIN d.rows \cup {p.pos} |-> IF r = p.pos THEN z ELSE d.rows[r]]]
  BY DEF WriteRow, dump_write_row
<1> HIDE DEF p, e
<1>3. e.rows = [r \in DOMAIN d.rows \cup {p.pos} |-> IF r = p.pos THEN z ELSE d.rows[r]]
  BY <1>1, <1>2 DEF dump_advance, TP!Writer
<1>4. /\ DOMAIN e.rows = DOMAIN d.rows \cup {p.pos}
      /\ e.rows[p.pos] = z
      /\ \A r \in DOMAIN d.rows : r # p.pos => e.rows[r] = d.rows[r]
  BY <1>3
<1> QED BY <1>1, <1>4 DEF e

(* Writing a row keeps what a dump file holds.                             *)
LEMMA WriteDump ==
  ASSUME ~Roundoff, CopiesSpreadOneLine, LoopInv, Settled, Progress, Files, Write
  PROVE  DumpHolds'
<1> SUFFICES ASSUME dst'.fmt = "dump" PROVE DumpHolds'
  BY DEF DumpHolds
<1> DEFINE z == geo.b0 + byi
           w == dst.width
           x0 == cols.bx0
           At(y) == y * w + x0
<1>1. /\ DstFirst(req) \in Nat /\ DstLast(req) \in Int
      /\ cols.bx0 \in Nat /\ cols.bnx \in Nat \ {0} /\ ~req.same
  BY RequestFields, Places DEF Settled
<1>2. /\ InLoop /\ UNCHANGED <<job, cols>>
      /\ z \in DstFirst(req) .. DstLast(req)
      /\ linewritten' = linewritten \cup {z}
      /\ dst' = WriteRow(dst, z, cols.bx0, cols.bnx)
  BY <1>1, WriteEffect
<1>3. dst'.fmt = dst.fmt /\ dst'.width = w /\ TP!Writer(dst)
  BY <1>2, WriteKeeps DEF Settled
<1>4. w \in Nat \ {0}
  BY <1>1, <1>2, <1>3, InOrder DEF Progress, InLoop
<1>5. linewritten \subseteq Int /\ z \in Int /\ x0 \in Int
  BY <1>1, <1>2 DEF Progress
<1>6. /\ DOMAIN dst.rows = {At(y) : y \in linewritten}
      /\ \A y \in linewritten : dst.rows[At(y)] = y
  BY <1>3 DEF Files, DumpHolds
<1>7. /\ DOMAIN dst'.rows = DOMAIN dst.rows \cup {At(z)}
      /\ dst'.rows[At(z)] = z
      /\ \A r \in DOMAIN dst.rows : r # At(z) => dst'.rows[r] = dst.rows[r]
  <2>1. dst.fmt = "dump" /\ dst.pos = dst.cury * dst.width + dst.curx
    BY <1>3 DEF Files, TP!DstInv
  <2> HIDE DEF z
  <2> QED BY <1>2, <1>3, <1>5, <2>1, DumpWrites
<1>8. \A y \in linewritten : y # z => At(y) # At(z)
  BY <1>4, <1>5, PositionsDiffer
<1> HIDE DEF z, At
<1>9. DOMAIN dst'.rows = {At(y) : y \in linewritten'}
  <2>1. DOMAIN dst'.rows = {At(y) : y \in linewritten} \cup {At(z)}
    BY <1>6, <1>7
  <2> QED BY <1>2, <2>1
<1>10. \A y \in linewritten' : dst'.rows[At(y)] = y
  <2> SUFFICES ASSUME NEW y \in linewritten' PROVE dst'.rows[At(y)] = y
    OBVIOUS
  <2>1. CASE y = z
    BY <1>7, <2>1
  <2>2. CASE y # z
    BY <1>2, <1>6, <1>7, <1>8, <2>2
  <2> QED BY <2>1, <2>2
<1> QED BY <1>2, <1>3, <1>9, <1>10 DEF DumpHolds, At

(* Every step keeps Files.                                                 *)
LEMMA NextFiles ==
  ASSUME ~Roundoff, CopiesSpreadOneLine, LoopInv, Settled, Progress, Asked, Files, [Next]_vars
  PROVE  Files'
<1>0. ~req.same
  BY RequestFields DEF Settled
<1>a. ASSUME UNCHANGED <<dst, linewritten, cols>>
      PROVE  (TP!DstInv /\ TP!FileInv /\ DumpHolds)'
  <2>1. TP!DstInv'
    BY <1>a DEF Files, TP!DstInv, TP!Writer
  <2>2. TP!FileInv'
    <3>1. TP!FileRight => TP!FileRight'
      BY <1>a DEF TP!FileRight
    <3> QED BY <1>a, <3>1 DEF Files, TP!FileInv
  <2>3. DumpHolds'
    BY <1>a DEF Files, DumpHolds
  <2> QED BY <2>1, <2>2, <2>3
<1>b. ASSUME UNCHANGED <<src, asked, req>>, geo = Empty \/ UNCHANGED geo
      PROVE  /\ (Backwards \/ TP!SrcInv)'
             /\ (src.fmt = "jpg" => src.scanline \in Int /\ asked < src.scanline)'
  BY <1>b DEF Files, Backwards, TP!SrcInv, TP!Reader, TP!Behind
<1>1. CASE Enter \/ GiveUpColumns
  <2>1. /\ pc = "entry" /\ UNCHANGED <<req, src, asked, linewritten, cols>>
        /\ WindowSet \/ dst' = dst
    BY <1>1, RequestFields, EnterEffect, GiveUpColumnsEffect DEF Settled
  <2>2. linewritten = {} /\ geo = Empty
    BY <2>1 DEF Progress
  <2>3. CASE dst' = dst
    BY <1>a, <1>b, <2>1, <2>2, <2>3 DEF Files
  <2>4. CASE WindowSet
    <3>1. dst'.fmt = dst.fmt /\ dst'.rows = dst.rows
      BY <2>4 DEF WindowSet, SetBox, Settled, TP!Writer
    <3>2. PlaceSet \in TP!Box /\ TP!SetPlace(PlaceSet)
      BY <2>1, <2>4, WindowInContract, SameContract
    <3>3. (TP!DstInv /\ TP!FileInv)'
      BY <3>2, PaddingAssumption, TP!SetInv DEF Files
    <3>4. DumpHolds'
      BY <2>1, <2>2, <3>1 DEF Files, DumpHolds
    <3> QED BY <1>b, <2>1, <2>2, <3>3, <3>4 DEF Files
  <2> QED BY <2>1, <2>3, <2>4
<1>2. CASE Compute
  BY <1>2, <1>a, <1>b, ComputeEffect DEF Files
<1>3. CASE GiveUp
  BY <1>3, <1>a, <1>b, GiveUpEffect DEF Files
<1>4. CASE Read
  <2>1. /\ InLoop /\ InLoop' /\ UNCHANGED <<req, job, cols, dst, linewritten, geo>>
        /\ src' = ReadRow(src, asked', cols.ax0, cols.anx)
    BY <1>4, ReadEffect
  <2>2. (Backwards \/ TP!SrcInv)'
    <3>1. CASE Backwards
      BY <2>1, <3>1 DEF Backwards, InLoop
    <3>2. CASE ~Backwards
      <4>1. asked' \in TP!Row /\ SpanRead \in TP!Span /\ TP!Read(asked', SpanRead)
        BY <1>4, <3>2, ReadInContract, SameContract
      <4> QED BY <3>2, <4>1, PaddingAssumption, TP!ReadInv DEF Files
    <3> QED BY <3>1, <3>2
  <2>3. (src.fmt = "jpg" => src.scanline \in Int /\ asked < src.scanline)'
    <3>1. asked' \in Int
      BY <1>4, ReadsForward DEF Asked
    <3>2. src'.fmt = src.fmt /\ TP!Reader(src)
      BY <2>1, ReadKeeps DEF Settled
    <3> QED BY <2>1, <3>1, <3>2, JpgReads DEF Files
  <2> QED BY <1>a, <2>1, <2>2, <2>3 DEF Files
<1>5. CASE Write
  <2>1. InLoop /\ InLoop' /\ UNCHANGED <<req, job, cols, src, asked, geo>>
    BY <1>0, <1>5, WriteEffect
  <2>2. geo.b0 + byi \in TP!Row /\ SpanWritten \in TP!Span /\ TP!Write(geo.b0 + byi, SpanWritten)
    BY <1>5, WriteInContract, SameContract
  <2>3. (TP!DstInv /\ TP!FileInv)'
    BY <2>2, PaddingAssumption, TP!WriteDumpInv, TP!WriteFileInv DEF Files
  <2>4. DumpHolds'
    BY <1>5, WriteDump
  <2> QED BY <1>b, <2>1, <2>3, <2>4 DEF Files, InLoop
<1>6. CASE Open
  <2>1. /\ UNCHANGED <<req, pc, linewritten, geo, cols, src, asked>>
        /\ dst'.fmt = dst.fmt /\ dst'.rows = dst.rows /\ dst'.width = dst.width
    BY <1>6, OtherEffect DEF Open, SetNchan, Settled, TP!Writer
  <2>2. job.nchan \in {1, 3} /\ TP!SetChannels(job.nchan)
    BY <1>6, OpenInContract, SameContract
  <2>3. (TP!DstInv /\ TP!FileInv)'
    BY <2>2, PaddingAssumption, TP!SetInv DEF Files
  <2>4. DumpHolds'
    BY <2>1 DEF Files, DumpHolds
  <2> QED BY <1>b, <2>1, <2>3, <2>4 DEF Files
<1>7. CASE CannotOpen \/ CannotWrite \/ CloseSource \/ CloseDest \/ Ended \/ UNCHANGED vars
  <2>1. UNCHANGED <<req, pc, linewritten, geo, job, cols, src, dst, asked>>
    BY <1>7, OtherEffect DEF CannotOpen, CannotWrite, CloseSource, CloseDest, Ended, vars, fileVars
  <2> QED BY <1>a, <1>b, <2>1 DEF Files
<1> QED BY <1>1, <1>2, <1>3, <1>4, <1>5, <1>6, <1>7 DEF Next

-----------------------------------------------------------------------------
(***************************************************************************)
(* How the program ends.                                                   *)
(***************************************************************************)

(* Weights give it up only over a filter made narrower than the windows    *)
(* were clipped for, or one that kept its negative lobes.                  *)
GivenUp ==
  \/ pc = "null" /\ Coerced(req)
  \/ pc = "overflow" /\ req.lobes /\ ~Coerced(req)
  \/ pc = "xnull" /\ Coerced(XRequest(job))
  \/ pc = "xoverflow" /\ XRequest(job).lobes /\ ~Coerced(XRequest(job))

(* It ends in order after a loop that ended, or for one of the reasons of  *)
(* LostOnlyIf.                                                             *)
Ends ==
  /\ stage \in {"closed", "exit0"} => pc = "done"
  /\ stage \in {"exit1", "crash"} =>
       \/ job.dst \notin Writable
       \/ GivenUp
       \/ job.nchan = 1 /\ job.dst \in {"jpg", "bmp"}
       \/ pc = "done" /\ NothingToDo(req)
       \/ job.src = "png"
       \/ pc = "done" /\ stage = "exit1" /\ job.src = "jpg" /\ asked < Height - 1

ProgramInv == LoopInv /\ Settled /\ Progress /\ Asked /\ Files /\ Ends

(* A file that got all rows of the window has as many as its header says.  *)
LEMMA FileComplete ==
  ASSUME Settled, Progress, Files, pc = "done", ~NothingToDo(req), dst.fmt # "dump"
  PROVE  /\ linewritten # {} /\ linewritten = DstFirst(req) .. DstLast(req)
         /\ dst.scanline = dst.height /\ dst.height = DstLast(req) + 1
         /\ dst.scanline \in Int /\ dst.scanline > 0
<1>1. /\ DstFirst(req) \in Nat /\ DstLast(req) \in Int /\ DstFirst(req) <= DstLast(req)
  BY Places DEF Settled, NothingToDo
<1>2. linewritten = DstFirst(req) .. DstLast(req) /\ dst.height = DstLast(req) + 1
  BY DEF Progress
<1>3. DstLast(req) \in linewritten
  BY <1>1, <1>2
<1>4. /\ dst.scanline \in Nat /\ dst.scanline - 1 \in linewritten
      /\ \A w \in linewritten : w < dst.scanline
  BY <1>3 DEF Files, TP!FileInv
<1>5. dst.scanline = DstLast(req) + 1
  BY <1>1, <1>2, <1>3, <1>4
<1> QED BY <1>1, <1>2, <1>3, <1>5

(* Every step keeps Ends.                                                  *)
LEMMA NextEnds ==
  ASSUME ~Roundoff, CopiesSpreadOneLine, LoopInv, Settled, Progress, Asked, Files, Ends,
         [Next]_vars
  PROVE  Ends'
<1>0. ~req.same /\ Height \in Nat /\ src.height = Height
  BY RequestFields, JobsAssumption DEF Settled
<1>1. CASE Enter \/ Compute \/ Read \/ Write \/ Open
  <2>1. stage' = "zoom"
    BY <1>0, <1>1, EnterEffect, ComputeEffect, ReadEffect, WriteEffect DEF Open
  <2> QED BY <2>1 DEF Ends
<1>2. CASE GiveUp
  <2>1. pc' \in {"null", "overflow"} /\ UNCHANGED <<req, job>> /\ stage' = "exit1" /\ ~Unfiltered
        /\ pc = "line"
    BY <1>2, GiveUpEffect DEF GiveUp
  <2>2. FE!TypeOK /\ FE!ExactLoop
    <3>1. FE!Inv /\ FE!ScanInv
      BY <2>1 DEF LoopInv
    <3>2. FE!ExactInv
      BY <3>1, RequestsTyped, RoundoffAssumption, FE!ExactScan DEF FE!Inv
    <3> QED BY <2>1, <3>1, <3>2 DEF FE!Inv, FE!ExactInv, FE!InLoop
  <2>3. F!NullFilter => pc' = "null" /\ Coerced(req)
    <3>1. F!NullFilter => FE!NullFilter
      BY SameInF, SameInFE DEF F!NullFilter, FE!NullFilter, F!by, FE!by
    <3> QED BY <2>2, <3>1, RequestsTyped, RoundoffAssumption, FE!NullFilterCoerced, SameInFE
            DEF F!NullFilter
  <2>4. F!WeightOverflow => pc' = "overflow" /\ req.lobes /\ ~Coerced(req)
    <3>1. F!WeightOverflow => FE!WeightOverflow
      BY SameInF, SameInFE DEF F!WeightOverflow, FE!WeightOverflow, F!by, FE!by
    <3> QED BY <2>2, <3>1, RequestsTyped, RoundoffAssumption, FE!OverflowHasLobes, SameInFE
            DEF F!WeightOverflow
  <2>5. GivenUp'
    BY <1>2, <2>1, <2>3, <2>4 DEF GiveUp, GivenUp
  <2> QED BY <2>1, <2>5 DEF Ends
<1>3. CASE CannotOpen
  BY <1>3, OtherEffect DEF Ends, CannotOpen
<1>4. CASE CannotWrite
  <2>1. /\ stage = "zoom" /\ ~CanWrite(dst) /\ stage' \in {"exit1", "crash"}
        /\ UNCHANGED <<job, pc, req>>
    BY <1>4, OtherEffect DEF CannotWrite
  <2>2. dst.fmt = job.dst /\ (job.dst \in Writable => dst.nchan = job.nchan)
    BY <2>1 DEF Settled, Progress
  <2> QED BY <2>1, <2>2 DEF Ends, CanWrite
<1>5. CASE CloseSource
  <2>1. stage = "zoom" /\ pc = "done" /\ stage' \in CloseRead(src) /\ UNCHANGED <<job, pc, req, src, asked>>
    BY <1>5, OtherEffect DEF CloseSource
  <2>2. src.fmt = job.src
    BY DEF Settled
  <2>3. CASE stage' = "closed"
    BY <2>1, <2>3 DEF Ends
  <2>4. CASE src.fmt = "jpg" /\ src.scanline < src.height /\ stage' = "exit1"
    <3>1. asked < Height - 1
      <4>1. src.scanline \in Int /\ asked < src.scanline /\ asked \in Int
        BY <2>4 DEF Files, Asked
      <4> QED BY <1>0, <2>4, <4>1
    <3> QED BY <2>1, <2>2, <2>4, <3>1 DEF Ends
  <2>5. CASE src.fmt = "png" /\ stage' = "crash"
    BY <2>1, <2>2, <2>5 DEF Ends
  <2> QED BY <2>1, <2>3, <2>4, <2>5 DEF CloseRead
<1>6. CASE CloseDest
  <2>1. /\ stage = "closed" /\ UNCHANGED <<job, pc, req, asked>>
        /\ \E how \in CloseWrite(dst) : stage' = IF how = "closed" THEN "exit0" ELSE how
    BY <1>6, OtherEffect DEF CloseDest
  <2>2. pc = "done"
    BY <2>1 DEF Ends
  <2>3. CASE NothingToDo(req)
    BY <2>1, <2>2, <2>3 DEF Ends, CloseWrite
  <2>4. CASE ~NothingToDo(req)
    <3>1. dst.fmt # "dump" => /\ dst.scanline \in Int /\ dst.scanline > 0
                               /\ dst.scanline = dst.height
      BY <2>2, <2>4, FileComplete
    <3>2. CloseWrite(dst) = {"closed"}
      BY <3>1 DEF CloseWrite
    <3> QED BY <2>1, <2>2, <3>2 DEF Ends
  <2> QED BY <2>3, <2>4
<1>7. CASE Ended \/ UNCHANGED vars
  <2>1. UNCHANGED <<stage, job, pc, req, asked>>
    BY <1>7 DEF Ended, vars, scanVars, fileVars
  <2> QED BY <2>1 DEF Ends, GivenUp
<1>8. CASE GiveUpColumns
  <2>1. /\ pc' \in {"xnull", "xoverflow"} /\ pc' \in req.xtables
        /\ UNCHANGED <<req, job>> /\ stage' = "exit1"
    BY <1>8, RequestFields, GiveUpColumnsEffect DEF Settled
  <2>2. req.xtables = XTables(XRequest(job))
    BY DEF Settled, RequestOf, DimRequest
  <2>3. /\ "xnull" \in XTables(XRequest(job)) => Coerced(XRequest(job))
        /\ "xoverflow" \in XTables(XRequest(job)) =>
             XRequest(job).lobes /\ ~Coerced(XRequest(job))
    BY RequestFields, ColumnsGivenUp DEF Settled
  <2>4. XRequest(job)' = XRequest(job)
    BY <2>1
  <2>5. GivenUp'
    BY <2>1, <2>2, <2>3, <2>4 DEF GivenUp
  <2> QED BY <2>1, <2>5 DEF Ends
<1> QED BY <1>1, <1>2, <1>3, <1>4, <1>5, <1>6, <1>7, <1>8 DEF Next

(* The invariant of the program: of the loop it runs, of the files it      *)
(* uses, and of how far it is (zoom_main.c:60-325, zoom.c:300-390).        *)
THEOREM Invariance ==
  ASSUME ~Roundoff, CopiesSpreadOneLine
  PROVE  Spec => []ProgramInv
<1>1. Init => ProgramInv
  <2>1. Init => Ends
    BY DEF Init, Ends
  <2> QED BY <2>1, InitLoop, InitSettled, InitAsked, InitFiles DEF ProgramInv
<1>2. ProgramInv /\ [Next]_vars => ProgramInv'
  BY NextLoop, NextSettled, NextProgress, NextAsked, NextFiles, NextEnds DEF ProgramInv
<1> QED BY <1>1, <1>2, PTL DEF Spec

(* Every row the program reads is the one it asked for: the loops read     *)
(* downwards, and so every format can follow (pic.3:75); the pixels start  *)
(* at the right column except in color png and bmp (png.c:299, bmp.c:523). *)
THEOREM SourceIsRight ==
  ASSUME ~Roundoff, CopiesSpreadOneLine
  PROVE  Spec => []SourceRight
<1>1. ProgramInv => SourceRight
  <2> SUFFICES ASSUME ProgramInv, asked >= 0 PROVE SourceRight
    BY DEF SourceRight
  <2>1. (src.row = IF src.fmt = "gif" /\ src.nchan = 1 THEN Zero ELSE asked) \/ Backwards
    BY DEF ProgramInv, Files, TP!SrcInv, TP!Behind
  <2>2. \/ ReadStart(src, cols.ax0) = src.nchan * cols.ax0
        \/ cols.ax0 > 0 /\ src.nchan = 3 /\ src.fmt \in {"png", "bmp", "bmpup"}
    <3>1. cols.ax0 \in Nat
      BY Places DEF ProgramInv, Settled
    <3>2. CASE src.nchan = 3 /\ src.fmt \in {"png", "bmp", "bmpup"}
      <4>1. ReadStart(src, cols.ax0) = cols.ax0
        BY <3>2 DEF ReadStart
      <4>2. CASE cols.ax0 = 0
        BY <3>2, <4>1, <4>2
      <4>3. CASE cols.ax0 > 0
        BY <3>2, <4>3
      <4> QED BY <3>1, <4>2, <4>3
    <3>3. CASE ~(src.nchan = 3 /\ src.fmt \in {"png", "bmp", "bmpup"})
      BY <3>3 DEF ReadStart
    <3> QED BY <3>2, <3>3
  <2> QED BY <2>1, <2>2 DEF SourceRight
<1> QED BY <1>1, Invariance, PTL

(* A destination that is saved holds the rows computed, each under its     *)
(* number, and is padded to its origin and as large as its header says;    *)
(* with the exceptions of dump, jpg and tif (dump.c:169, jpg.c:150,        *)
(* tif.c:166).                                                             *)
THEOREM SavedIsRight ==
  ASSUME ~Roundoff, CopiesSpreadOneLine
  PROVE  Spec => []SavedRight
<1>1. ProgramInv => SavedRight
  <2> SUFFICES ASSUME ProgramInv, Saved PROVE SavedRight
    BY DEF SavedRight
  <2> USE DEF ProgramInv
  <2>1. linewritten # {} /\ pc = "done"
    BY DEF Saved
  <2>2. /\ DstFirst(req) \in Nat /\ DstLast(req) \in Int
        /\ cols.bx0 \in Nat /\ cols.bnx \in Nat \ {0}
    BY Places DEF Settled
  <2>3. /\ linewritten \subseteq DstFirst(req) .. DstLast(req)
        /\ geo.b0 = DstFirst(req) /\ CanWrite(dst) /\ ~NothingToDo(req)
        /\ dst.width = IF dst.fmt = "dump" THEN cols.bnx ELSE cols.bx0 + cols.bnx
        /\ dst.height = IF dst.fmt = "dump" THEN DstLast(req) - DstFirst(req) + 1
                        ELSE DstLast(req) + 1
    BY <2>1 DEF Progress
  <2>5. dst.fmt # "dump" => /\ DOMAIN dst.rows = 0 .. dst.height - 1
                            /\ \A r \in DOMAIN dst.rows :
                                 IF r \in linewritten THEN dst.rows[r] = r
                                 ELSE dst.rows[r] = Zero \/ dst.fmt \in {"jpg", "tif"}
                            /\ linewritten \subseteq DOMAIN dst.rows
    BY <2>1, <2>3, FileComplete DEF Files, TP!FileInv, TP!FileRight
  <2>6. ASSUME NEW y \in linewritten
        PROVE  /\ Key(dst, y, cols.bx0) \in DOMAIN dst.rows
               /\ dst.rows[Key(dst, y, cols.bx0)] = y
               /\ \/ InHeader(dst, y, cols.bx0, cols.bnx)
                  \/ dst.fmt = "dump" /\ (geo.b0 > 0 \/ cols.bx0 > 0)
    <3>1. CASE dst.fmt = "dump"
      <4>1. /\ DOMAIN dst.rows = {z * dst.width + cols.bx0 : z \in linewritten}
            /\ dst.rows[y * dst.width + cols.bx0] = y
        BY <3>1 DEF Files, DumpHolds
      <4>2. ASSUME geo.b0 = 0, cols.bx0 = 0 PROVE InHeader(dst, y, cols.bx0, cols.bnx)
        BY <2>2, <2>3, <3>1, <4>2 DEF InHeader
      <4> QED BY <2>2, <2>3, <3>1, <4>1, <4>2 DEF Key
    <3>2. CASE dst.fmt # "dump"
      <4>1. InHeader(dst, y, cols.bx0, cols.bnx)
        BY <2>2, <2>3, <3>2 DEF InHeader
      <4> QED BY <2>5, <3>2, <4>1 DEF Key
    <3> QED BY <3>1, <3>2
  <2>7. WriteStart(dst, cols.bx0) = dst.nchan * cols.bx0
          \/ (cols.bx0 > 0 /\ dst.nchan = 3 /\ dst.fmt \notin {"dump", "pnm"})
    <3>1. CASE dst.nchan = 3 /\ dst.fmt \in {"jpg", "png", "tif", "bmp"}
      <4>1. WriteStart(dst, cols.bx0) = cols.bx0
        BY <3>1 DEF WriteStart
      <4>2. CASE cols.bx0 = 0
        BY <3>1, <4>1, <4>2
      <4>3. CASE cols.bx0 > 0
        BY <3>1, <4>3
      <4> QED BY <2>2, <4>2, <4>3
    <3>2. CASE ~(dst.nchan = 3 /\ dst.fmt \in {"jpg", "png", "tif", "bmp"})
      BY <3>2 DEF WriteStart
    <3> QED BY <3>1, <3>2
  <2> QED BY <2>5, <2>6, <2>7 DEF SavedRight
<1> QED BY <1>1, Invariance, PTL

(* A destination is lost only if there was nothing to compute, the weights *)
(* of a line or of a column gave it up, its device cannot write it, or the *)
(* source, which is closed first, ends the process (zoom_main.c:307,       *)
(* jpg.c:121, png.c:108).  Weights give up only a filter made narrower in  *)
(* that dimension than its windows were clipped for, or one that kept its  *)
(* negative lobes (zoom.c:346-350, 757-787).                               *)
THEOREM LossesExplained ==
  ASSUME ~Roundoff, CopiesSpreadOneLine
  PROVE  Spec => []LostOnlyIf
<1>1. ProgramInv => LostOnlyIf
  <2> SUFFICES ASSUME ProgramInv, Over, ~Saved PROVE LostOnlyIf
    BY DEF LostOnlyIf
  <2> USE DEF ProgramInv
  <2>1. DstFirst(req) \in Nat /\ DstLast(req) \in Int
    BY Places DEF Settled
  <2>2. ASSUME pc = "done", ~NothingToDo(req) PROVE linewritten # {}
    <3>1. linewritten = DstFirst(req) .. DstLast(req) /\ DstFirst(req) <= DstLast(req)
      BY <2>1, <2>2 DEF Progress, NothingToDo
    <3> QED BY <2>1, <3>1
  <2>3. CASE stage = "exit0"
    BY <2>2, <2>3 DEF Ends, GivenUp, Saved, LostOnlyIf
  <2>4. CASE stage \in {"exit1", "crash"}
    BY <2>2, <2>4 DEF Ends, GivenUp, Saved, LostOnlyIf
  <2> QED BY <2>3, <2>4 DEF Over
<1> QED BY <1>1, Invariance, PTL

(* For its files the program is a client that reads and writes from top to *)
(* bottom, as the picture package asks (pic.3:75): every step of it is a   *)
(* step of TopDown or leaves the files alone.                              *)
THEOREM FilesUsedTopDown ==
  ASSUME ~Roundoff, CopiesSpreadOneLine
  PROVE  Spec => ImplementsTopDown
<1>1. Init => Client!Init
  BY InitContract
<1>2. ProgramInv /\ [Next]_vars => [Client!Next \/ Backwards]_(Client!vars)
  <2> SUFFICES ASSUME ProgramInv, [Next]_vars, ~Backwards
               PROVE  Client!Next \/ UNCHANGED <<src, dst, asked, linewritten>>
    BY DEF Client!vars
  <2> USE DEF ProgramInv
  <2>1. CASE Open
    BY <2>1, OpenInContract DEF Client!Next
  <2>2. CASE Enter \/ GiveUpColumns
    BY <2>2, EnterInContract DEF Client!Next
  <2>3. CASE Read
    BY <2>3, ReadInContract DEF Client!Next
  <2>4. CASE Write
    BY <2>4, WriteInContract DEF Client!Next
  <2>5. CASE Compute \/ GiveUp
    BY <2>5, ComputeEffect, GiveUpEffect
  <2>6. CASE CannotOpen \/ CannotWrite \/ CloseSource \/ CloseDest \/ Ended \/ UNCHANGED vars
    BY <2>6, OtherEffect DEF CannotOpen, CannotWrite, CloseSource, CloseDest, Ended, vars, fileVars
  <2> QED BY <2>1, <2>2, <2>3, <2>4, <2>5, <2>6 DEF Next
<1> QED BY <1>1, <1>2, Invariance, PTL DEF Spec, ImplementsTopDown

-----------------------------------------------------------------------------
(***************************************************************************)
(* The rows the program writes are those it was asked for.                 *)
(***************************************************************************)

(* The least number of a set.                                              *)
LEMMA LeastOf ==
  ASSUME NEW S, S \subseteq Nat, S # {}
  PROVE  \E x \in S : \A y \in S : x <= y
<1> DEFINE less == OpToRel(<, Nat)
<1>1. IsWellFoundedOn(less, Nat)
  BY NatLessThanWellFounded
<1>2. PICK x \in S : \A y \in S : ~(<<y, x>> \in less)
  <2> HIDE DEF less
  <2> QED BY <1>1, WFMin
<1>3. \A y \in S : ~(y < x)
  BY <1>2 DEF OpToRel
<1> QED BY <1>3

(* LastOf is what it says.                                                 *)
LEMMA LastOfOptions ==
  ASSUME NEW opts \in Given, NEW sized \in BOOLEAN
  PROVE  LET i == LastOf(opts, sized)
         IN  /\ i \in 0 .. Len(opts)
             /\ i > 0 => opts[i].sized = sized
             /\ \A k \in 1 .. Len(opts) : opts[k].sized = sized => k <= i
<1> DEFINE n == Len(opts)
           Last(i) == /\ i > 0 => opts[i].sized = sized
                      /\ \A k \in 1 .. n : opts[k].sized = sized => k <= i
           bounds == {i \in 0 .. n : \A k \in 1 .. n : opts[k].sized = sized => k <= i}
<1>1. n \in Nat
  BY DEF Given
<1> HIDE DEF n
<1>2. bounds \subseteq Nat /\ n \in bounds
  BY <1>1
<1>3. PICK m \in bounds : \A i \in bounds : m <= i
  <2> HIDE DEF bounds
  <2> QED BY <1>2, LeastOf
<1>4. m > 0 => opts[m].sized = sized
  <2> SUFFICES ASSUME m > 0, opts[m].sized # sized PROVE FALSE
    OBVIOUS
  <2>1. m \in 0 .. n /\ \A k \in 1 .. n : opts[k].sized = sized => k <= m /\ k # m
    BY <1>3
  <2>2. m - 1 \in bounds
    BY <1>1, <2>1
  <2> QED BY <1>1, <1>3, <2>1, <2>2
<1>5. \E i \in 0 .. n : Last(i)
  BY <1>3, <1>4
<1> HIDE DEF Last
<1>6. LastOf(opts, sized) = CHOOSE i \in 0 .. n : Last(i)
  BY DEF LastOf, Last, n
<1>7. LastOf(opts, sized) \in 0 .. n /\ Last(LastOf(opts, sized))
  BY <1>5, <1>6
<1> QED BY <1>7 DEF Last, n

(* What options are.                                                       *)
LEMMA OptionsTyped ==
  ASSUME NEW opts \in Given, opts # <<>>
  PROVE  /\ Len(opts) \in Nat \ {0}
         /\ \A i \in 1 .. Len(opts) :
              opts[i].sized \in BOOLEAN /\ opts[i].lo \in Int /\ opts[i].v \in Int
<1>1. opts \in Seq([sized : BOOLEAN, lo : Int, v : Int])
  BY DEF Given
<1>2. Len(opts) \in Nat /\ Len(opts) # 0
  BY <1>1, EmptySeq
<1>3. \A i \in 1 .. Len(opts) : opts[i] \in [sized : BOOLEAN, lo : Int, v : Int]
  BY <1>1, ElementOfSeq
<1> QED BY <1>2, <1>3

(* A window given by options begins where the last one says, and ends      *)
(* where it or a -dw says.                                                 *)
LEMMA WindowGiven ==
  ASSUME NEW opts \in Given, opts # <<>>, EndsGiven(opts), NEW a
  PROVE  LET b == DestWindow(opts, a)
             k == Len(opts)
         IN  /\ k \in Nat \ {0}
             /\ b.lo = opts[k].lo /\ b.lo \in Int /\ b.hi \in Int /\ b.n = b.hi - b.lo + 1
             /\ \E i \in 1 .. k : (i = k \/ ~opts[i].sized) /\ b.hi = End(opts[i])
<1> DEFINE k == Len(opts)
           s == LastOf(opts, TRUE)
           e == LastOf(opts, FALSE)
           b == DestWindow(opts, a)
<1>1. /\ k \in Nat \ {0}
      /\ \A i \in 1 .. k : opts[i].sized \in BOOLEAN /\ opts[i].lo \in Int /\ opts[i].v \in Int
  BY OptionsTyped
<1>2. /\ s \in 0 .. k /\ (s > 0 => opts[s].sized = TRUE)
      /\ \A i \in 1 .. k : opts[i].sized = TRUE => i <= s
  BY LastOfOptions
<1>3. /\ e \in 0 .. k /\ (e > 0 => opts[e].sized = FALSE)
      /\ \A i \in 1 .. k : opts[i].sized = FALSE => i <= e
  BY LastOfOptions
<1>4. b = SetSize(Complete(GivenBy(opts)))
  BY DEF DestWindow
<1>5. GivenBy(opts) = [lo |-> opts[k].lo, hi |-> IF e = 0 THEN UNDEF ELSE opts[e].v,
                       n |-> IF s = 0 THEN 0 ELSE opts[s].v]
  BY DEF GivenBy
<1> HIDE DEF k, s, e, b
<1>6. CASE e = 0
  <2>1. opts[k].sized = TRUE
    BY <1>1, <1>3, <1>6
  <2>2. s = k
    BY <1>1, <1>2, <2>1
  <2>3. k # 0 /\ opts[k].lo \in Int /\ opts[k].v \in Int
    BY <1>1
  <2>5. GivenBy(opts) = [lo |-> opts[k].lo, hi |-> UNDEF, n |-> opts[k].v]
    BY <1>5, <1>6, <2>2, <2>3
  <2>6. Complete(GivenBy(opts)) = [lo |-> opts[k].lo, hi |-> opts[k].lo + opts[k].v - 1,
                                   n |-> opts[k].v]
    BY <2>5 DEF Complete, SetMax
  <2>7. /\ b.lo = opts[k].lo /\ b.hi = opts[k].lo + opts[k].v - 1
        /\ b.n = b.hi - b.lo + 1
    <3> DEFINE w == Complete(GivenBy(opts))
    <3>1. w = [lo |-> opts[k].lo, hi |-> opts[k].lo + opts[k].v - 1, n |-> opts[k].v]
      BY <2>6
    <3>2. b = [w EXCEPT !.n = w.hi - w.lo + 1]
      BY <1>4 DEF SetSize
    <3>3. w.lo = opts[k].lo /\ w.hi = opts[k].lo + opts[k].v - 1
      BY <3>1
    <3>4. /\ [w EXCEPT !.n = w.hi - w.lo + 1].lo = w.lo
          /\ [w EXCEPT !.n = w.hi - w.lo + 1].hi = w.hi
          /\ [w EXCEPT !.n = w.hi - w.lo + 1].n = w.hi - w.lo + 1
      BY <3>1
    <3> HIDE DEF w
    <3> QED BY <3>2, <3>3, <3>4
  <2>4. b.hi = End(opts[k])
    BY <2>1, <2>7 DEF End
  <2>8. /\ b.lo = opts[k].lo /\ b.lo \in Int /\ b.hi \in Int /\ b.n = b.hi - b.lo + 1
        /\ k \in 1 .. k
    BY <1>1, <2>3, <2>7
  <2> QED BY <1>1, <2>4, <2>8 DEF b, k
<1>7. CASE e # 0
  <2>1. e \in 1 .. k /\ opts[e].sized = FALSE /\ opts[e].v # UNDEF
    BY <1>1, <1>3, <1>7 DEF EndsGiven, k
  <2>2. b = [lo |-> opts[k].lo, hi |-> opts[e].v, n |-> opts[e].v - opts[k].lo + 1]
    BY <1>1, <1>4, <1>5, <1>7, <2>1 DEF Complete, SetSize
  <2>3. b.hi = End(opts[e])
    BY <2>1, <2>2 DEF End
  <2> QED BY <1>1, <2>1, <2>2, <2>3 DEF b, k
<1> QED BY <1>6, <1>7

(* A scale that is not larger than the window's own gives no more lines.   *)
LEMMA NoMoreLines ==
  ASSUME NEW an \in Int, an > 0, NEW bn \in Int, NEW sn \in Int, NEW sd \in Int, sd > 0,
         sn * an <= bn * sd
  PROVE  CeilDiv(an * sn, sd) <= bn
<1> DEFINE n == CeilDiv(an * sn, sd)
<1>1. an * sn \in Int /\ bn * sd \in Int
  OBVIOUS
<1>2. n \in Int /\ sd * n < an * sn + sd
  BY <1>1, CeilBounds
<1> HIDE DEF n
<1>3. sd * n \in Int /\ sd * (bn + 1) \in Int
  BY <1>2
<1>4. sd * n < sd * (bn + 1)
  BY <1>1, <1>2, <1>3
<1>5. n < bn + 1
  BY <1>2, <1>4, Scaled
<1> QED BY <1>2, <1>5 DEF n

(* Rounding a scale down makes it no larger.                               *)
LEMMA WholeIsNoLarger ==
  ASSUME NEW s, s.sn \in Int, s.sd \in Int, s.sd > 0, NEW an \in Int, an > 0, NEW bn \in Int,
         s.sn * an <= bn * s.sd
  PROVE  /\ Whole(s).sn \in Int /\ Whole(s).sd \in Int /\ Whole(s).sd > 0
         /\ Whole(s).sn * an <= bn * Whole(s).sd
<1>1. CASE s.sn > s.sd
  <2> DEFINE q == s.sn \div s.sd
  <2>1. q \in Int /\ s.sd * q <= s.sn
    BY DivBounds
  <2>2. Whole(s).sn = q /\ Whole(s).sd = 1
    BY <1>1 DEF Whole
  <2> HIDE DEF q
  <2>3. q * an \in Int /\ s.sd * (q * an) = an * (s.sd * q) /\ s.sd * q \in Int
    BY <2>1
  <2>4. an * (s.sd * q) <= an * s.sn
    BY <2>1, <2>3, Scaled
  <2>5. s.sd * (q * an) <= s.sd * bn
    BY <2>3, <2>4
  <2>6. q * an <= bn
    BY <2>3, <2>5, Scaled
  <2> QED BY <2>1, <2>2, <2>6
<1>2. CASE ~(s.sn > s.sd)
  BY <1>2 DEF Whole
<1> QED BY <1>1, <1>2

(* zoom_opt gives a window no more lines than it had: -square and          *)
(* -intscale only ever lower the scale (zoom.c:709).                      *)
LEMMA ZoomOptWithin ==
  ASSUME NEW a, NEW b, a.lo \in Int, a.n \in Int, a.n > 0,
         b.lo \in Int, b.hi \in Int, b.n = b.hi - b.lo + 1,
         NEW other, other.sn \in Int, other.sd \in Int, other.sd > 0,
         NEW square, NEW intscale
  PROVE  ZoomOpt(a, b, other, square, intscale).last <= b.hi
<1> DEFINE own == [sn |-> b.n, sd |-> a.n]
           sq  == IF square THEN Squared(own, other) ELSE own
           s   == IF intscale THEN Whole(sq) ELSE sq
           n   == IF s = own THEN b.n ELSE CeilDiv(a.n * s.sn, s.sd)
<1>1. b.n \in Int
  OBVIOUS
<1>2. /\ sq.sn \in Int /\ sq.sd \in Int /\ sq.sd > 0
      /\ sq.sn * a.n <= b.n * sq.sd
  <2>1. CASE sq = own
    BY <1>1, <2>1
  <2>2. CASE sq # own
    <3>1. sq = other /\ other.sn * a.n < b.n * other.sd
      BY <2>2 DEF Squared, Slower
    <3> QED BY <1>1, <3>1
  <2> QED BY <2>1, <2>2
<1> HIDE DEF sq
<1>3. /\ s.sn \in Int /\ s.sd \in Int /\ s.sd > 0
      /\ s.sn * a.n <= b.n * s.sd
  <2>1. CASE intscale
    BY <1>1, <1>2, <2>1, WholeIsNoLarger
  <2>2. CASE ~intscale
    BY <1>2, <2>2
  <2> QED BY <2>1, <2>2
<1> HIDE DEF s
<1>4. n <= b.n /\ n \in Int
  <2>1. CASE s = own
    BY <1>1, <2>1
  <2>2. CASE s # own
    <3>1. CeilDiv(a.n * s.sn, s.sd) <= b.n
      BY <1>1, <1>3, NoMoreLines
    <3>2. a.n * s.sn \in Int
      BY <1>3
    <3>3. CeilDiv(a.n * s.sn, s.sd) \in Int
      BY <1>3, <3>2, CeilBounds
    <3> QED BY <2>2, <3>1, <3>3
  <2> QED BY <2>1, <2>2
<1>5. ZoomOpt(a, b, other, square, intscale).last = b.lo + n - 1
  BY DEF ZoomOpt, s, sq
<1> HIDE DEF n, own
<1> QED BY <1>1, <1>4, <1>5

(* A window that options give has integers for its lines and their number. *)
LEMMA WindowTyped ==
  ASSUME NEW opts \in Given, opts # <<>>
  PROVE  LET b == SetSize(Complete(GivenBy(opts)))
         IN  b.lo \in Int /\ b.hi \in Int /\ b.n = b.hi - b.lo + 1
<1> DEFINE k == Len(opts)
           s == LastOf(opts, TRUE)
           e == LastOf(opts, FALSE)
           g == GivenBy(opts)
           c == Complete(g)
<1>1. /\ k \in Nat \ {0} /\ s \in 0 .. k /\ e \in 0 .. k
      /\ \A i \in 1 .. k : opts[i].lo \in Int /\ opts[i].v \in Int
  BY OptionsTyped, LastOfOptions
<1>2. g = [lo |-> opts[k].lo, hi |-> IF e = 0 THEN UNDEF ELSE opts[e].v,
           n |-> IF s = 0 THEN 0 ELSE opts[s].v]
  BY DEF GivenBy
<1> HIDE DEF k, s, e
<1>3. g.lo \in Int /\ g.hi \in Int /\ g.n \in Int /\ DOMAIN g = {"lo", "hi", "n"}
  BY <1>1, <1>2 DEF UNDEF
<1> HIDE DEF g
<1>4. c.lo \in Int /\ c.hi \in Int /\ DOMAIN c = {"lo", "hi", "n"}
  BY <1>3 DEF Complete, SetMax
<1> HIDE DEF c
<1>5. /\ SetSize(c).lo = c.lo /\ SetSize(c).hi = c.hi
      /\ SetSize(c).n = c.hi - c.lo + 1
  BY <1>4 DEF SetSize
<1> QED BY <1>4, <1>5 DEF c, g

(* The windows of a command line in one dimension, whatever its options.   *)
LEMMA SourceTyped ==
  ASSUME NEW opts \in Given, NEW size \in Int
  PROVE  LET a == SourceWindow(opts, size)
         IN  a.lo \in Int /\ a.hi \in Int /\ a.n = a.hi - a.lo + 1
<1>1. CASE opts = <<>>
  BY <1>1 DEF SourceWindow, SetSize
<1>2. CASE opts # <<>>
  BY <1>2, WindowTyped DEF SourceWindow
<1> QED BY <1>1, <1>2

(* The same of the destination window.                                     *)
LEMMA DestTyped ==
  ASSUME NEW opts \in Given, NEW a, a.lo \in Int, a.hi \in Int, a.n = a.hi - a.lo + 1
  PROVE  LET b == DestWindow(opts, a)
         IN  b.lo \in Int /\ b.hi \in Int /\ b.n = b.hi - b.lo + 1
<1>1. CASE opts = <<>>
  BY <1>1 DEF DestWindow
<1>2. CASE opts # <<>>
  BY <1>2, WindowTyped DEF DestWindow
<1> QED BY <1>1, <1>2

(* A request that has something to do has source lines.                    *)
LEMMA SomeLines ==
  ASSUME NEW r \in Request, ~NothingToDo(r)
  PROVE  r.a0 \in Int /\ r.a1 \in Int /\ r.a0 <= r.a1
BY DEF NothingToDo, SrcFirst, SrcLast, Greatest, Least, Request

(* The rows of a destination window that options give stay inside it.      *)
LEMMA DestRows ==
  ASSUME NEW j \in Jobs, j.map = <<>>, j.dy # <<>>, ~NothingToDo(RequestOf(j))
  PROVE  LET k == Len(j.dy)
         IN  /\ RequestOf(j).b0 = j.dy[k].lo /\ RequestOf(j).b0 \in Int
             /\ RequestOf(j).b1 \in Int
             /\ \E i \in 1 .. k : (i = k \/ ~j.dy[i].sized) /\ RequestOf(j).b1 <= End(j.dy[i])
<1> DEFINE ax  == SourceWindow(j.sx, Width)
           bx  == DestWindow(j.dx, ax)
           ay  == SourceWindow(j.sy, Height)
           by_ == DestWindow(j.dy, ay)
           z   == ZoomOpt(ay, by_, Scale(ax, bx), j.square, j.intscale)
           x   == XRequest(j)
           r   == RequestOf(j)
           k   == Len(j.dy)
<1>1. /\ j.sx \in Given /\ j.dx \in Given /\ j.sy \in Given /\ j.dy \in Given
      /\ EndsGiven(j.dy)
      /\ Width \in Int /\ Height \in Int
  <2>1. JobOK(j) /\ Width \in Int /\ Height \in Int
    BY JobsAssumption
  <2> QED BY <2>1 DEF JobOK
<1>2. /\ x \in Request /\ ~NothingToDo(x) /\ r \in Request
  BY RequestFields
<1>3. x.a0 = ax.lo /\ x.a1 = ax.hi
  BY DEF XRequest, DimRequest
<1>4. r.a0 = ay.lo /\ r.a1 = ay.hi /\ r.b0 = by_.lo /\ r.b1 = z.last
  BY DEF RequestOf, DimRequest
<1>5. /\ ax.lo \in Int /\ ax.hi \in Int /\ ax.n = ax.hi - ax.lo + 1
      /\ bx.lo \in Int /\ bx.hi \in Int /\ bx.n = bx.hi - bx.lo + 1
  <2>1. ax.lo \in Int /\ ax.hi \in Int /\ ax.n = ax.hi - ax.lo + 1
    BY <1>1, SourceTyped
  <2> HIDE DEF ax
  <2>2. bx.lo \in Int /\ bx.hi \in Int /\ bx.n = bx.hi - bx.lo + 1
    BY <1>1, <2>1, DestTyped
  <2> QED BY <2>1, <2>2
<1>6. ay.lo \in Int /\ ay.hi \in Int /\ ay.n = ay.hi - ay.lo + 1
  BY <1>1, SourceTyped
<1>7. /\ k \in Nat \ {0}
      /\ by_.lo = j.dy[k].lo /\ by_.lo \in Int /\ by_.hi \in Int
      /\ by_.n = by_.hi - by_.lo + 1
      /\ \E i \in 1 .. k : (i = k \/ ~j.dy[i].sized) /\ by_.hi = End(j.dy[i])
  BY <1>1, WindowGiven
<1>8. Scale(ax, bx).sn = bx.n /\ Scale(ax, bx).sd = ax.n
  BY DEF Scale
<1> HIDE DEF ax, bx, ay, by_, x, k
<1>9. ax.n \in Int /\ ax.n > 0 /\ bx.n \in Int
  BY <1>2, <1>3, <1>5, SomeLines
<1>10. ay.n \in Int /\ ay.n > 0
  BY <1>2, <1>4, <1>6, SomeLines
<1>11. z.last <= by_.hi
  BY <1>6, <1>7, <1>8, <1>9, <1>10, ZoomOptWithin
<1>12. r.b0 \in Int /\ r.b1 \in Int
  BY <1>2 DEF Request
<1> HIDE DEF z, r
<1>13. PICK i \in 1 .. k : (i = k \/ ~j.dy[i].sized) /\ by_.hi = End(j.dy[i])
  BY <1>7
<1>14. r.b1 <= End(j.dy[i])
  BY <1>4, <1>11, <1>13
<1> QED BY <1>4, <1>7, <1>12, <1>13, <1>14 DEF r, k

(* No row is written outside the window that was asked for, whatever       *)
(* -square and -intscale make of the scales (zoom.c:709-728); only a -d    *)
(* inherits the end of a -dw before it (zoom_main.c:247).                  *)
THEOREM RowsWithinAsked ==
  ASSUME ~Roundoff, CopiesSpreadOneLine
  PROVE  Spec => []WithinAsked
<1>1. ProgramInv => WithinAsked
  <2> DEFINE k == Len(job.dy)
  <2> SUFFICES ASSUME ProgramInv, job.map = <<>>, job.dy # <<>>, NEW y \in linewritten
               PROVE  /\ job.dy[k].lo <= y
                      /\ \E i \in 1 .. k : (i = k \/ ~job.dy[i].sized) /\ y <= End(job.dy[i])
    BY DEF WithinAsked
  <2>1. /\ job \in Jobs /\ req = RequestOf(job) /\ ~NothingToDo(req)
        /\ y \in DstFirst(req) .. DstLast(req)
    BY DEF ProgramInv, Settled, Progress
  <2>2. /\ DstFirst(req) \in Int /\ DstLast(req) \in Int
        /\ req.b0 <= DstFirst(req) /\ DstLast(req) <= req.b1
    BY <2>1, Places
  <2>3. /\ req.b0 = job.dy[k].lo /\ req.b0 \in Int /\ req.b1 \in Int
        /\ \E i \in 1 .. k : (i = k \/ ~job.dy[i].sized) /\ req.b1 <= End(job.dy[i])
    BY <2>1, DestRows
  <2> HIDE DEF k
  <2>4. y \in Int /\ req.b0 <= y /\ y <= req.b1
    BY <2>1, <2>2, <2>3
  <2>5. PICK i \in 1 .. k : (i = k \/ ~job.dy[i].sized) /\ req.b1 <= End(job.dy[i])
    BY <2>3
  <2>6. End(job.dy[i]) \in Int
    <3>1. job.dy[i].sized \in BOOLEAN /\ job.dy[i].lo \in Int /\ job.dy[i].v \in Int
      BY <2>1, <2>5, OptionsTyped, JobsAssumption DEF JobOK, k
    <3> QED BY <3>1 DEF End
  <2>7. y <= End(job.dy[i])
    BY <2>3, <2>4, <2>5, <2>6
  <2> QED BY <2>3, <2>4, <2>5, <2>7
<1> QED BY <1>1, Invariance, PTL
=============================================================================
