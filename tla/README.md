# zoom: a verification development

This directory holds TLA+ modules for *zoom* (Paul Heckbert's image resampling
program and its picture library), the TLC configurations that check them on small
instances, and theorems about them that TLAPS checks for every size of picture.
Every definition is read from the source; the numbers in the comments are lines of
`zoom/zoom.c` unless another file is named.

## 1. Inventory

The program is one sequential process. Its hard behaviour is not concurrency but
*order*: source and destination may be windows of the same picture, lines are read on
demand into a small circular buffer, most picture formats can only be read and written
downwards, and every decision about which line comes when is made in floating point.

| part | state | operations | hard behaviour | what makes it correct |
|---|---|---|---|---|
| `zoom`, `zoom_opt`, `zoom_continuous` (549-733) | mapping, clipped windows, filter support (`Filtpar`) | set up the mapping, clip, simplify filters, choose a loop | clipping, offsets and simplification depend on each other's order; strict against inclusive bounds | the loops get windows in which every line has source lines under its filter |
| `make_map_table` (852-916) | `ymap`, split point | order the destination lines | in place, one line off feeds back; roundoff | no source line is read after it was overwritten |
| `make_weighttab` (744-835) | `Weighttab` | bounds of the window, weights | rounding, trimming, windows without weight, weights too large for a short | window within the line buffer, weights sum to `WEIGHTONE` |
| `zoom_filtered_xy`, `_yx` (294-513) | `linebuf`, `linewritten`, accumulator | read, filter, accumulate, write | stale or evicted lines in the circular buffer | every line computed once, from unspoiled source lines |
| `zoom_unfiltered_mono`, `_rgb` (179-279) | `abuf`, `ayold`, `linewritten` | read, resample, write | the same with one line | the same |
| scanline package (`scanline.c`) | typed scanlines, sums in fixed width | read, filter, accumulate, shift, write | overshoot of negative lobes, bits dropped between the passes | no sum wraps, a flat picture stays flat, the error is that of the roundings |
| filter registry (`filt.c`) | table of filters, windowed compounds | find, insert, window | lazy initialisation | names are unique, lookups agree |
| command line (`zoom_main.c`) | windows, scale options, the two pictures | parse, open, zoom, close | windows given in parts; options that change scale and size after each other; a device that gives up the process while the other file is unfinished | rows stay in the window asked for; a destination is lost only for known reasons |
| picture dispatch (`pic.c`, `pic_all.c`, `pic_file.c`, `window.c`) | `Pic` (procedures and device data) | open by name, suffix or magic number; forward calls | order of calls (parameters, box, pixels) | a call reaches the device that was opened |
| sequential devices (`dump.c`, `pnm.c`, `jpg.c`, `png.c`, `tif.c`, `bmp.c`) | row counter or file position, header written or not | box, channels, rows, close | rows out of order, skipped or repeated; partial rows; the header written late | row y read is row y of the file; row y written is row y of the picture |
| GIF reader (`gif.c`, `readGIF.c`) | code stream, string table, interlace position | read blocks, codes, rows | codes across bytes and blocks, growing code size, table limit, interlacing | every pixel is decoded as coded and stored where it belongs, the reader stops behind the image |
| `swap.c` | | swap the bytes of words | built; used to guess formats by magic number (pic_file.c:86-93) and, on some machines, for the header of dump | |
| `rle*.c`, `iris*.c`, `mallocNd.c` | | | not built | |
| jpeg-6b, libpng, netpbm, tiff, zlib | | | third-party code | |

Interaction: the command line opens two `Pic`s and calls `zoom_opt` or
`zoom_continuous`; these clip, tell the destination its window, choose a filter and call
one of the four loops; the loops call `make_map_table` once and `make_weighttab` once per
line, read through `scanline_read` or `pic_read_row*` and write through `scanline_write`
or `pic_write_row*`; the device translates a row number into a file position or counts
rows. All calls are synchronous; the only shared state is a picture that is source and
destination at once.

The hazards (`PROJECT.json`) are listed at the line where they bite.

## 2. Modules

| module | models | checked by |
|---|---|---|
| `ZoomGeometry` | the y geometry of a zoom: `zoom`, clipping, support, offsets, `simplify_filter`, the bounds of `make_weighttab`, `make_map_table` | through the loops |
| `ZoomScan` | what the loops share: pictures, order of the lines, `linewritten`, FEEDBACK | through the loops |
| `FilteredZoom` | `zoom_filtered_xy` and `zoom_filtered_yx` | `zoom_window`, `zoom_map`, `zoom_roundoff` and the violation runs |
| `UnfilteredZoom` | `zoom_unfiltered_mono` and `zoom_unfiltered_rgb` | `point_window` |
| `Resample` | abstract: what a zoom promises, whatever the order and buffering | refined by both loops |
| `FilterFunctions` | the piecewise polynomial filters of `filt.c` at rational arguments | through `WeightTable` |
| `WeightTable` | `make_weighttab`, one step per sample | `weights` |
| `ScanlineSums` | `scanline.c`: the fixed-point arithmetic of one channel of one pixel | `pipeline` |
| `PicFile` | the picture devices: their records and what each procedure does to them | through `ZoomFiles` |
| `TopDown` | abstract: a client that reads and writes rows downwards, on any two devices | refined by `ZoomFiles`; TLAPS |
| `ZoomFiles` | the program: options, windows, opening, the two loops (as instances) on two `PicFile`s, closing, exit | `zoom_files` |
| `GifReader` | `readGIF.c`: one image, from blocks of bytes to rows of pixels | `gif` |
| `ZoomGeometryProofs` | lemmas: windows, clipping, the split formula | TLAPS |
| `FilteredZoomProofs` | the filtered loop, for every rounding | TLAPS |
| `ExactZoomProofs` | the filtered loop in exact arithmetic, up to its refinement of `Resample` | TLAPS |
| `UnfilteredZoomProofs` | the unfiltered loop, up to its refinement of `Resample` | TLAPS |
| `TopDownProofs` | the devices under any top-down client | TLAPS |
| `ZoomFilesProofs` | the program: both loops, options and files together, up to its refinement of `TopDown` | TLAPS |
| `WeightTableProofs` | a table stays in its source and its memory; its weights are the nearest and sum to one; which filters overflow or add up to nothing | TLAPS |
| `ScanlineSumsProofs` | flat pictures stay flat; sums stay in range; pixels are near the exact ones | TLAPS |
| `MCFilteredZoom`, `MCZoomWindow`, `MCZoomMap`, `MCZoomCases`, `MCUnfilteredZoom`, `MCWeightTable`, `MCScanlineSums`, `MCZoomFiles`, `MCGifReader` | instances: the sets of requests, tables, command lines and formats | |

### How the model corresponds to the code

*Numbers.* The code computes in doubles. The models keep every quantity as an exact
rational on an integer grid: `scale = sn/sd`, `tran = T/(2 sd)`, `offset = U/(2 sd)`,
`support = P/(2 sn)`, and each `floor`, `ceil` and cast to `int` becomes an integer
division. Hardware roundoff is explicit: with `Roundoff = TRUE`, wherever the exact
argument of a truncation is an integer the result may also be the neighbour that an
argument a hair off would give. Two expressions the code computes twice from the same
operands round the same way both times (`low` in the geometry), and the two ends of a
window are correlated as their common center makes them. With `Roundoff = FALSE` the
arithmetic is exact, which is what doubles give for most small zooms.

*Lines.* A source line is abstracted to where its pixels came from: its own number, or
`Dirty` once a destination line was written over it. A destination line is the function
from the source lines accumulated into it to the content they had at that time. Weights
are left out; what of them decides control is kept: a window whose weights are all zero
(`Weightless`: a cardinal filter with every line a whole number of lines away) shrinks to
its middle line (798-804), and a filter with negative lobes that is cut off at the edge of
the source may stop the program (784-787, `WeightOverflow`).

*Weights.* `WeightTable` samples the real filters: at a rational distance a piecewise
polynomial is a fraction, so `den`, `tr` and the rounding are exact. `WEIGHTONE` is 64 and
a short holds up to twice that, as in the code (14 bits of weight in a short). The run
checks what the scan loops take from it: a window shrinks to its middle exactly under the
condition `Weightless` of the geometry (`CenterOnlyIffWeightless`), and the overflow exit
needs negative lobes and a window cut off at an edge (`OverflowOnlyIfCutOff`), the guard of
`WeightOverflow`.

*x.* The model is of the vertical direction. The horizontal one enters where control
depends on it: whether the windows overlap in x (`xover`), whether the x filter is
point sampling (`xpoint`), and whether the weight tables of the columns, all made before
the first line is read (346-350, 459-463), stop the program there: one of them may have no
weights or one that is too large, as those of the lines may (`ColumnTables`, `XTables`, and
`xtables` of a request). Mapping and filter of x are its own, as with `-map sx sy tx ty` and
`-filt x y`. The choice between the xy and yx loops does not change which lines are read
or written when, so one module models both.

*Actions of `FilteredZoom`.* `Skip` and `Setup` are `zoom_continuous` up to its dispatch
together with the allocations of the loop, the tables of the columns and `make_map_table`;
`ColumnsFail` is the exit one of these tables may take instead; `BeginLine`, `NullFilter` and
`WeightOverflow` are the head of the loop with `make_weighttab`; `UseLine` and `ReadLine` are
one turn of the inner loop, with the line found in the buffer or not;
`WriteLine` is the tail of the loop; `Finish` leaves it. `UnfilteredZoom` has `KeepLine` and
`ReadLine` for the test against `ayold`.

*The promise.* `Resample` states in absolute coordinates, by inequalities and with no
order, which destination lines a zoom computes and from which source lines, each with its
own content. That the loops implement it (`ImplementsResample`) says at once: the clipping,
offset and truncation arithmetic finds the right lines; the buffer hands out the right
ones; in place gives what two pictures would give; no line is computed twice.

*The program.* `ZoomFiles` instantiates both loops and joins their steps to the files: a
`ReadLine` of a loop is also a `pic_read_row` of the source, a `WriteLine` a
`pic_write_row` of the destination. `Enter` sets the window of the destination (not for a
scale of zero, where 566-568 return before 616) and gets to the first line of a loop;
`GiveUpColumns` sets it and exits with the tables of the columns. `SourceWindow`, `DestWindow` and `ZoomOpt` compute the
request from the options as `zoom_main.c` and `zoom_opt` do, in both dimensions: the
columns are not scanned, but their windows decide where in a row pixels are transferred
and whether the loop is filtered. `CloseSource` comes before `CloseDest`, as at
`zoom_main.c:307`, and each may give up the process.

*Devices.* A device is a record: the next row of the file, what the row buffer holds, for
dump the cached position and that of the file. One operator stands for a procedure of
one device, or of several that do the same (`seek_row_read` for jpg, png, tif and bmp).
A row is its number, `Zero` if it was cleared and nobody wrote it, `Junk` if it was
never cleared; the pixels of a row are the byte at which they start.

A command line is a record whose windows are sequences of options, so that a later option
overrides what it gives of an earlier one and inherits the rest (`GivenBy`). `JobsAssumption`
says what command lines are meant: readable sources, columns that are not all clipped away,
a destination that begins inside its picture, and no `-sw` or `-dw` that ends at the line by
which the program tells that no end was given (zoom_main.c:243). `Boxes`, `Rows` and `Spans`
are what these command lines ask of the files; they are finite in the run only.

*The client.* `TopDown` is the contract the libraries rely on (`pic.3`: parameters before the
first row) and the devices' sequential readers silently need: rows are asked for
downwards. `ZoomFiles` is shown to be such a client, except after a line without weights.

*GIF.* The file is written first, code by code, by the rules of the format and with the
table of strings the format defines; then the reader of `readGIF.c` takes it apart with its
buffer, its bit positions and its prefix table. What was sent and what was decoded are
compared pixel by pixel. The writer decides how the bytes are cut into blocks only when the
reader asks for one, which is the same and keeps the state small.

*Sums.* `ScanlineSums` takes one source pixel per step. A table of weights is its running
sums and its running magnitudes, so that neither needs recursion; `Short` is what the assignment to a
short leaves. `exact` is a history variable with all the bits, for comparison.

## 3. What the runs check

| run | instance | checks |
|---|---|---|
| `zoom_window` | `zoom()` between all windows reaching one line beyond a picture of 5 lines, eight filters, different pictures / side by side / in place; exact | `TypeOK`, `NoFeedback`, `ForwardReads`, `ImplementsResample`, `Completes` |
| `zoom_map` | explicit mappings of six scales and nine translations on 3 lines, destination with or without a size; exact | `CorruptionReported`, `FeedbackOnlyIf`, `NullFilterOnlyIfCoerced` |
| `zoom_roundoff` | as `zoom_window` on 4 lines, every rounding | `SplitSurvivesRoundoff`, `OverfullOnlyByRoundoff`, `WritesAreFresh` |
| `point_window` | point sampling (point, and box where it reduces to it) between all windows on 5 lines; exact | `TypeOK`, `NoFeedback`, `ReadsSourceWindow`, `ForwardReads`, `ImplementsResample`, `Completes` |
| `weights` | seven filters, scales 1, 3/2 and 2, sources of 1 to 5 lines, every center on a grid of 1/8 line that clipping leaves, with and without trimming; also filters narrowed to a point | `TypeOK`, `SumIsOne`, `FudgeSlight`, `WeightsFit`, `TrimsOnlyZeros`, `OverflowOnlyIfCutOff`, `CenterOnlyIffWeightless`, `TableTame` |
| `pipeline` | both orders of the filters, every pair of tables of up to three weights between -27/16 and 29/16 of one, all flat pictures and those of black and white | `FlatField`, `SumsFit`, `NearExact` |
| `zoom_files` | every pair of formats, grey and color, with and without windows in x and y; every combination of y windows, `-square`, `-intscale`, four filters and three mappings on a pnm file of 2 x 3; mappings and filters that differ in x and y from pnm to tif | `SourceRight`, `SavedRight`, `LostOnlyIf`, `WithinAsked`, `ImplementsTopDown`, `Terminates` |
| `gif` | every well-formed stream of up to five codes (pixels, any entry of the table, the entry about to be made) over two pixels, code sizes of 3 bits or 3 then 4, plain and interlaced images of up to nine pixels, blocks of 1 or 3 bytes in every order | `PixelsRight`, `ImageComplete`, `GarbledOnlyIf`, `InSync`, `StringsEnd`, `Completes` |
| `roundoff_buffer` | lines -1..19 to 12..18, triangle, in place, every rounding | `NoFeedback` is violated |
| `moved_up` | `-map 1 1 0 -3.5`, cubic, in place | `NoFeedback` is violated |
| `narrowed` | `-filt cubic catrom -map 1 1 0 0`, lines 2..3 to 0..5 | `NeverNullFilter` is violated |
| `trimmed_feedback` | `-plain`, catrom, one line down from a window that begins above the picture | `NoFeedback` is violated |

*Bounds of the loops.* `H` (the height of the pictures) and the request sets are the only
bounds; a zoom is finite by itself. Five lines with windows from -1 to 5 give every scale
n/m with n, m up to 7, every position of the windows against each other and against the
edges of the picture, and windows wider than the whole buffer (catrom at 1/7 spans 28
lines). Twenty-one lines to seven need a
picture of 22 lines and have a run of their own, as that is a zoom for which the doubles of the code
do round the two ends of a window apart.

*Bounds of the weights and sums.* A grid of 1/8 has the points where the filters are not
smooth (multiples of 1/2 at scales 1 and 2), both sides of them, and centers on lines and
between them; five lines hold a whole filter at scale 1 and only parts of one at scale 2,
cut off at either edge or both. The sums are checked with `Chan = Spare = 4`, so that a
weight of one is 16 and a short holds twice that, the proportion of the code (8 and 6
bits, 14 of weight); three weights hold a lobe before, between and after the others, and
tables range up to the largest weight a short holds. `SumsFit` and `NearExact` need tables
that are not wilder than three ones in magnitude; `TableTame` of the `weights` run says
that `make_weighttab` gives no other for scales up to 2. At larger scales it can: the table
of section 5 for catrom minifying by 5/2, cut off at the edge of the source, comes to 3.92
ones. Beyond three, white can wrap around to black between the passes: the check of single
weights at 784 alone does not exclude it. For the sum of the first filter alone
`SumsFit` is content with `4 * Spare` ones, which every table of the run has.

*Bounds of the files.* What a device does depends on whether a row is the next, a later or a
past one, first or last, inside or beside the window: three rows and two columns have all
of these. Seven pairs of an x and a y filter under four mappings (each dimension made
narrower or wider than the other, and no scale at all) reach every exit over the weights
of a line or of a column. `ZoomFiles` leaves larger pictures to the runs of the loops and to `TopDownProofs`,
which has no bounds.

*Bounds of GIF.* Bytes of two bits with codes of three and four straddle two and three
bytes at every offset, as codes of up to twelve bits do in bytes of eight, and a block of one
byte is shorter than a code, one of three bytes not. Five codes fill the three-bit table, grow
the code size, use entries in the step after they were made and the entry only about to be
made, and clear the table at the start, the middle and the end. Images of nine pixels have
heights that reach all four passes of interlacing.

*Fairness.* `FairSpec` adds `WF_vars(Next)`: one thread runs, and nothing blocks it. In
`ZoomFiles` the same holds of the whole program, whose files are local. In `GifReader` only
the reader is fair, `WF_vars(pc # "write" /\ Next)`: whoever writes the file may never end.
`Completes` of the filtered loop excepts the two exits of `make_weighttab`, over a line or
over a column, under the conditions that make them possible.

## 4. Where code and documentation disagree

The four violation runs state what the source says of itself; each was reproduced by
running the compiled loop.

* *roundoff_buffer.* 19-22: the scanning directions avoid feedback, and 888-899 takes care
  that roundoff does not move the split. It does not, but nothing guards the width of
  the buffers, 81: "max number of nonzero samples". For lines -1..19 to 12..18 with the
  triangle filter the window of line 17 rounds to 12..18, seven lines for `wid = 6`. Line 18,
  from the lines 15..19, is written first and spoils source line 18, of which the buffer
  still has a copy. For line 17, reading source line 12 evicts 18 from the slot they share, and
  18 is read again, spoiled, as the last line of the same window. The compiled loop says
  `FEEDBACK ON LINE 18`. `OverfullOnlyByRoundoff` says that one line too many is the worst
  that happens, and only where the lower end of the window was rounded down. For seven lines
  to nine the center of line 4 is 3.4999999999999996 and the window three lines for
  `wid = 2`; there `make_weighttab` writes one short past the end of `yweight.weight`.
* *moved_up.* 866: "if moving left then scan to right, and vice versa", but 867 looks at the
  windows after clipping instead of at `tran`.
* *narrowed.* 598-615 clip the destination to the full support, 632-633 then narrow the
  filter to a point: a line that only the full support reaches has no source line and the
  program exits. If the x filter is narrowed as well, the unfiltered loop has no such
  check: it reads lines outside the source window, and in place these may have been
  overwritten without a FEEDBACK message since the windows need not overlap.
* *trimmed_feedback.* 286-290: "trimming zeros in yweight could cause feedback", and it is
  what 798-804 do whatever `trimzeros` says. The line skipped is read later, backwards, and
  in place after it was overwritten.

`SplitSurvivesRoundoff`, `FeedbackOnlyIf` and `NullFilterOnlyIfCoerced` state the positive side.
Whatever the roundoff, a zoom feeds back only if it moves backwards (*moved_up*), if a window
is wider than the buffers (*roundoff_buffer*) or if a line has no weights
(*trimmed_feedback*); in exact arithmetic the second does not happen, and a null filter needs
a filter narrowed after clipping (*narrowed*). `ForwardReads` excepts the zooms with a line
without weights, which read backwards.

Where the devices do less than a caller would expect, no sentence of the source says
otherwise; the properties of `ZoomFiles` and `GifReader` state the exception beside the
rule, so that a run shows there is no other:

* `SourceRight`: color rows of png and bmp are indexed by the column instead of three times
  the column (png.c:299, bmp.c:523), which is right only for windows at the left edge. A
  grey gif is read as zeros (gif.c:216). After a line without weights
  (*trimmed_feedback*) rows are asked for backwards, and a sequential device gives another.
* `SavedRight`: dump forgets the origin of the window it is given (dump.c:170), so rows come to
  lie behind the end its header tells of; jpg and tif pad skipped rows with a buffer
  nobody cleared (jpg.c:147, tif.c:163); jpg, png, tif and bmp misplace color pixels beside
  the left edge.
* `LostOnlyIf`: a line or a column without source under its filter, which takes a filter
  narrowed after clipping, or with a weight too large for a short, which takes lobes, stops
  the program (761-764, 784-787), with the destination open. Main closes the source first, and `jpeg_finish_decompress` exits if rows
  are unread (jpg.c:66); a jpg, png or tif destination is then never finished. `picpng_close`
  calls `png_write_end` on a reader too (png.c:87), whose error returns into a `setjmp` of
  a function that has returned. A grey jpg destination exits and a grey bmp destination
  asserts (bmp.c:355) at its first row, a gif destination cannot be opened.
* `WithinAsked`: a `-d` after a `-dw` keeps the end of the latter (zoom_main.c:247).
* `PixelsRight`: in interlaced images of 2 or 4 rows a pass starts in the row below the last
  (readGIF.c:527 compares with `>`). `GarbledOnlyIf`: a code longer than a data block is
  cut short, since one block at a time is added to the buffer. `InSync`: a clear code
  directly before the end code makes the reader take the latter for a pixel and leave the
  rest of the image unread.

## 5. What is proved

### The filtered loop, however it rounds (`ZoomGeometryProofs`, `FilteredZoomProofs`)

Assumptions: `RoundoffAssumption` (a Boolean) and `RequestsAssumption` (requests are well
formed, pictures at most `PicHeight` high, `Dirty` is not a line number, a picture zoomed
into itself has one height). Nothing restricts mapping, filter, windows or rounding.

* `TypeCorrect`: `Spec => []TypeOK`. The loop indexes its buffers and windows within
  bounds. It rests on `Clipping` and `GeometryTyped` (what is left after clipping is a
  nonempty window of the picture), `WidthsPositive`, `WindowsInside` and `OrdersPermute`.
* `FeedbackCheckComplete`: `Spec => []CorruptionReported`. The inductive invariant `Inv`
  adds to `TypeOK`: the lines written are those the first `byi` entries of `ymap` name
  (`WrittenInOrder`), a source line that lost its content shares its row with a written
  line (`OnlyWritingChanges`), the code's overlap test is exactly "a line of the source
  window can be a row of the destination window" (`OverlapIsSharing`), and until FEEDBACK is
  reported the buffer and the accumulator are genuine. A line read from the source window
  that was overwritten is therefore in both windows, so `overlap` is set and the check sees
  it. Without `OverlapIsSharing` the invariant is not inductive: the check could be off
  while a row is shared.
* `LinesWrittenOnce`: `Spec => WritesAreFresh`, from `WrittenInOrder` and the injectivity of
  `ymap`.
* `OrdersPermute`: wherever the split point falls the order is a permutation, and without
  overlap it is the identity.
* `RoundoffSurvived`: `Spec => []SplitSurvivesRoundoff`, the magic split formula (864-901) is
  right whatever the roundoff. It is the combination of

  * `GeometryAligned`: what `zoom_continuous` prepares is `Aligned`, that is, the offset is the
    one of the clipped windows, the buffers are at least as wide as the filter, and what
    was rounded down is a truncation that can be. A translation whose source window lies
    behind its destination has `T # P`, because clipping is strict; without this conjunct
    the split of a translation by exactly the support could round either way.
  * `SplitIsSafe`, about geometry alone: if line `k` is in the window of the `n`-th line
    computed and was written before as the `i`-th, it is in the window of the line computed
    last. Magnifying, the first line above the split and the windows are compared by
    inequalities with slack for roundoff on both sides (`MagnifySplit`); minifying, there is
    no slack, and what saves it is that the code repeats the truncation of `make_weighttab`
    (`MinifySplit`, 888-899), which the model rounds the same way (`LowEndsAgree`);
    a translation has windows that move with the line.
  * the inductive invariant `ScanInv`: the geometry is aligned (`LoopReady`), the window is one
    of those of the line (`WindowChosen`), unless some window is too wide all of it that
    was accumulated is in the line buffers (`Buffered`), and what is still to be accumulated
    is in the buffer or was not overwritten (`AheadUnspoiled`). `SplitIsSafe` is the step from
    `Buffered` of one line to `AheadUnspoiled` of the next; `SlotsDiffer` that no line of a
    window evicts another.

* `OverfullByOne`: `Spec => []OverfullOnlyByRoundoff`, from `ScanInv` and the bounds of a window. The
  buffers are short by one line at most, which is what *roundoff_buffer* shows.

### The filtered loop in exact arithmetic (`ExactZoomProofs`)

All theorems assume `~Roundoff`. `ExactInvariance` follows from `ScanInvariance`: with nothing
rounded a window is known exactly (`ExactWindow`: the lines `Near` the center) and none is
too wide (`WindowsFit`).

* `FeedbackCases` (`FeedbackOnlyIf`) and `BufferLargeEnough` (a window fits into the buffers, what
  `OverfullOnlyByRoundoff` comes to without roundoff), for every request.
* `SourceReadInOrder`: `Spec => ForwardReads`. The invariant `ForwardInv` says that no line was
  read beyond the filter of the line read for last and that what is ahead comes after all
  that was read; `ReachGrows` makes it hold of the next line.
* `GivesUpOnlyIfCoerced` (`NullFilterOnlyIfCoerced`): a filter that keeps its width finds a line
  under it for every line that clipping leaves (`SomeLineNear`). `NullFilterCoerced` and
  `OverflowHasLobes` are the two exits as the program takes them.
* `ZoomInPlace`: `Spec => []NoFeedback` for the requests of `zoom()` (`FromZoom`), from
  `ZoomNotBackwards` (rounding and clipping keep the direction of the move) and
  `ZoomNotTrimmed` (a line has weights). The latter needs `FilterFinds`: with a cardinal filter
  wider than the triangle the source window is inside the picture. The run
  `trimmed_feedback` shows that one beginning above the picture feeds back; filters up
  to the triangle need no such hypothesis (`NarrowNotTrimmed`).
* `ResampleImplemented`: `Spec /\ []NoFeedback => ImplementsResample`, step by step: `WriteLine` is
  the `Compute` of `Resample`, everything else stutters. It adds `WindowAccumulated` (what was
  accumulated is the window so far) and `IdealWindow` (the truncations of `make_weighttab`
  find the lines that the inequalities of `Resample` name). `ZoomImplementsResample` puts
  the two together for `zoom()`.

### The unfiltered loop (`UnfilteredZoomProofs`)

Hypothesis of all theorems: every request `SpreadsOneLine`, its filter was as narrow as a line
when the windows were clipped (point sampling, or box unless it minifies) or is the
triangle under a translation by whole lines, which the strict clipping leaves no line
without its source. Wider filters that `simplify_filter` narrows afterwards are the finding
*narrowed*, and for those the statements are false. The first four hold for every rounding:

* `TypeCorrect`, `SamplesInside` (`ReadsSourceWindow`), `SourceReadInOrder` (`ForwardReads`), and
  `FeedbackCheckComplete` (a destination line computed before any FEEDBACK has the content
  of its source line). The invariant: the geometry is one of a point filter (`PointLoop`), `abuf` is
  the line sampled for the line before (`LineRemembered`), lines are written in the order of
  `ymap`, only writing changes the picture, and buffer and copies are genuine.
* `FeedbackCases` and `ZoomInPlace` in exact arithmetic: the line sampled is the only one near
  the center (`SampledIsNear`), so that `SplitIsSafe` says that an overwritten line is the one
  still in `abuf`.
* `ZoomImplementsResample`, in exact arithmetic.

Two lemmas of each loop are for the program: `ReadsAhead` (every line read comes after the
one in the buffer, unless a line without weights came between) and `WritesInOrder` (between
two pictures line `b0 + byi` is the next one written).

### The devices (`TopDownProofs`)

Assumption: `PaddingAssumption` (the two paddings are no row numbers). Sizes, boxes, rows
and parts of rows are any numbers for which the calls make sense.

* `RowsAreRight`: `Spec => []RowRight`, every reader delivers the row it was asked for.
* `FilesAreRight`: `Spec => []FileRight`, a file holds every row under its own number, with
  padding before and between them and nothing else; the padding is black except in jpg
  and tif, where it is junk or a row written before.
* `PositionsAreRight`: `Spec => []PositionRight`, dump never believes to be elsewhere than
  where its file is.

The invariant `Inv` relates the counters to what the client did. `SrcInv`: a counting reader is
at most one row past the row asked for last, so that the next row asked for is still to come;
dump's position is that of the cached row and column. `DstInv` is the same for dump as a
writer, and that nothing was moved before the first row, since the width the positions
are counted by may change until then. `FileInv`: the last row of the file
was written by the client, every row written is below the counter, and what the buffer
holds is such a row or junk. Without the bound on the rows written, the next row (which is
further down than all of them) could be a row the counter has passed, and land under
another number; without the last part nothing could be said of the padding of jpg and tif.

### The program (`ZoomFilesProofs`)

Assumptions: `JobsAssumption`, above, with those of the loops and of the devices. All theorems
are in exact arithmetic (`~Roundoff`), where the loops between two pictures read downwards,
and assume `CopiesSpreadOneLine`, the hypothesis of the unfiltered loop for the requests that
get to it. Nothing restricts sizes, formats, channels, windows, mappings, `-square`,
`-intscale` or the filters of the other loop. The command lines of `zoom_files` satisfy all of it, and
some of them get the triangle to the unfiltered loop.

The theorems of the parts are used, not repeated: `ExactZoomProofs`, `UnfilteredZoomProofs` and
`TopDownProofs` are instantiated with the variables of the program, and the bridging
lemmas (`FilteredStep`, `UnfilteredStep`, `SameFiles`) say that a step of the program is a step
of each part it moves. An instance of a theorem `Spec => []P` is of no use here, as a loop
does not run by itself but from its entry within another behavior; so what is used are
the inductive steps, of the invariants that the parts export.

* `Invariance`: `Spec => []ProgramInv`, where
  * `LoopInv` is the invariant of whichever loop runs, before, in and after it;
  * `Settled` is what the command line fixes: request, columns, the devices and their sizes;
  * `Progress` relates the stage of `main` to the loop: no row before the window is set, the header
    size is that of the window, rows written are in the valid window and are all of it
    when the loop is done;
  * `Asked` is the line read last, as the buffer of the loop knows it. It is what makes the
    next read one further down (`ReadsForward`);
  * `Files` carries the invariant of the devices, as long as no line was without weights for
    the source, and always for the destination, whose rows come in order whatever is
    read; `DumpHolds` adds which rows a dump file holds, since dump keeps only the width
    and `FileRight` says nothing of it;
  * `Ends` says for every way the program can be over how it came to it. Its part `GivenUp` has
    the four exits of `make_weighttab`. Those over a line follow from the invariant of the
    loop. Those over a column do without a loop: `XRequest` is the request of the columns,
    treated as that of the lines is, so that what was proved of the geometry of one
    holds of the other (`ColumnsGivenUp`).
* `SourceIsRight` (`SourceRight`), `SavedIsRight` (`SavedRight`) and `LossesExplained` (`LostOnlyIf`)
  follow from it. For `SavedRight` the size the header tells of must be that of the file:
  the loop wrote the last row of the window (`FileComplete`).
* `RowsWithinAsked` (`WithinAsked`): `ZoomOptWithin` says that the scale chosen by `-square` and
  `-intscale` is at most the one of the window, so that rounding up the number of lines
  gives no more of them; `WindowGiven` finds the option a window's end comes from. `LastOf`
  is a CHOOSE, and that there is such an option (`LastOfOptions`) needs the least number of a
  set (`LeastOf`, from `WFMin`).
* `FilesUsedTopDown` (`ImplementsTopDown`): initial states map to initial states, and every step
  of the program is a call of `TopDown` within its contract (`OpenInContract`, `EnterInContract`,
  `ReadInContract`, `WriteInContract`), a stutter of its files, or comes after a line without
  weights.

### The weights (`WeightTableProofs`)

Assumption: `WeightAssumption` (an even grid, a positive `WEIGHTONE`, calls with a filter of
the seven, a positive scale, any center, any length of the source). So for every scale that is a
multiple of 1/2 and every rational center.

* `TypeCorrect` and `AllocationSuffices`: `Spec => []TypeOK` and `Spec => []WeightsFit`. The
  invariant `TableInv` says during sampling that there is a weight for every line from `i0` on,
  that nothing but zeros was skipped while `stillzero` holds, that `i0` has not moved if
  nothing is trimmed, and that `lastnonzero` is a line of the table as soon as `sum` can be
  other than 0: in the code it has no initial value, and this is why it is never read
  without one. That the table fits its memory is `RangeFits`: two truncations towards zero,
  clipped at 0, are never more than `wid` apart.
* `WeightsNearest`: `Spec => []TrimsOnlyZeros`. `NearSoFar` keeps for every line sampled that its
  weight, or the zero that is skipped or may yet be trimmed, is the nearest integer;
  `FudgedInside` that the correction hits one weight of the table, wherever trimming moved it.
* `FudgedSlightly`: `Spec => []FudgeSlight`. Every line adds half a unit at most to the difference of the
  sum from that of the samples (`SlightSoFar`), so the correction is at most half a unit per
  line, as long as the samples have a positive area.
* `WeightsSumToOne`: `Spec /\ []FudgeFits => []SumIsOne`. `SumSoFar` has a function with the running
  sums as a witness: its last value is `sum`, and so is the one at `lastnonzero`, which is why trimming loses
  nothing. `FudgeFits`, that the corrected weight fits its short, is needed: the code
  tests the weight before the correction (784) and adds to it after (824). The grid of the run has
  no such case, but it exists: catrom, minifying by 5/2, six source lines, the center at -3.01691
  has the weights 32767, 7542, -4776, -8460, -7134, -3556, which sum to 16383; the correction
  makes the first of them 32768, which a short holds as -32768.
* `OverflowNeedsLobes`: the first half of `OverflowOnlyIfCutOff`. A filter without lobes is nowhere
  negative (`LobeFree`: its cubics are written as sums of products of distances), so no
  sample is more than the area (`PartOfArea`) and no weight more than one (`LobeFreeFits`).
* `WeightlessShrinks`: the half of `CenterOnlyIffWeightless` on which the feedback after a line
  without weights rests. Whole units away from its center a cardinal filter is zero
  (`ZeroAtUnits`), a zero is rounded to zero whatever the area is (`ZeroRounded`), so nothing
  is ever added to `sum`.

The areas and sums are recursive functions (`SumsFrom`). That such a function is what its
definition says (`SumsFromIs`) and that there is only one (`SumsUnique`) is induction over its
domain, done by the least counterexample: `LeastOf` follows from `WFMin` of
`WellFoundedInduction`, which has no operator as a parameter.

### The sums (`ScanlineSumsProofs`)

Assumption: `SumsAssumption` (a channel has an even number of values, tables sum to
`WEIGHTONE`, single weights fit a short). Nothing restricts the lobes for flat pictures: that
theorem holds of tables whose partial sums are far out of range.

* `FlatFieldsStayFlat`: `Spec => []FlatField`, a picture of one color keeps it to the last
  bit in both orders. The invariant `SumsOf` says what the sums of a flat picture are at
  every step: the start value plus the color times the running sum of the table. At the end of
  a table the running sum is `WEIGHTONE` and the color comes back after the shift, which drops
  only the rounding constant (`BetweenOf`, `LastShift`); so the second filter sees the same
  number in every line and the argument repeats.
* `SumsStayInRange`: `Spec => []SumsFit`, and `PixelsNearExact`: `Spec => []NearExact`, for
  pictures of any colors. Both orders are one argument about what the first filter holds and
  what the second keeps (`Held`, `Kept`, without the rounding constants). `BoundsInv` says
  three things at every step. What is held is between black under the positive and white under
  the negative weights and the reverse (`Bounded`). What is kept is at most a short times the
  magnitudes so far. And if the first table is tame, `Chan` times what is kept differs from
  the exact sum by at most `Loss` / 2 times the magnitudes so far. The second conjunct needs nothing of
  the first filter, because a short is a short even when it wrapped; the third rests on
  `BetweenNear`: at the end of a tame table the sum divided by `Chan` fits a short, so the
  shift loses only what it drops. `SumsFit` also needs that a sum of fewer weights has no wider bounds
  than one of them all (`NarrowerBefore`), which is induction over a table, by the least
  counterexample as for the weights. `NearestPixel` adds the half
  unit of the last shift and shows that clamping brings nothing farther away.

### Only model-checked

* Of the weights, what takes inequalities between sums of cubics: the second half of
  `OverflowOnlyIfCutOff`, that a filter with lobes overflows only if it is cut off, and
  `TableTame`. `TableTame` is a property of the scales of the run: the table at 5/2 under
  `WeightsSumToOne` above is not tame. Likewise the other half of `CenterOnlyIffWeightless`, that a filter with anything
  else at its lines adds up to something, needs a `WEIGHTONE` that is large for the number
  of lines: with weights of less than half a unit everything is rounded to zero.
* The GIF reader: `PixelsRight`, `ImageComplete`, `GarbledOnlyIf`, `InSync`, `StringsEnd`. All five
  rest on the reader being in step with the writer, bit by bit: that a code is the one that was
  sent, as wide as it was sent, is also what keeps a prefix below its entry and the
  last block long enough. That is arithmetic with powers of two, for which the provers have
  no rules at all, and what the decoder puts out for a code is a recursion through
  the string table.
* Whatever of the filtered loop and of the program needs exact arithmetic, for other roundings:
  `NoFeedback` is false there (*roundoff_buffer*), `ForwardReads`, `NullFilterOnlyIfCoerced` and
  the theorems of `ZoomFilesProofs` are open, and no run checks them with roundoff.
* Liveness (`Completes`, `Terminates`) and ENABLED, which are out of the prover's reach.

## 6. Plan

All components that can be modelled faithfully have a module, and every safety property of
the loops, of the devices and of the program is proved. What is left is to prove more:

1. `NullFilterOnlyIfCoerced` and `ForwardReads` of the filtered loop for every rounding, which would
   take `~Roundoff` out of the theorems on the program.
2. The GIF reader, beginning with a theory of powers of two; then that bits sent and not yet
   read are those in the buffer and in the file.
3. The weights: bounds of the sums of cubics for a whole and for a cut off filter, and from
   which `WEIGHTONE` on these sums are not rounded to nothing.

## 7. Not modelled

* The horizontal direction line by line: columns are windows and offsets only. Pixels in the
  loops; their arithmetic is `ScanlineSums`, for one channel, which is what the code does to each.
* Filters that are transcendental (gaussian, sinc, bessel, the windows), blur, and supports
  that are no multiple of half a line; the registry, into which nothing in the program
  inserts a filter.
* Line numbers beyond a short (324): a picture of more than 32767 lines.
* Destinations with windows that begin above or left of the picture on a file, and a
  destination file that is the source file: the loops are checked for both, the devices
  are not (a file opened for writing is truncated).
* Device code off the path of `zoom`: guessing formats, copying, block transfers, parsing
  headers, depths and palettes; damaged or truncated files (for GIF readGIF.c:307-317 and
  381-385); interlaced PNG (png.c:269 reads it
  row by row without passes); BMP from a pipe (bmp.c:474 takes the row pointer before the row
  is read); GIF headers, extensions and color maps, and images smaller than their screen
  (gif.c:90).
* `rle*.c`, `iris*.c`, `mallocNd.c`: not built. `swap.c` is built, but only guessing formats and,
  on some machines, the header of dump use it.
* How the program is built. `bmp.c` is in `pic_list` and in the Windows project `libpic.dsp` but
  not in the sources of `libpic/Makefile`; its device is modelled as the others are.
* The third-party libraries, which are most of the lines in the repository. jpeg-6b, libpng,
  netpbm, tiff and zlib have some 197,000 of its 205,000 lines; the program's own core,
  `zoom/` and the devices of `libpic/` modelled here, is a few thousand, and the
  modules map most of what in them decides anything. Models of the libraries would be of
  other programs, each with a specification and tests of its own; here they are what the
  devices say of them.
