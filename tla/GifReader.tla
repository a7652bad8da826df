----------------------------- MODULE GifReader -----------------------------
(***************************************************************************)
(* libpic/readGIF.c: how one image of a GIF file is read.  Pixels come as  *)
(* LZW codes of growing width, packed into bytes without regard to their   *)
(* boundaries; the bytes come in data blocks of any length; and the rows   *)
(* may be interlaced.                                                      *)
(*                                                                         *)
(* The file is written first, code by code, as the format has it (a table  *)
(* of strings of pixels); then the reader takes it apart.                  *)
(***************************************************************************)
EXTENDS Integers, SequencesExt

CONSTANTS
  Byte,             \* bits in a byte
  Formats,          \* code size images start with, less one, and the largest
  Pixels,           \* pixels images are made of
  BlockSizes,       \* lengths of data blocks
  MaxCodes, MaxPixels

ASSUME GifAssumption ==
  /\ Byte \in Nat
  /\ \A f \in Formats :
       /\ f[1] \in Nat /\ f[2] \in Nat
       /\ 2 <= f[1] /\ f[1] < f[2] /\ f[2] - 1 <= 2 * Byte
       /\ \A v \in Pixels : v \in 0 .. 2 ^ f[1] - 1
  /\ BlockSizes \subseteq Nat \ {0}

VARIABLES
  sent,         \* what has been written: table of strings, codes, bits, pixels
  image,        \* size, interlaced?, the pixels in the order they are coded
  file,         \* bytes not yet read
  ended,        \* was the block of length zero that follows them read?
  narrowest,    \* length of the shortest block read, the last one aside
  pc,           \* where readImage is
  bits,         \* bit buffer: buf, curbit, lastbit, last_byte, get_done, fresh
  lzw,          \* string table: code_size, max_code, ...
  stack,        \* pixels decoded and not yet delivered
  row,          \* loop over the rows: i, xpos, ypos, pass, step
  data          \* (row, column) |-> pixels stored there

vars == <<sent, image, file, ended, narrowest, pc, bits, lzw, stack, row, data>>
writeVars == <<sent, image>>
fileVars == <<file, ended, narrowest>>

set_code_size == sent.format[1]
MAX_LWZ_BITS  == sent.format[2]
clear_code == 2 ^ set_code_size
end_code   == clear_code + 1

-----------------------------------------------------------------------------
(***************************************************************************)
(* The format.  strings holds what the codes stand for; a code is as wide  *)
(* as the one that is entered next needs; the entry made after a code is   *)
(* the string of the code before it and the first pixel of its own.        *)
(***************************************************************************)
NoString == <<>>
FreshTable(n) == [c \in 0 .. 2 ^ n + 1 |-> IF c < 2 ^ n THEN <<c>> ELSE NoString]

Nothing(f) ==
  [format |-> f, strings |-> FreshTable(f[1]), last |-> NoString, codes |-> 0,
   bits |-> <<>>, pixels |-> <<>>, cleared |-> TRUE]

NextEntry == Cardinality(DOMAIN sent.strings)
Full == NextEntry = 2 ^ MAX_LWZ_BITS
CodeWidth == CHOOSE w \in 1 .. MAX_LWZ_BITS :
               /\ NextEntry < 2 ^ w \/ w = MAX_LWZ_BITS
               /\ \A v \in 1 .. w - 1 : 2 ^ v <= NextEntry

BitsOf(code, width) == [k \in 1 .. width |-> (code \div 2 ^ (k - 1)) % 2]

(* The string of a code; that of the entry to come ends as it starts.      *)
Stands(code) ==
  IF code = NextEntry THEN Append(sent.last, sent.last[1]) ELSE sent.strings[code]

Send(code) ==
  /\ pc = "write"
  /\ sent.codes < MaxCodes
  /\ Len(sent.pixels) + Len(Stands(code)) <= MaxPixels
  /\ sent' = [sent EXCEPT
       !.codes = @ + 1, !.cleared = FALSE,
       !.bits = @ \o BitsOf(code, CodeWidth),
       !.pixels = @ \o Stands(code),
       !.last = Stands(code),
       !.strings = IF sent.last = NoString \/ Full THEN @
                   ELSE @ @@ (NextEntry :> Append(sent.last, Stands(code)[1]))]
  /\ UNCHANGED <<image, fileVars, pc, bits, lzw, stack, row, data>>

(* A pixel, an entry of the table, or the one that is only about to be     *)
(* made: the encoder is free to choose.                                    *)
SendCode ==
  \/ \E code \in Pixels \cup (end_code + 1 .. NextEntry - 1) : Send(code)
  \/ sent.last # NoString /\ ~Full /\ Send(NextEntry)

(* The string table may be cleared at any time.                            *)
SendClear ==
  /\ pc = "write"
  /\ sent.codes + 1 < MaxCodes
  /\ sent' = [sent EXCEPT !.codes = @ + 1, !.cleared = TRUE,
                !.bits = @ \o BitsOf(clear_code, CodeWidth),
                !.last = NoString, !.strings = FreshTable(set_code_size)]
  /\ UNCHANGED <<image, fileVars, pc, bits, lzw, stack, row, data>>

BytesOf(bs) ==
  [b \in 1 .. (Len(bs) + Byte - 1) \div Byte |->
     FoldLeft(LAMBDA sum, k : sum + IF (b - 1) * Byte + k <= Len(bs)
                                    THEN bs[(b - 1) * Byte + k] * 2 ^ (k - 1) ELSE 0,
              0, [k \in 1 .. Byte |-> k])]

(* The end of the image, whose rows the pixels fill; the reader starts.    *)
SendEnd ==
  /\ pc = "write"
  /\ sent.pixels # <<>>
  /\ \E width \in {1, 2}, interlace \in BOOLEAN :
       /\ Len(sent.pixels) % width = 0
       /\ image' = [width |-> width, height |-> Len(sent.pixels) \div width,
                    interlace |-> interlace, pixels |-> sent.pixels, cleared |-> sent.cleared]
  /\ file' = BytesOf(sent.bits \o BitsOf(end_code, CodeWidth))
  /\ sent' = Nothing(sent.format)
  /\ pc' = "code"
  /\ UNCHANGED <<ended, narrowest, bits, lzw, stack, row, data>>

-----------------------------------------------------------------------------
(***************************************************************************)
(* nextCode: the bit buffer starts with the last two bytes of the block    *)
(* before; what lies behind the block is left from longer blocks.          *)
(***************************************************************************)
LastByte == 1 + FoldSet(LAMBDA n, m : IF n < m THEN m ELSE n, 0, BlockSizes)

initLWZ ==
  [buf |-> [k \in 0 .. LastByte + 1 |-> 0], curbit |-> 0, lastbit |-> 0, last_byte |-> 2,
   get_done |-> FALSE, return_clear |-> TRUE, fresh |-> FALSE, zero |-> FALSE]

EmptyTable(f) ==
  [code_size |-> f[1] + 1, max_code |-> 2 ^ f[1] + 2, max_code_size |-> 2 * 2 ^ f[1],
   firstcode |-> 0, oldcode |-> 0,
   prefix |-> [c \in 0 .. 2 ^ f[2] - 1 |-> 0],
   suffix |-> [c \in 0 .. 2 ^ f[2] - 1 |-> IF c < 2 ^ f[1] THEN c ELSE 0]]

InCode == pc \in {"code", "first"}

(* The next code reaches the end of the buffer, or beyond.                 *)
RunsOut ==
  ~bits.return_clear /\ ~bits.fresh /\ bits.curbit + lzw.code_size >= bits.lastbit

(* The two bytes that are kept.                                            *)
KeptByte(k) == bits.buf[bits.last_byte - 2 + k]

(* Fault: the bytes that were kept are forgotten in the length.            *)
FilledShort(block) ==
  LET count == Len(block)
  IN  [bits EXCEPT
        !.buf = [k \in DOMAIN @ |-> IF k < 2 THEN KeptByte(k)
                                    ELSE IF k - 2 < count THEN block[k - 1] ELSE @[k]],
        !.get_done = (count = 0), !.zero = (count = 0),
        !.last_byte = 2 + count,
        !.curbit = (@ - bits.lastbit) + 2 * Byte,
        !.lastbit = (1 + count) * Byte,
        !.fresh = TRUE]

(* The buffer with one more block in it.                                   *)
Filled(block) ==
  LET count == Len(block)
  IN  [bits EXCEPT
        !.buf = [k \in DOMAIN @ |-> IF k < 2 THEN KeptByte(k)
                                    ELSE IF k - 2 < count THEN block[k - 1] ELSE @[k]],
        !.get_done = (count = 0), !.zero = (count = 0),
        !.last_byte = 2 + count,
        !.curbit = (@ - bits.lastbit) + 2 * Byte,
        !.lastbit = (2 + count) * Byte,
        !.fresh = TRUE]

(* One more data block, of a length that whoever wrote the file chose; the *)
(* last one is followed by a block of length zero.                         *)
GetBlock ==
  /\ InCode /\ RunsOut /\ ~bits.get_done
  /\ \E n \in IF file = <<>> THEN {0} ELSE {m \in BlockSizes : m <= Len(file)} :
       /\ bits' = Filled(SubSeq(file, 1, n))
       /\ file' = SubSeq(file, n + 1, Len(file))
       /\ ended' = (n = 0)
       /\ narrowest' = IF 0 < n /\ n < Len(file) /\ n < narrowest THEN n ELSE narrowest
       /\ pc' = IF bits'.curbit + lzw.code_size > bits'.lastbit THEN "garbled" ELSE pc
  /\ UNCHANGED <<writeVars, lzw, stack, row, data>>

(* The code_size bits at curbit, from up to three bytes.                   *)
Extract(size) ==
  LET i == bits.curbit \div Byte
      j == (bits.curbit + size) \div Byte
      ret == bits.buf[i] + (IF i < j THEN bits.buf[i + 1] * 2 ^ Byte ELSE 0)
                         + (IF i + 1 < j THEN bits.buf[i + 2] * 2 ^ (2 * Byte) ELSE 0)
  IN  (ret \div 2 ^ (bits.curbit % Byte)) % 2 ^ size

(* nextCode returns this code and moves on.                                *)
NextCode(code) ==
  /\ ~RunsOut
  /\ code = IF bits.return_clear THEN clear_code ELSE Extract(lzw.code_size)
  /\ bits' = IF bits.return_clear THEN [bits EXCEPT !.return_clear = FALSE]
             ELSE [bits EXCEPT !.curbit = @ + lzw.code_size, !.fresh = FALSE]

-----------------------------------------------------------------------------
(***************************************************************************)
(* nextLWZ: the string table as prefix and suffix of every entry.          *)
(***************************************************************************)
(* Clear codes empty it, the first one before any code is read; of several *)
(* in a row the later ones are skipped.                                    *)
ClearCode ==
  /\ pc = "code" /\ NextCode(clear_code)
  /\ lzw' = [EmptyTable(sent.format) EXCEPT !.firstcode = lzw.firstcode, !.oldcode = lzw.oldcode]
  /\ pc' = "first"
  /\ UNCHANGED <<writeVars, fileVars, stack, row, data>>

SkipClear ==
  /\ pc = "first" /\ NextCode(clear_code)
  /\ UNCHANGED <<writeVars, fileVars, pc, lzw, stack, row, data>>

(* The code after them is a pixel, whatever it is.                         *)
FirstCode ==
  /\ pc = "first"
  /\ \E code \in 0 .. 2 ^ MAX_LWZ_BITS - 1 \ {clear_code} :
       /\ NextCode(code)
       /\ lzw' = [lzw EXCEPT !.firstcode = code, !.oldcode = code]
       /\ stack' = <<code>>
  /\ pc' = "pixel"
  /\ UNCHANGED <<writeVars, fileVars, row, data>>

(* Fault: the blocks left over stay in the file.                           *)
SkipBlocksNever == UNCHANGED <<file, ended>>

(* Fault: it waits for the block of length zero even if it has been read.  *)
SkipBlocksTwice == ~bits.zero /\ file' = <<>> /\ ended' = TRUE

(* The blocks left over are skipped up to the one of length zero.          *)
SkipBlocks == IF bits.zero THEN UNCHANGED <<file, ended>> ELSE file' = <<>> /\ ended' = TRUE

EndCode ==
  /\ pc = "code" /\ NextCode(end_code)
  /\ SkipBlocks
  /\ pc' = "done"
  /\ UNCHANGED <<writeVars, narrowest, lzw, stack, row, data>>

(* The pixels an entry stands for, first pixel first.                      *)
String ==
  LET string[c \in 0 .. 2 ^ MAX_LWZ_BITS - 1] ==
        IF c < clear_code THEN <<lzw.suffix[c]>>
        ELSE Append(string[lzw.prefix[c]], lzw.suffix[c])
  IN  string

(* Fault: the code size grows one entry too late.                          *)
EnteredLate(code, first) ==
  LET entry == lzw.max_code
      max   == entry + 1
      grows == max > lzw.max_code_size /\ lzw.max_code_size < 2 ^ MAX_LWZ_BITS
      next  == [lzw EXCEPT !.firstcode = first, !.oldcode = code]
  IN  IF entry = 2 ^ MAX_LWZ_BITS THEN next
      ELSE [next EXCEPT
             !.prefix[entry] = lzw.oldcode, !.suffix[entry] = first, !.max_code = max,
             !.max_code_size = IF grows THEN 2 * @ ELSE @,
             !.code_size = IF grows THEN @ + 1 ELSE @]

(* Fault: oldcode is updated before the entry is made.                     *)
EnteredNewCode(code, first) ==
  LET entry == lzw.max_code
      max   == entry + 1
      grows == max >= lzw.max_code_size /\ lzw.max_code_size < 2 ^ MAX_LWZ_BITS
      next  == [lzw EXCEPT !.firstcode = first, !.oldcode = code]
  IN  IF entry = 2 ^ MAX_LWZ_BITS THEN next
      ELSE [next EXCEPT
             !.prefix[entry] = code, !.suffix[entry] = first, !.max_code = max,
             !.max_code_size = IF grows THEN 2 * @ ELSE @,
             !.code_size = IF grows THEN @ + 1 ELSE @]

(* The entry that is made after a code, unless the table is full; codes    *)
(* get longer when the entries run out of them.                            *)
Entered(code, first) ==
  LET entry == lzw.max_code
      max   == entry + 1
      grows == max >= lzw.max_code_size /\ lzw.max_code_size < 2 ^ MAX_LWZ_BITS
      next  == [lzw EXCEPT !.firstcode = first, !.oldcode = code]
  IN  IF entry = 2 ^ MAX_LWZ_BITS THEN next
      ELSE [next EXCEPT
             !.prefix[entry] = lzw.oldcode, !.suffix[entry] = first, !.max_code = max,
             !.max_code_size = IF grows THEN 2 * @ ELSE @,
             !.code_size = IF grows THEN @ + 1 ELSE @]

(* Any other code: its string, or that of the code before and its first    *)
(* pixel again if it is not in the table yet.                              *)
Expand ==
  /\ pc = "code"
  /\ \E code \in 0 .. 2 ^ MAX_LWZ_BITS - 1 \ {clear_code, end_code} :
       /\ NextCode(code)
       /\ LET known  == code < lzw.max_code
              string == String[IF known THEN code ELSE lzw.oldcode]
          IN  /\ stack' = IF known THEN string ELSE Append(string, lzw.firstcode)
              /\ lzw' = Entered(code, string[1])
  /\ pc' = "pixel"
  /\ UNCHANGED <<writeVars, fileVars, row, data>>

-----------------------------------------------------------------------------
(***************************************************************************)
(* readImage: where the pixels go.                                         *)
(***************************************************************************)
FirstRow == [i |-> 0, xpos |-> 0, ypos |-> 0, pass |-> 0, step |-> 8]

(* The step of the next pass that starts inside the picture.               *)
StepBelow[step \in 0 .. 8] ==
  IF step \div 2 > image.height THEN StepBelow[step \div 2] ELSE step

NextPass ==
  LET step == StepBelow[IF row.pass > 0 THEN row.step \div 2 ELSE row.step]
  IN  [row EXCEPT !.pass = 1, !.step = step, !.ypos = step \div 2]

(* Fault: a pass ends one row early.                                       *)
NextRowEarly ==
  IF ~image.interlace THEN [row EXCEPT !.ypos = @ + 1]
  ELSE IF row.ypos + row.step >= image.height - 1 THEN NextPass
  ELSE [row EXCEPT !.ypos = @ + row.step]

NextRow ==
  IF ~image.interlace THEN [row EXCEPT !.ypos = @ + 1]
  ELSE IF row.ypos + row.step >= image.height THEN NextPass
  ELSE [row EXCEPT !.ypos = @ + row.step]

AllRead == row.i = image.height

StorePixel ==
  /\ pc = "pixel" /\ ~AllRead
  /\ data' = (<<row.ypos, row.xpos>> :> Head(stack)) @@ data
  /\ row' = IF row.xpos + 1 < image.width THEN [row EXCEPT !.xpos = @ + 1]
            ELSE [NextRow EXCEPT !.xpos = 0, !.i = @ + 1]
  /\ stack' = Tail(stack)
  /\ pc' = IF Len(stack) = 1 THEN "code" ELSE "pixel"
  /\ UNCHANGED <<writeVars, fileVars, bits, lzw>>

(* More pixels than the image has: they are ignored, with the blocks left. *)
TooMuch ==
  /\ pc = "pixel" /\ AllRead
  /\ pc' = "done"
  /\ UNCHANGED <<writeVars, fileVars, bits, lzw, stack, row, data>>

Over == pc \in {"done", "garbled"}
Ended == Over /\ UNCHANGED vars

-----------------------------------------------------------------------------
Init ==
  /\ \E f \in Formats : sent = Nothing(f) /\ lzw = EmptyTable(f)
  /\ image = [width |-> 0, height |-> 0, interlace |-> FALSE, pixels |-> <<>>, cleared |-> FALSE]
  /\ file = <<>> /\ ended = FALSE /\ narrowest = LastByte
  /\ pc = "write"
  /\ bits = initLWZ
  /\ stack = <<>>
  /\ row = FirstRow
  /\ data = [p \in {} |-> 0]

Next ==
  \/ SendCode \/ SendClear \/ SendEnd
  \/ GetBlock \/ ClearCode \/ SkipClear \/ FirstCode \/ EndCode \/ Expand
  \/ StorePixel \/ TooMuch \/ Ended

Spec == Init /\ [][Next]_vars

(* The reader runs to its end; whoever writes the file may take forever.   *)
FairSpec == Spec /\ WF_vars(pc # "write" /\ Next)

-----------------------------------------------------------------------------
(* The order of the rows: every eighth, then those halfway between, and so *)
(* on; rows are numbered as they come.                                     *)
Pass(y) == CASE y % 8 = 0 -> 1 [] y % 8 = 4 -> 2 [] y % 4 = 2 -> 3 [] OTHER -> 4

Number(y) ==
  IF ~image.interlace THEN y
  ELSE Cardinality({z \in 0 .. image.height - 1 :
                      Pass(z) < Pass(y) \/ (Pass(z) = Pass(y) /\ z < y)})

Misplaced == image.interlace /\ image.height \in {2, 4}

(* Every pixel is decoded as it was coded and stored where it belongs,     *)
(* whatever blocks and bytes its code was spread over; but in interlaced   *)
(* images of 2 or 4 rows the pass that starts in the row below the last is *)
(* not left out (readGIF.c:527 compares with >).                           *)
PixelsRight ==
  \A p \in DOMAIN data :
    \/ /\ p[1] \in 0 .. image.height - 1
       /\ data[p] = image.pixels[Number(p[1]) * image.width + p[2] + 1]
    \/ Misplaced

(* When the image is read no pixel of it is missing.                       *)
ImageComplete ==
  pc = "done" =>
    DOMAIN data = (0 .. image.height - 1) \X (0 .. image.width - 1) \/ Misplaced

(* A code is cut short only if a data block is shorter than a code: one    *)
(* block at a time is added to the buffer (readGIF.c:378-391).             *)
GarbledOnlyIf == pc = "garbled" => narrowest * Byte < lzw.code_size

(* When the image is read the next byte of the file is the one behind it;  *)
(* unless the table was cleared right before the end, whose code is then   *)
(* taken for a pixel (readGIF.c:434-438).                                  *)
InSync == pc = "done" => (file = <<>> /\ ended) \/ image.cleared

(* Every entry is made from an older one, so that no string is circular    *)
(* and none is longer than the stack (readGIF.c:399, 463).                 *)
StringsEnd ==
  /\ \A c \in clear_code + 2 .. lzw.max_code - 1 : lzw.prefix[c] < c
  /\ Len(stack) <= 2 ^ MAX_LWZ_BITS

(* The reader comes to an end.                                             *)
Completes == (pc # "write") ~> Over
=============================================================================
