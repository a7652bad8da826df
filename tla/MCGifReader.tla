---------------------------- MODULE MCGifReader ----------------------------
(* Instances of GifReader: codes of three bits, or three and then four,    *)
(* in bytes of two bits.                                                   *)
EXTENDS GifReader

AllFormats == {<<2, 3>>, <<2, 4>>}
=============================================================================
