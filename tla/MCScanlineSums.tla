--------------------------- MODULE MCScanlineSums ---------------------------
(* Instances of ScanlineSums: tables of up to three weights, with negative *)
(* lobes before, between and after the others.                             *)
EXTENDS ScanlineSums, Sequences, FiniteSetsExt

(* Weights that tables are made of.                                        *)
Lobes == {-27, -9, 0, 7, 16, 29}

Running(s) ==
  [size |-> Len(s),
   upto |-> [k \in 0 .. Len(s) |-> MapThenSumSet(LAMBDA n : s[n], 1 .. k)],
   gain |-> [k \in 0 .. Len(s) |-> MapThenSumSet(LAMBDA n : Magnitude(s[n]), 1 .. k)]]

Rest(n) == WEIGHTONE - n

AllTables ==
  {Running(s) : s \in
     {s \in {<<WEIGHTONE>>} \cup {<<w, Rest(w)>> : w \in Lobes}
            \cup {<<w, x, Rest(w + x)>> : w, x \in Lobes} :
        \A n \in DOMAIN s : -2 * WEIGHTONE <= s[n] /\ s[n] < 2 * WEIGHTONE}}

AllPictures == {{v} : v \in 0 .. CHANWHITE} \cup {{0, CHANWHITE}}
=============================================================================
