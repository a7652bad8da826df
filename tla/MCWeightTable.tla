---------------------------- MODULE MCWeightTable ----------------------------
(* Instances of WeightTable: every center on the grid that zoom_continuous *)
(* leaves, for sources of every small length.                              *)
EXTENDS WeightTable

CONSTANTS MaxLen, Scales

(* The destination was clipped to lines strictly within a support of       *)
(* spread4/4 around the source.                                            *)
Within(cen, len, spread4) ==
  /\ 4 * cen - 2 * Grid > -Grid * spread4
  /\ 4 * cen - 2 * Grid < 4 * Grid * (len - 1) + Grid * spread4

Spread4Of(f, s) == IF s * Width[f] > 2 THEN s * Width[f] ELSE 2

Centers == -8 * Grid .. (MaxLen + 8) * Grid

(* The support is that of the filter sampled, or, if the filter was        *)
(* narrowed to a point since, up to that of catrom; then scale is 1 and    *)
(* every line a whole number of source lines away.                         *)
AllCalls ==
  {c \in [filter : Filters, scale2 : Scales, len : 1 .. MaxLen, trimzeros : BOOLEAN, cen : Centers] :
     \/ Within(c.cen, c.len, Spread4Of(c.filter, c.scale2))
     \/ c.filter = "point" /\ c.scale2 = 2 /\ (2 * c.cen - Grid) % (2 * Grid) = 0
        /\ Within(c.cen, c.len, 8)}
=============================================================================
