---------------------------- MODULE MCZoomFiles ----------------------------
(* Instances of ZoomFiles: command lines for pictures of three rows.       *)
EXTENDS ZoomFiles

Kernel(support, cardinal, lobes) ==
  [F |-> support, cardinal |-> cardinal, lobes |-> lobes]
Point    == Kernel(0, TRUE, FALSE)
Triangle == Kernel(2, TRUE, FALSE)
Mitchell == Kernel(4, FALSE, TRUE)
Catrom   == Kernel(4, TRUE, TRUE)

(* One filter for both dimensions, or one for each; -plain or not.         *)
Both(kernel)    == [filt |-> [x |-> kernel, y |-> kernel], coerce |-> TRUE]
Each(kx, ky)    == [filt |-> [x |-> kx, y |-> ky], coerce |-> TRUE]
Uncoerced(pair) == [pair EXCEPT !.coerce = FALSE]

First(lo, n)   == <<[sized |-> TRUE, lo |-> lo, v |-> n]>>
Ends(lo, hi)   == <<[sized |-> FALSE, lo |-> lo, v |-> hi]>>

Plain == [square |-> FALSE, intscale |-> FALSE, map |-> <<>>]
Adjusted == {[square |-> q, intscale |-> i, map |-> <<>>] : q, i \in BOOLEAN}
Map(sx, sy, tx, ty) ==
  <<[x |-> [sn |-> sx, sd |-> 1, T |-> tx], y |-> [sn |-> sy, sd |-> 1, T |-> ty]]>>
Mapped(maps) == {[square |-> FALSE, intscale |-> FALSE, map |-> m] : m \in maps}

CommandLines(pairs, channels, kernels, sxs, dxs, sys, dys, options) ==
  {[src |-> p[1], dst |-> p[2], nchan |-> n, filt |-> k.filt, coerce |-> k.coerce,
    sx |-> sx, dx |-> dx, sy |-> sy, dy |-> dy,
    square |-> o.square, intscale |-> o.intscale, map |-> o.map] :
     p \in pairs, n \in channels, k \in kernels, sx \in sxs, dx \in dxs,
     sy \in sys, dy \in dys, o \in options}

(* Every format, grey and color, with windows in either dimension.         *)
OfFormats ==
  LET Cases(sxs, dxs, sys, dys) ==
        CommandLines(Readable \X (Writable \cup {"gif"}), {1, 3}, {Both(Point), Both(Triangle)},
                     sxs, dxs, sys, dys, {Plain})
  IN  Cases({<<>>}, {<<>>, Ends(1, 1)}, {<<>>, Ends(0, 1)}, {<<>>, First(1, 3)})
        \cup Cases({First(0, 1), First(1, 1)}, {<<>>}, {First(1, 2)}, {First(0, 2)})

(* Every combination of windows, options and kernels.                      *)
OfOptions ==
  LET Cases(sxs, options) ==
        CommandLines({<<"pnm", "pnm">>}, {3},
                     {Both(Point), Both(Triangle), Both(Mitchell), Uncoerced(Both(Catrom))},
                     sxs, {<<>>},
                     {<<>>, First(0, 2), First(1, 2), Ends(1, 1), Ends(2, 4)},
                     {<<>>, First(0, 2), First(1, 3), Ends(0, 3), Ends(0, 3) \o First(2, 1)},
                     options)
  IN  Cases({<<>>, First(0, 1)}, Adjusted) \cup Cases({<<>>}, Mapped({Map(1, 1, t, t) : t \in 0 .. 2}))

(* Mappings and filters that differ in x and y: a filter made narrower in  *)
(* one of them only, lobes cut off in one of them only, no scale at all.   *)
OfMappings ==
  CommandLines({<<"pnm", "tif">>}, {3},
               {Each(Catrom, Triangle), Each(Triangle, Mitchell), Each(Catrom, Mitchell),
                Each(Mitchell, Catrom), Each(Point, Mitchell), Each(Mitchell, Point),
                Uncoerced(Each(Catrom, Triangle))},
               {<<>>}, {First(0, 2), First(0, 3)}, {<<>>, First(1, 1), Ends(-1, 1)}, {First(0, 4)},
               Mapped({Map(1, 1, 0, 0), Map(1, 2, 1, 0), Map(2, 1, 0, 1), Map(1, 0, 0, 0)}))

AllJobs == {j \in OfFormats \cup OfOptions \cup OfMappings : j.src \in {"bmp", "bmpup"} => j.nchan = 3}
AllRequests == {RequestOf(j) : j \in AllJobs}

(* What they ask of the files, and more.                                   *)
AllBoxes == [x0 : 0 .. 1, y0 : 0 .. 3, nx : 1 .. 8, ny : -1 .. 8]
AllRows  == 0 .. 8
AllSpans == [x0 : 0 .. 1, nx : 1 .. 8]
=============================================================================
