-------------------------- MODULE WaterHarpVision --------------------------
(***************************************************************************)
(* The picture half of WaterHarp.py: how a depth map becomes one volume    *)
(* per stream, and which pixels the screen paints green.  Pure operators;  *)
(* WaterHarp.tla runs them.                                                *)
(*                                                                         *)
(* A depth map is a function from pixels <<row, column>> to depths in mm   *)
(* (uint16).  Columns and rows count from 0, as in numpy.                  *)
(***************************************************************************)
EXTENDS HarpStreams, Integers, FiniteSets

CONSTANTS
    WIDTH, HEIGHT,                          (* the depth map: 320 x 240 *)
    LEFT_STREAM_INDEX, RIGHT_STREAM_INDEX,  (* columns of the streams: 54 .. 295 *)
    TOP, BOTTOM,                            (* rows of the streams: 10 .. 230 *)
    THRESHOLD,                              (* depth of the water: 910 *)
    BACKGROUND,                             (* stands for "too near": 50000 *)
    MIN_PIXELS                              (* the literal 50 of run *)

\* A depth in mm, a uint16.
Depth == 0..65535

ASSUME GeometryAssumption ==
    /\ {WIDTH, HEIGHT, LEFT_STREAM_INDEX, RIGHT_STREAM_INDEX, TOP, BOTTOM} \subseteq Nat
    /\ LEFT_STREAM_INDEX + NUM_STREAMS <= RIGHT_STREAM_INDEX
    /\ RIGHT_STREAM_INDEX <= WIDTH
    /\ TOP < BOTTOM
    /\ BOTTOM <= HEIGHT

ASSUME ThresholdAssumption ==
    /\ THRESHOLD \in Nat /\ BACKGROUND \in Depth /\ MIN_PIXELS \in Nat
    /\ THRESHOLD <= BACKGROUND

Pixels == (0..(HEIGHT - 1)) \X (0..(WIDTH - 1))

\* dmap < NEARTHRESH: NEARTHRESH is the float THRESHOLD/2, nothing is rounded.
TooNear(depth) == 2 * depth < THRESHOLD

\* dmap[dmap < NEARTHRESH] = BACKGROUND
Masked(dmap) == [p \in DOMAIN dmap |-> IF TooNear(dmap[p]) THEN BACKGROUND ELSE dmap[p]]

\* Mutant of x_bin: rounds the column up.
x_bin_ceil(i) ==
    LEFT_STREAM_INDEX
      + ((RIGHT_STREAM_INDEX - LEFT_STREAM_INDEX) * i + NUM_STREAMS - 1) \div NUM_STREAMS

\* Mutant of x_bin: int((RIGHT - LEFT) / NUM_STREAMS) as the step of every bin.
x_bin_fixed_step(i) ==
    LEFT_STREAM_INDEX + ((RIGHT_STREAM_INDEX - LEFT_STREAM_INDEX) \div NUM_STREAMS) * i

\* x_bins[i], i = 0..NUM_STREAMS: linspace, cut to an integer.  The step of the
\* real harp, 241/16, is exact in binary, so the cut falls where \div puts it.
x_bin(i) ==
    LEFT_STREAM_INDEX
      + ((RIGHT_STREAM_INDEX - LEFT_STREAM_INDEX) * i) \div NUM_STREAMS

\* The columns of stream i (1..NUM_STREAMS) and its part of the picture.
Columns(i) == x_bin(i - 1) .. (x_bin(i) - 1)
Window(i) == (TOP..(BOTTOM - 1)) \X Columns(i)

\* np.where(subarray < THRESHOLD) on the masked map.
below_threshold(dmap, i) ==
    LET map == Masked([p \in Window(i) |-> dmap[p]])
    IN  {p \in Window(i) : map[p] < THRESHOLD}

\* The integers nearest to num / den: two of them when it lies half way.
Nearest(num, den) ==
    LET q == num \div den
    IN  {v \in {q, q + 1} : 2 * (v * den - num) \in -den..den}

\* np.round(1.3 - mean / (BOTTOM - TOP), 2), in hundredths, for the mean of
\* count rows that add up to total.
Rounded(total, count) ==
    LET cells == count * (BOTTOM - TOP)
    IN  Nearest(130 * cells - 100 * total, cells)

\* below_threshold[0] added up: the rows of the pixels S, from the top of the
\* window, counted as the rows above each pixel.
Rows(S) == Cardinality({c \in S \X (1..(BOTTOM - TOP)) : c[2] <= c[1][1] - TOP})

\* Mutant of volumes: min([volume, 1]) left out.
volumes_unclamped(S) == Rounded(Rows(S), Cardinality(S))

\* Mutant of volumes: the row counted from the bottom of the window.
volumes_upside_down(S) ==
    {IF v > 100 THEN 100 ELSE v :
        v \in Rounded((BOTTOM - 1 - TOP) * Cardinality(S) - Rows(S), Cardinality(S))}

\* min([volume, 1]) of the mean row of the pixels S, in hundredths.  Of two
\* neighbours that are equally near, binary floating point decides.
volumes(S) ==
    {IF v > 100 THEN 100 ELSE v : v \in Rounded(Rows(S), Cardinality(S))}

\* Mutant of GreenPixels: the far bound not strict.
GreenPixelsFar(dmap) == {p \in DOMAIN dmap : 2 * dmap[p] > THRESHOLD /\ dmap[p] <= THRESHOLD}

\* The pixels play_video paints green (channel 1 of dtex), with both bounds
\* strict: NEARTHRESH < col < THRESHOLD.
GreenPixels(dmap) == {p \in DOMAIN dmap : 2 * dmap[p] > THRESHOLD /\ dmap[p] < THRESHOLD}

\* The early return of play_video: min == max.
Uniform(dmap) == \A p, q \in DOMAIN dmap : dmap[p] = dmap[q]

-----------------------------------------------------------------------------
\* The bins of run cut the columns of the streams into consecutive pieces:
\* every column belongs to exactly one stream, none is lost at the rounding of
\* linspace or at the right edge, and no column outside belongs to a stream.
StreamsTileThePicture ==
    /\ \A i \in Streams : Columns(i) # {}
    /\ \A i \in Streams : Columns(i) \subseteq LEFT_STREAM_INDEX..(RIGHT_STREAM_INDEX - 1)
    /\ \A c \in LEFT_STREAM_INDEX..(RIGHT_STREAM_INDEX - 1) :
           \E i \in Streams : c \in Columns(i)
    /\ \A i, j \in Streams : i # j => Columns(i) \cap Columns(j) = {}
=============================================================================
