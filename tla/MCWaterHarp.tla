---------------------------- MODULE MCWaterHarp ----------------------------
(***************************************************************************)
(* TLC instance of WaterHarp: three streams, one, one and two columns      *)
(* wide, over two rows, with a border of one pixel around them.            *)
(***************************************************************************)
EXTENDS WaterHarp

LOCAL INSTANCE FiniteSetsExt
LOCAL INSTANCE Functions

\* The depths of a stream, row by row.  They lie around both bounds of a hand:
\* 454 is too near, 455 is NEARTHRESH, 909 the last depth above the water, 910
\* the water.  A hand is nowhere, low, high, over both rows, or half too near.
Reach == {<<910, 910>>, <<454, 455>>, <<909, 910>>, <<455, 909>>, <<454, 454>>}

\* All of them for the stream of two columns.  In one column a hand has to be
\* over both rows, and is there or not.
Hands(i) == IF i = 3 THEN Reach ELSE {<<910, 910>>, <<455, 909>>}

\* One depth per row and stream; the border shows a hand, which must not count.
Scene(f) ==
    [p \in Pixels |->
        IF p[1] \in TOP..(BOTTOM - 1) /\ \E i \in Streams : p[2] \in Columns(i)
        THEN f[CHOOSE i \in Streams : p[2] \in Columns(i)][p[1] - TOP + 1]
        ELSE 700]

MCFrames ==
    {Scene(f) : f \in {g \in [Streams -> Reach] : \A i \in Streams : g[i] \in Hands(i)}}
        \cup {[p \in Pixels |-> d] : d \in {700, 0}}

\* The sum of the rows, as numpy forms it.
ASSUME RowsAddUp ==
    \A S \in SUBSET Window(3) : Rows(S) = MapThenSumSet(LAMBDA p : p[1] - TOP, S)

\* Silent says what the sum of the code says: 0, and the lowest, a middle and
\* the highest volume of a hand, in every place.
ASSUME SilentIsASum ==
    \A array \in [Streams -> {0, 30, 65, 100}] :
        Silent(array) <=> 20 * FoldFunction(+, 0, array) < 1
=============================================================================
