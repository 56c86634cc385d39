-------------------------- MODULE WaterHarpProofs --------------------------
(***************************************************************************)
(* Proofs about the picture half and the main loop, for every geometry,    *)
(* number of streams and camera: the bins tile the picture, a raised hand  *)
(* is never quieter, each pixel of a hand over the streams is counted for  *)
(* exactly one of them, what a frame shows is what sounds, and the audio   *)
(* half only ever sees calls that its own specification allows.            *)
(***************************************************************************)
EXTENDS WaterHarp, WaterHarpAudioProofs, FiniteSetTheorems, TLAPS

-----------------------------------------------------------------------------
(* The picture: bins, rows and volumes (WaterHarpVision). *)

\* What \div is, without the operator: the quotient and its two bounds.
LEMMA Quotient ==
    ASSUME NEW a \in Nat, NEW n \in Nat \ {0}
    PROVE  /\ a \div n \in Nat
           /\ (a \div n) * n <= a
           /\ a < (a \div n) * n + n
  OBVIOUS

\* Products of naturals grow with their factors.
LEMMA ProductGrows ==
    ASSUME NEW a \in Nat, NEW b \in Nat, NEW n \in Nat, a <= b
    PROVE  a * n <= b * n /\ a * n \in Nat /\ b * n \in Nat
  OBVIOUS

\* The quotient is the only number within its bounds.
LEMMA BoundedByQuotient ==
    ASSUME NEW a \in Nat, NEW n \in Nat \ {0}, NEW k \in Nat
    PROVE  k <= a \div n <=> k * n <= a
<1> DEFINE q == a \div n
<1>1. q \in Nat /\ q * n <= a /\ a < q * n + n
  BY Quotient
<1> HIDE DEF q
<1>2. ASSUME k <= q PROVE k * n <= a
  <2>1. k * n <= q * n /\ k * n \in Nat /\ q * n \in Nat
    BY <1>1, <1>2, ProductGrows
  <2> QED
    BY <1>1, <2>1
<1>3. ASSUME ~(k <= q) PROVE ~(k * n <= a)
  <2>1. q + 1 <= k /\ q + 1 \in Nat
    BY <1>1, <1>3
  <2>2. (q + 1) * n <= k * n /\ (q + 1) * n \in Nat /\ k * n \in Nat
    BY <2>1, ProductGrows
  <2>3. (q + 1) * n = q * n + n
    BY <1>1
  <2> QED
    BY <1>1, <2>2, <2>3
<1> QED
  BY <1>2, <1>3 DEF q

-----------------------------------------------------------------------------
Span == RIGHT_STREAM_INDEX - LEFT_STREAM_INDEX

LEMMA SpanFacts ==
    /\ NUM_STREAMS \in Nat \ {0}
    /\ LEFT_STREAM_INDEX \in Nat /\ RIGHT_STREAM_INDEX \in Nat
    /\ Span \in Nat \ {0} /\ NUM_STREAMS <= Span
  BY NumStreamsAssumption, GeometryAssumption DEF Span

\* Where column LEFT_STREAM_INDEX + k lies: left of the right border of bin
\* i exactly if Span * i reaches (k + 1) * NUM_STREAMS.
LEMMA BinBorder ==
    ASSUME NEW i \in Nat, NEW k \in Nat
    PROVE  /\ x_bin(i) \in Nat
           /\ LEFT_STREAM_INDEX <= x_bin(i)
           /\ LEFT_STREAM_INDEX + k < x_bin(i) <=> (k + 1) * NUM_STREAMS <= Span * i
<1>1. Span * i \in Nat
  BY SpanFacts, ProductGrows
<1>2. (Span * i) \div NUM_STREAMS \in Nat
  BY <1>1, SpanFacts, Quotient
<1>3. k + 1 <= (Span * i) \div NUM_STREAMS <=> (k + 1) * NUM_STREAMS <= Span * i
  BY <1>1, SpanFacts, BoundedByQuotient
<1>4. x_bin(i) = LEFT_STREAM_INDEX + (Span * i) \div NUM_STREAMS
  BY DEF x_bin, Span
<1> QED
  BY <1>2, <1>3, <1>4, SpanFacts

\* The columns of a stream, by the two borders of its bin.
LEMMA InColumns ==
    ASSUME NEW i \in Streams, NEW k \in Nat
    PROVE  LEFT_STREAM_INDEX + k \in Columns(i) <=>
               /\ Span * (i - 1) < (k + 1) * NUM_STREAMS
               /\ (k + 1) * NUM_STREAMS <= Span * i
<1>1. i \in Nat /\ i - 1 \in Nat
  BY SpanFacts DEF Streams
<1>2. /\ x_bin(i) \in Nat
      /\ LEFT_STREAM_INDEX + k < x_bin(i) <=> (k + 1) * NUM_STREAMS <= Span * i
  BY <1>1, BinBorder
<1>3. /\ x_bin(i - 1) \in Nat
      /\ LEFT_STREAM_INDEX + k < x_bin(i - 1) <=> (k + 1) * NUM_STREAMS <= Span * (i - 1)
  BY <1>1, BinBorder
<1>4. Span * (i - 1) \in Nat /\ (k + 1) * NUM_STREAMS \in Nat
  BY <1>1, SpanFacts, ProductGrows
<1> QED
  BY <1>2, <1>3, <1>4, SpanFacts DEF Columns

\* Every column of a stream is LEFT_STREAM_INDEX + k for a natural k.
LEMMA ColumnOffset ==
    ASSUME NEW i \in Streams, NEW c \in Columns(i)
    PROVE  c - LEFT_STREAM_INDEX \in Nat /\ c = LEFT_STREAM_INDEX + (c - LEFT_STREAM_INDEX)
<1>1. i - 1 \in Nat
  BY SpanFacts DEF Streams
<1>2. x_bin(i - 1) \in Nat /\ LEFT_STREAM_INDEX <= x_bin(i - 1)
  BY <1>1, BinBorder, 0 \in Nat
<1>3. x_bin(i) \in Nat
  BY BinBorder, 0 \in Nat, SpanFacts DEF Streams
<1> QED
  BY <1>2, <1>3, SpanFacts DEF Columns

\* No stream is empty: its first column lies before its right border.
LEMMA ColumnsNotEmpty == ASSUME NEW i \in Streams PROVE Columns(i) # {}
<1> DEFINE k == (Span * (i - 1)) \div NUM_STREAMS
<1>1. i \in Nat /\ i - 1 \in Nat
  BY SpanFacts DEF Streams
<1>2. Span * (i - 1) \in Nat
  BY <1>1, SpanFacts, ProductGrows
<1>3. k \in Nat /\ k * NUM_STREAMS <= Span * (i - 1) /\ Span * (i - 1) < k * NUM_STREAMS + NUM_STREAMS
  BY <1>2, SpanFacts, Quotient
<1> HIDE DEF k
<1>4. (k + 1) * NUM_STREAMS = k * NUM_STREAMS + NUM_STREAMS /\ k * NUM_STREAMS \in Nat
  BY <1>3, SpanFacts
<1>5. Span * i = Span * (i - 1) + Span
  BY <1>1, SpanFacts
<1>6. LEFT_STREAM_INDEX + k \in Columns(i)
  BY <1>2, <1>3, <1>4, <1>5, SpanFacts, InColumns
<1> QED
  BY <1>6

\* No column of a stream lies outside the borders of the picture's streams.
LEMMA ColumnsInside ==
    ASSUME NEW i \in Streams
    PROVE  Columns(i) \subseteq LEFT_STREAM_INDEX..(RIGHT_STREAM_INDEX - 1)
<1> SUFFICES ASSUME NEW c \in Columns(i)
             PROVE  c \in LEFT_STREAM_INDEX..(RIGHT_STREAM_INDEX - 1)
  OBVIOUS
<1> DEFINE k == c - LEFT_STREAM_INDEX
<1>1. k \in Nat /\ c = LEFT_STREAM_INDEX + k
  BY ColumnOffset
<1> HIDE DEF k
<1>2. (k + 1) * NUM_STREAMS <= Span * i
  BY <1>1, InColumns
<1>3. Span * i <= NUM_STREAMS * Span /\ Span * i = i * Span
  BY SpanFacts, ProductGrows DEF Streams
<1>4. k + 1 <= Span
  <2> SUFFICES ASSUME ~(k + 1 <= Span) PROVE FALSE
    OBVIOUS
  <2>1. Span + 1 <= k + 1 /\ Span + 1 \in Nat /\ k + 1 \in Nat
    BY <1>1, SpanFacts
  <2>2. (Span + 1) * NUM_STREAMS <= (k + 1) * NUM_STREAMS
    BY <2>1, SpanFacts, ProductGrows
  <2>3. (Span + 1) * NUM_STREAMS = NUM_STREAMS * Span + NUM_STREAMS
    BY SpanFacts
  <2>4. NUM_STREAMS * Span \in Nat /\ (k + 1) * NUM_STREAMS \in Nat /\ Span * i \in Nat
    BY <2>1, SpanFacts, ProductGrows DEF Streams
  <2> QED
    BY <1>2, <1>3, <2>2, <2>3, <2>4, SpanFacts
<1> QED
  BY <1>1, <1>4, SpanFacts DEF Span

\* Every column belongs to the stream that its own quotient names.
LEMMA ColumnHasStream ==
    ASSUME NEW c \in LEFT_STREAM_INDEX..(RIGHT_STREAM_INDEX - 1)
    PROVE  \E i \in Streams : c \in Columns(i)
<1> DEFINE k == c - LEFT_STREAM_INDEX
           a == (k + 1) * NUM_STREAMS - 1
           q == a \div Span
<1>1. k \in Nat /\ k + 1 <= Span /\ c = LEFT_STREAM_INDEX + k
  BY SpanFacts DEF Span
<1> HIDE DEF k
<1>2. /\ (k + 1) * NUM_STREAMS \in Nat
      /\ (k + 1) * NUM_STREAMS <= Span * NUM_STREAMS
      /\ 1 * NUM_STREAMS <= (k + 1) * NUM_STREAMS
  <2>1. k + 1 \in Nat /\ 1 <= k + 1 /\ 1 \in Nat
    BY <1>1
  <2> QED
    BY <1>1, <2>1, SpanFacts, ProductGrows
<1>3. a \in Nat
  BY <1>2, SpanFacts
<1>4. q \in Nat /\ q * Span <= a /\ a < q * Span + Span
  BY <1>3, SpanFacts, Quotient
<1> HIDE DEF q
<1>5. q * Span < (k + 1) * NUM_STREAMS /\ (k + 1) * NUM_STREAMS <= q * Span + Span
  BY <1>2, <1>4, SpanFacts
<1>6. q + 1 \in Streams
  <2> SUFFICES ASSUME NUM_STREAMS <= q PROVE FALSE
    BY <1>4, SpanFacts DEF Streams
  <2>1. NUM_STREAMS * Span <= q * Span /\ q * Span \in Nat
    BY <1>4, SpanFacts, ProductGrows
  <2>2. NUM_STREAMS * Span = Span * NUM_STREAMS /\ NUM_STREAMS * Span \in Nat
    BY SpanFacts, ProductGrows
  <2> QED
    BY <1>2, <1>5, <2>1, <2>2
<1>7. Span * ((q + 1) - 1) = q * Span /\ Span * (q + 1) = q * Span + Span
  BY <1>4, SpanFacts
<1>8. c \in Columns(q + 1)
  BY <1>1, <1>5, <1>6, <1>7, InColumns
<1> QED
  BY <1>6, <1>8

\* Two streams share no column.
LEMMA ColumnsDisjoint ==
    ASSUME NEW i \in Streams, NEW j \in Streams, i < j
    PROVE  Columns(i) \cap Columns(j) = {}
<1> SUFFICES ASSUME NEW c \in Columns(i), c \in Columns(j) PROVE FALSE
  OBVIOUS
<1> DEFINE k == c - LEFT_STREAM_INDEX
<1>1. k \in Nat /\ c = LEFT_STREAM_INDEX + k
  BY ColumnOffset
<1> HIDE DEF k
<1>2. (k + 1) * NUM_STREAMS <= Span * i /\ Span * (j - 1) < (k + 1) * NUM_STREAMS
  BY <1>1, InColumns
<1>3. i \in Nat /\ j - 1 \in Nat /\ i <= j - 1
  BY SpanFacts DEF Streams
<1>4. i * Span <= (j - 1) * Span /\ i * Span \in Nat /\ (j - 1) * Span \in Nat
  BY <1>3, SpanFacts, ProductGrows
<1>5. Span * i = i * Span /\ Span * (j - 1) = (j - 1) * Span
  BY <1>3, SpanFacts
<1>6. (k + 1) * NUM_STREAMS \in Nat
  BY <1>1, SpanFacts, ProductGrows
<1> QED
  BY <1>2, <1>4, <1>5, <1>6

\* The bins of run tile the picture, whatever the geometry of the harp.
THEOREM BinsTile == StreamsTileThePicture
<1>1. ASSUME NEW i \in Streams, NEW j \in Streams, i # j
      PROVE  Columns(i) \cap Columns(j) = {}
  <2>1. i < j \/ j < i
    BY <1>1 DEF Streams
  <2> QED
    BY <2>1, ColumnsDisjoint
<1> QED
  BY <1>1, ColumnsNotEmpty, ColumnsInside, ColumnHasStream DEF StreamsTileThePicture

-----------------------------------------------------------------------------
(* Volumes. *)

Height == BOTTOM - TOP

LEMMA HeightFacts == TOP \in Nat /\ BOTTOM \in Nat /\ Height \in Nat \ {0}
  BY GeometryAssumption DEF Height

\* The cells that Rows counts.
Above(S) == {c \in S \X (1..Height) : c[2] <= c[1][1] - TOP}

LEMMA RowsAbove == ASSUME NEW S PROVE Rows(S) = Cardinality(Above(S))
  BY DEF Rows, Above, Height

LEMMA WindowIsFinite ==
    ASSUME NEW i \in Streams
    PROVE  /\ IsFiniteSet(Window(i))
           /\ \A p \in Window(i) : p = <<p[1], p[2]>> /\ p[1] \in TOP..(BOTTOM - 1) /\ p[2] \in Nat
<1>1. i \in Nat /\ i - 1 \in Nat
  BY SpanFacts DEF Streams
<1>2. x_bin(i) \in Nat /\ x_bin(i - 1) \in Nat
  BY <1>1, BinBorder, 0 \in Nat
<1>3. IsFiniteSet(Columns(i)) /\ Columns(i) \subseteq Nat
  <2>1. x_bin(i - 1) \in Int /\ x_bin(i) - 1 \in Int
    BY <1>2
  <2>2. IsFiniteSet(Columns(i))
    BY <2>1, FS_Interval DEF Columns
  <2> QED
    BY <1>2, <2>2 DEF Columns
<1>4. IsFiniteSet(TOP..(BOTTOM - 1))
  BY HeightFacts, FS_Interval
<1>5. IsFiniteSet(Window(i))
  BY <1>3, <1>4, FS_Product DEF Window
<1> QED
  BY <1>3, <1>5 DEF Window

\* Parts of a finite set of pixels, and the cells above them.
LEMMA AboveIsFinite ==
    ASSUME NEW S, IsFiniteSet(S)
    PROVE  IsFiniteSet(Above(S)) /\ Cardinality(S) \in Nat /\ Cardinality(Above(S)) \in Nat
<1>1. IsFiniteSet(S \X (1..Height))
  <2>1. 1 \in Int /\ Height \in Int
    BY HeightFacts
  <2>2. IsFiniteSet(1..Height)
    BY <2>1, FS_Interval
  <2> QED
    BY <2>2, FS_Product
<1>2. Above(S) \in SUBSET (S \X (1..Height))
  BY DEF Above
<1> QED
  BY <1>1, <1>2, FS_Subset, FS_CardinalityType

\* No pixel of a window has more rows above it than the window has below its
\* first row.
LEMMA RowsAreBounded ==
    ASSUME NEW i \in Streams, NEW S \in SUBSET Window(i)
    PROVE  /\ IsFiniteSet(S) /\ Cardinality(S) \in Nat
           /\ Rows(S) \in Nat /\ Rows(S) <= Cardinality(S) * (Height - 1)
<1>1. IsFiniteSet(S) /\ Cardinality(S) \in Nat
  BY WindowIsFinite, FS_Subset, FS_CardinalityType
<1> DEFINE box == S \X (1..(Height - 1))
<1>2. IsFiniteSet(1..(Height - 1)) /\ Cardinality(1..(Height - 1)) = Height - 1
  BY HeightFacts, FS_Interval
<1>3. IsFiniteSet(box) /\ Cardinality(box) = Cardinality(S) * (Height - 1)
  BY <1>1, <1>2, FS_Product
<1>4. Above(S) \in SUBSET box
  <2> SUFFICES ASSUME NEW c \in Above(S) PROVE c \in box
    OBVIOUS
  <2>1. c \in S \X (1..Height) /\ c[2] <= c[1][1] - TOP
    BY DEF Above
  <2>2. c[1] \in Window(i)
    BY <2>1
  <2>3. c[1][1] \in TOP..(BOTTOM - 1)
    BY <2>2, WindowIsFinite
  <2> QED
    BY <2>1, <2>3, HeightFacts DEF Height
<1> QED
  BY <1>1, <1>3, <1>4, FS_Subset, AboveIsFinite, RowsAbove

\* Rows adds up the rows of a hand: nothing for no pixel, and for each pixel more
\* its row, counted from the top of the window (below_threshold[0] of run).
THEOREM RowsAddUp ==
    /\ Rows({}) = 0
    /\ \A i \in Streams : \A S \in SUBSET Window(i) : \A p \in Window(i) \ S :
           Rows(S \cup {p}) = Rows(S) + (p[1] - TOP)
<1>1. Rows({}) = 0
  <2>1. Above({}) = {}
    BY DEF Above
  <2> QED
    BY <2>1, RowsAbove, FS_EmptySet
<1>2. ASSUME NEW i \in Streams, NEW S \in SUBSET Window(i), NEW p \in Window(i) \ S
      PROVE  Rows(S \cup {p}) = Rows(S) + (p[1] - TOP)
  <2> DEFINE k == p[1] - TOP
             column == {p} \X (1..k)
  <2>1. k \in 0..(Height - 1) /\ k \in Int /\ 1 \in Int
    BY <1>2, WindowIsFinite, HeightFacts DEF Height
  <2>2. Above(S \cup {p}) = Above(S) \cup column
    <3>1. ASSUME NEW c \in Above(S \cup {p}) PROVE c \in Above(S) \cup column
      <4>1. /\ c = <<c[1], c[2]>> /\ c[1] \in S \cup {p} /\ c[2] \in 1..Height
            /\ c[2] <= c[1][1] - TOP
        BY DEF Above
      <4>2. CASE c[1] \in S
        BY <4>1, <4>2 DEF Above
      <4>3. CASE c[1] = p
        <5>1. c[2] \in 1..k
          BY <2>1, <4>1, <4>3
        <5> QED
          BY <4>1, <4>3, <5>1
      <4> QED
        BY <4>1, <4>2, <4>3
    <3>2. Above(S) \subseteq Above(S \cup {p})
      BY DEF Above
    <3>3. ASSUME NEW c \in column PROVE c \in Above(S \cup {p})
      <4>1. c = <<c[1], c[2]>> /\ c[1] = p /\ c[2] \in 1..k
        OBVIOUS
      <4>2. c[2] \in 1..Height /\ c[2] <= c[1][1] - TOP
        BY <2>1, <4>1, HeightFacts
      <4> QED
        BY <4>1, <4>2 DEF Above
    <3> HIDE DEF column
    <3> QED
      BY <3>1, <3>2, <3>3
  <2>3. Above(S) \cap column = {}
    BY <1>2 DEF Above
  <2>4. IsFiniteSet(column) /\ Cardinality(column) = k
    <3>1. IsFiniteSet(1..k) /\ Cardinality(1..k) = k
      BY <2>1, FS_Interval
    <3>2. IsFiniteSet({p}) /\ Cardinality({p}) = 1
      BY FS_Singleton
    <3>3. IsFiniteSet(column) /\ Cardinality(column) = 1 * k
      <4> HIDE DEF k
      <4>1. Cardinality({p} \X (1..k)) = Cardinality({p}) * Cardinality(1..k)
        BY <3>1, <3>2, FS_Product
      <4>2. IsFiniteSet({p} \X (1..k))
        BY <3>1, <3>2, FS_Product
      <4> QED
        BY <3>1, <3>2, <4>1, <4>2
    <3> HIDE DEF column, k
    <3> QED
      BY <2>1, <3>3
  <2>5. IsFiniteSet(Above(S)) /\ Cardinality(Above(S)) \in Nat
    BY RowsAreBounded, AboveIsFinite
  <2> HIDE DEF column, k
  <2>6. Cardinality(Above(S) \cup column)
            = Cardinality(Above(S)) + Cardinality(column) - Cardinality(Above(S) \cap column)
    BY <2>4, <2>5, FS_Union
  <2>7. Cardinality(Above(S) \cap column) = 0
    BY <2>3, FS_EmptySet
  <2>8. Rows(S \cup {p}) = Rows(S) + k
    <3>1. Rows(S) = Cardinality(Above(S)) /\ Rows(S \cup {p}) = Cardinality(Above(S \cup {p}))
      BY RowsAbove
    <3>2. Cardinality(Above(S) \cup column) = Cardinality(Above(S)) + k
      BY ONLY <2>1, <2>4, <2>5, <2>6, <2>7
    <3> QED
      BY ONLY <2>2, <3>1, <3>2
  <2> QED
    BY <2>8 DEF k
<1> QED
  BY <1>1, <1>2

\* A quotient of numbers that Rounded may be given, and its rounding.
LEMMA RoundedIsLoud ==
    ASSUME NEW total \in Nat, NEW count \in Nat \ {0}, total <= count * (Height - 1),
           NEW v \in Rounded(total, count)
    PROVE  v \in Nat /\ 30 <= v
<1> DEFINE cells == count * Height
           num == 130 * cells - 100 * total
<1>1. cells \in Nat \ {0} /\ total <= cells - count
  <2>1. 1 * Height <= count * Height /\ count * Height \in Nat
    BY HeightFacts, ProductGrows
  <2>2. count * (Height - 1) = count * Height - count
    BY HeightFacts
  <2> QED
    BY <2>1, <2>2, HeightFacts
<1> HIDE DEF cells
<1>2. num \in Nat /\ 30 * cells <= num
  BY <1>1
<1>3. v \in Nearest(num, cells)
  BY DEF Rounded, cells, Height
<1> HIDE DEF num
<1>4. num \div cells \in Nat /\ 30 <= num \div cells
  BY <1>1, <1>2, Quotient, BoundedByQuotient
<1> QED
  BY <1>3, <1>4 DEF Nearest

\* A hand is never played as silence, and never louder than 1.
LEMMA HandsAreLoud ==
    ASSUME NEW i \in Streams, NEW S \in SUBSET Window(i), S # {},
           NEW v \in volumes(S)
    PROVE  v \in 30..100
<1>1. IsFiniteSet(S) /\ Rows(S) \in Nat /\ Rows(S) <= Cardinality(S) * (Height - 1)
  BY RowsAreBounded
<1>2. Cardinality(S) \in Nat \ {0}
  BY <1>1, FS_EmptySet, FS_CardinalityType
<1>3. PICK w \in Rounded(Rows(S), Cardinality(S)) : v = IF w > 100 THEN 100 ELSE w
  BY DEF volumes
<1>4. w \in Nat /\ 30 <= w
  BY <1>1, <1>2, RoundedIsLoud
<1> QED
  BY <1>3, <1>4

-----------------------------------------------------------------------------
(* A hand that is raised by one row. *)

LEMMA SameSize ==
    ASSUME NEW S, IsFiniteSet(S), NEW T, NEW f \in [S -> T],
           \A a, b \in S : f[a] = f[b] => a = b,
           \A t \in T : \E s \in S : f[s] = t
    PROVE  IsFiniteSet(T) /\ Cardinality(T) = Cardinality(S)
<1>1. f \in Bijection(S, T)
  BY DEF Bijection, Injection, Surjection, IsInjective
<1> QED
  BY <1>1, FS_Bijection DEF ExistsBijection

Raised(S) == {<<p[1] - 1, p[2]>> : p \in S}

LEMMA RaisedPixels ==
    ASSUME NEW i \in Streams, NEW S \in SUBSET Window(i)
    PROVE  Cardinality(Raised(S)) = Cardinality(S)
<1> DEFINE f == [p \in S |-> <<p[1] - 1, p[2]>>]
<1>1. IsFiniteSet(S)
  BY RowsAreBounded
<1>2. f \in [S -> Raised(S)] /\ \A t \in Raised(S) : \E s \in S : f[s] = t
  BY DEF Raised
<1>3. ASSUME NEW p \in S, NEW q \in S, f[p] = f[q] PROVE p = q
  <2>1. p = <<p[1], p[2]>> /\ q = <<q[1], q[2]>> /\ p[1] \in Int /\ q[1] \in Int
    BY WindowIsFinite, HeightFacts
  <2>2. p[1] - 1 = q[1] - 1 /\ p[2] = q[2]
    BY <1>3
  <2>3. p[1] = q[1]
    BY <2>1, <2>2
  <2> QED
    BY <2>1, <2>2, <2>3
<1> HIDE DEF f
<1> QED
  BY <1>1, <1>2, <1>3, SameSize

\* The cells above a hand are those above the raised hand, a row lower, and
\* one in the first row below each of its pixels.
LEMMA RaisedRows ==
    ASSUME NEW i \in Streams, NEW S \in SUBSET Window(i), Raised(S) \subseteq Window(i)
    PROVE  Rows(S) = Rows(Raised(S)) + Cardinality(S)
<1> DEFINE own == {c \in S \X (1..Height) : c[2] = c[1][1] - TOP}
           rest == {c \in S \X (1..Height) : c[2] <= c[1][1] - TOP /\ c[2] # c[1][1] - TOP}
<1>1. \A p \in S : /\ p = <<p[1], p[2]>> /\ p[1] \in TOP..(BOTTOM - 1)
                   /\ p[1] - 1 \in TOP..(BOTTOM - 1)
  <2> SUFFICES ASSUME NEW p \in S
               PROVE  /\ p = <<p[1], p[2]>> /\ p[1] \in TOP..(BOTTOM - 1)
                      /\ p[1] - 1 \in TOP..(BOTTOM - 1)
    OBVIOUS
  <2>1. <<p[1] - 1, p[2]>> \in Window(i)
    BY DEF Raised
  <2>2. <<p[1] - 1, p[2]>>[1] \in TOP..(BOTTOM - 1)
    BY <2>1, WindowIsFinite
  <2> QED
    BY <2>2, WindowIsFinite
<1>2. IsFiniteSet(S) /\ IsFiniteSet(Above(S)) /\ Cardinality(S) \in Nat
  BY RowsAreBounded, AboveIsFinite
<1>3. own \in SUBSET Above(S) /\ rest \in SUBSET Above(S) /\ Above(S) = own \cup rest
  <2>1. \A c \in S \X (1..Height) : c[2] \in Int /\ c[1][1] - TOP \in Int
    BY <1>1, HeightFacts
  <2>2. own \subseteq Above(S)
    BY <2>1 DEF Above
  <2>3. rest \subseteq Above(S)
    BY DEF Above
  <2>4. Above(S) \subseteq own \cup rest
    BY DEF Above
  <2> QED
    BY <2>2, <2>3, <2>4
<1>4. IsFiniteSet(own) /\ IsFiniteSet(rest)
  BY <1>2, <1>3, FS_Subset
<1>5. own \cap rest = {}
  OBVIOUS
<1>6. Cardinality(own) = Cardinality(S)
  <2> DEFINE f == [p \in S |-> <<p, p[1] - TOP>>]
  <2>1. f \in [S -> own]
    <3> SUFFICES ASSUME NEW p \in S PROVE <<p, p[1] - TOP>> \in own
      OBVIOUS
    <3>1. p[1] - TOP \in 1..Height
      BY <1>1, HeightFacts DEF Height
    <3> QED
      BY <3>1
  <2>2. \A p, q \in S : f[p] = f[q] => p = q
    OBVIOUS
  <2>3. ASSUME NEW c \in own PROVE \E p \in S : f[p] = c
    <3>1. c[1] \in S /\ c = <<c[1], c[2]>> /\ c[2] = c[1][1] - TOP
      OBVIOUS
    <3> QED
      BY <3>1
  <2> HIDE DEF f, own
  <2> QED
    BY <1>2, <2>1, <2>2, <2>3, SameSize
<1>7. Cardinality(rest) = Cardinality(Above(Raised(S))) /\ IsFiniteSet(Above(Raised(S)))
  <2> DEFINE f == [c \in rest |-> <<<<c[1][1] - 1, c[1][2]>>, c[2]>>]
  <2>1. f \in [rest -> Above(Raised(S))]
    <3> SUFFICES ASSUME NEW c \in rest
                 PROVE  <<<<c[1][1] - 1, c[1][2]>>, c[2]>> \in Above(Raised(S))
      OBVIOUS
    <3>1. c[1] \in S /\ c[2] \in 1..Height /\ c[2] <= c[1][1] - TOP /\ c[2] # c[1][1] - TOP
      OBVIOUS
    <3>2. <<c[1][1] - 1, c[1][2]>> \in Raised(S)
      BY <3>1 DEF Raised
    <3>3. c[2] <= (c[1][1] - 1) - TOP
      BY <1>1, <3>1, HeightFacts
    <3> QED
      BY <3>1, <3>2, <3>3 DEF Above
  <2>2. ASSUME NEW c \in rest, NEW d \in rest, f[c] = f[d] PROVE c = d
    <3>1. /\ c = <<c[1], c[2]>> /\ c[1] \in S /\ d = <<d[1], d[2]>> /\ d[1] \in S
      OBVIOUS
    <3>2. /\ c[1] = <<c[1][1], c[1][2]>> /\ c[1][1] \in Int
          /\ d[1] = <<d[1][1], d[1][2]>> /\ d[1][1] \in Int
      BY <1>1, <3>1, HeightFacts
    <3>3. c[1][1] - 1 = d[1][1] - 1 /\ c[1][2] = d[1][2] /\ c[2] = d[2]
      BY <2>2
    <3>4. c[1][1] = d[1][1]
      BY <3>2, <3>3
    <3> QED
      BY <3>1, <3>2, <3>3, <3>4
  <2>3. ASSUME NEW t \in Above(Raised(S)) PROVE \E c \in rest : f[c] = t
    <3>1. t[1] \in Raised(S) /\ t[2] \in 1..Height /\ t = <<t[1], t[2]>> /\ t[2] <= t[1][1] - TOP
      BY DEF Above
    <3>2. PICK p \in S : t[1] = <<p[1] - 1, p[2]>>
      BY <3>1 DEF Raised
    <3>3. t[2] <= p[1] - TOP /\ t[2] # p[1] - TOP
      BY <1>1, <3>1, <3>2, HeightFacts
    <3>4. <<p, t[2]>> \in rest
      BY <3>1, <3>3
    <3>5. f[<<p, t[2]>>] = t
      BY <3>1, <3>2, <3>4
    <3> QED
      BY <3>4, <3>5
  <2> HIDE DEF f, rest
  <2> QED
    BY <1>4, <2>1, <2>2, <2>3, SameSize
<1>8. Cardinality(own \cap rest) = 0
  BY <1>5, FS_EmptySet
<1>9. Cardinality(Above(S)) = Cardinality(own) + Cardinality(rest)
  <2>1. Cardinality(own) \in Nat /\ Cardinality(rest) \in Nat
    BY <1>4, FS_CardinalityType
  <2>2. Cardinality(own \cup rest)
            = Cardinality(own) + Cardinality(rest) - Cardinality(own \cap rest)
    BY <1>4, FS_Union
  <2> HIDE DEF own, rest
  <2> QED
    BY <1>3, <1>8, <2>1, <2>2
<1>10. Cardinality(rest) \in Nat
  BY <1>4, FS_CardinalityType
<1> HIDE DEF own, rest
<1> QED
  BY <1>2, <1>6, <1>7, <1>9, <1>10, RowsAbove

\* Rounding keeps an order that is strict.
LEMMA NearestRises ==
    ASSUME NEW n \in Nat, NEW m \in Nat, n < m, NEW d \in Nat \ {0},
           NEW v \in Nearest(n, d), NEW w \in Nearest(m, d)
    PROVE  v \in Nat /\ w \in Nat /\ v <= w
<1>1. n \div d \in Nat /\ m \div d \in Nat
  BY Quotient
<1>2. v \in Nat /\ w \in Nat /\ 2 * (v * d - n) <= d /\ 2 * (m - w * d) <= d
  <2>1. v \in Nat /\ w \in Nat
    BY <1>1 DEF Nearest
  <2>2. v * d \in Nat /\ w * d \in Nat
    BY <2>1, ProductGrows
  <2>3. 2 * (v * d - n) \in -d..d /\ 2 * (w * d - m) \in -d..d
    BY DEF Nearest
  <2> QED
    BY <2>1, <2>2, <2>3
<1>3. ~(w + 1 <= v)
  <2> SUFFICES ASSUME w + 1 <= v PROVE FALSE
    OBVIOUS
  <2>1. (w + 1) * d <= v * d /\ v * d \in Nat /\ w * d \in Nat
    BY <1>2, ProductGrows
  <2>2. (w + 1) * d = w * d + d
    BY <1>2
  <2> QED
    BY <1>2, <2>1, <2>2
<1> QED
  BY <1>2, <1>3

\* A hand raised by a row is at least as loud.
THEOREM RaisedIsLouder ==
    ASSUME NEW i \in Streams, NEW S \in SUBSET Window(i), S # {},
           Raised(S) \subseteq Window(i),
           NEW v \in volumes(S), NEW w \in volumes(Raised(S))
    PROVE  v <= w
<1> DEFINE count == Cardinality(S)
           cells == count * Height
           n == 130 * cells - 100 * Rows(S)
           m == 130 * cells - 100 * Rows(Raised(S))
<1>1. /\ IsFiniteSet(S) /\ Rows(S) \in Nat /\ Rows(S) <= count * (Height - 1)
      /\ Rows(Raised(S)) \in Nat
  BY RowsAreBounded
<1>2. count \in Nat \ {0}
  BY <1>1, FS_EmptySet, FS_CardinalityType
<1>3. Rows(S) = Rows(Raised(S)) + count /\ Cardinality(Raised(S)) = count
  BY RaisedRows, RaisedPixels
<1> HIDE DEF count
<1>4. cells \in Nat \ {0} /\ count * (Height - 1) <= cells
  <2>1. 1 * Height <= count * Height /\ count * Height \in Nat
    BY <1>2, HeightFacts, ProductGrows
  <2>2. count * (Height - 1) = count * Height - count
    BY <1>2, HeightFacts
  <2> QED
    BY <1>2, <2>1, <2>2, HeightFacts
<1>5. PICK a \in Nearest(n, cells) : v = IF a > 100 THEN 100 ELSE a
  BY DEF volumes, Rounded, Height, count
<1>6. PICK b \in Nearest(m, cells) : w = IF b > 100 THEN 100 ELSE b
  BY <1>3 DEF volumes, Rounded, Height
<1> HIDE DEF cells
<1>7. n \in Nat /\ m \in Nat /\ n < m
  <2> DEFINE before == Rows(S)
             after == Rows(Raised(S))
  <2>1. before \in Nat /\ after \in Nat /\ before = after + count /\ before <= cells
    <3>1. count * (Height - 1) \in Nat
      BY <1>2, HeightFacts
    <3> QED
      BY <1>1, <1>3, <1>4, <3>1
  <2>2. n = 130 * cells - 100 * before /\ m = 130 * cells - 100 * after
    OBVIOUS
  <2> HIDE DEF before, after, n, m
  <2> QED
    BY <1>2, <1>4, <2>1, <2>2
<1> HIDE DEF n, m
<1>8. a \in Nat /\ b \in Nat /\ a <= b
  BY <1>4, <1>7, NearestRises
<1> QED
  BY <1>5, <1>6, <1>8

-----------------------------------------------------------------------------
(* The main loop (WaterHarp). *)

\* The depth map of the loop is one the camera can deliver, or none yet.
DmapInv == dmap \in [Pixels -> Depth]

LEMMA DepthsAreNumbers == Depth \subseteq Nat /\ 0 \in Depth
  BY DEF Depth

LEMMA NoPictureIsAMap == NoPicture \in [Pixels -> Depth]
  BY DepthsAreNumbers DEF NoPicture

LEMMA DmapInitial == Init => DmapInv
  BY NoPictureIsAMap DEF Init, DmapInv

\* Only get_dmap and a restart assign the depth map.
LEMMA DmapStep == DmapInv /\ [Next]_vars => DmapInv'
<1> SUFFICES ASSUME DmapInv, [Next]_vars PROVE DmapInv'
  OBVIOUS
<1>1. ASSUME NEW frame \in Frames, GetDmap(frame) PROVE DmapInv'
  BY <1>1, FramesAssumption DEF GetDmap, DmapInv
<1>2. CASE HarpRestarts
  BY <1>2, NoPictureIsAMap DEF HarpRestarts, DmapInv
<1>3. CASE BinStep \/ CallPlayNotes \/ PlayNotesStep \/ PlayNotesReturn \/ HarpDies
  <2>1. dmap' = dmap
    BY <1>3 DEF BinStep, CallPlayNotes, PlayNotesStep, PlayNotesReturn, HarpDies, harpVars
  <2> QED
    BY <2>1 DEF DmapInv
<1>4. CASE UNCHANGED vars
  BY <1>4 DEF vars, harpVars, DmapInv
<1> QED
  BY <1>1, <1>2, <1>3, <1>4 DEF Next, Run

\* What a stream counts: the pixels of its window that show a hand.  The mask
\* lifts the pixels that are too near above the threshold, never a hand.
LEMMA CountedPixels ==
    ASSUME NEW d \in [Pixels -> Depth], NEW i \in Streams, NEW p \in Pixels
    PROVE  p \in below_threshold(d, i) <=>
               p \in Window(i) /\ 2 * d[p] >= THRESHOLD /\ d[p] < THRESHOLD
<1>1. p \notin Window(i) => p \notin below_threshold(d, i)
  BY DEF below_threshold
<1>2. ASSUME p \in Window(i)
      PROVE  p \in below_threshold(d, i) <=>
                 2 * d[p] >= THRESHOLD /\ d[p] < THRESHOLD
  <2> DEFINE part == [q \in Window(i) |-> d[q]]
  <2>1. part[p] = d[p] /\ DOMAIN part = Window(i)
    BY <1>2
  <2>2. Masked(part)[p] = IF TooNear(d[p]) THEN BACKGROUND ELSE d[p]
    BY <1>2, <2>1 DEF Masked
  <2>3. p \in below_threshold(d, i) <=> Masked(part)[p] < THRESHOLD
    BY <1>2 DEF below_threshold
  <2>4. d[p] \in Nat
    BY DepthsAreNumbers
  <2>5. THRESHOLD \in Nat /\ BACKGROUND \in Nat /\ THRESHOLD <= BACKGROUND
    BY ThresholdAssumption, DepthsAreNumbers
  <2> QED
    BY <2>2, <2>3, <2>4, <2>5 DEF TooNear
<1> QED
  BY <1>1, <1>2

\* The windows of the streams, together, are the rows and columns of the
\* streams, and no two of them meet.
LEMMA WindowsTile ==
    ASSUME NEW p \in Pixels
    PROVE  IF /\ p[1] \in TOP..(BOTTOM - 1)
              /\ p[2] \in LEFT_STREAM_INDEX..(RIGHT_STREAM_INDEX - 1)
           THEN \E i \in Streams : \A j \in Streams : p \in Window(j) <=> j = i
           ELSE \A j \in Streams : p \notin Window(j)
<1>1. ASSUME NEW j \in Streams
      PROVE  p \in Window(j) <=> p[1] \in TOP..(BOTTOM - 1) /\ p[2] \in Columns(j)
  BY DEF Window, Pixels
<1>2. StreamsTileThePicture
  BY BinsTile
<1>3. CASE p[2] \in LEFT_STREAM_INDEX..(RIGHT_STREAM_INDEX - 1)
  <2>1. PICK i \in Streams : p[2] \in Columns(i)
    BY <1>2, <1>3 DEF StreamsTileThePicture
  <2>2. \A j \in Streams : p[2] \in Columns(j) <=> j = i
    BY <1>2, <2>1 DEF StreamsTileThePicture
  <2> QED
    BY <1>1, <1>3, <2>2
<1>4. CASE p[2] \notin LEFT_STREAM_INDEX..(RIGHT_STREAM_INDEX - 1)
  <2>1. \A j \in Streams : p[2] \notin Columns(j)
    BY <1>2, <1>4 DEF StreamsTileThePicture
  <2> QED
    BY <1>1, <1>4, <2>1
<1> QED
  BY <1>3, <1>4

LEMMA MapsAreCountedOnce == DmapInv => HandCountsOnce
<1> SUFFICES ASSUME DmapInv, NEW p \in Pixels
             PROVE  LET counted == {i \in Streams : p \in below_threshold(dmap, i)}
                    IN  IF /\ p[1] \in TOP..(BOTTOM - 1)
                           /\ p[2] \in LEFT_STREAM_INDEX..(RIGHT_STREAM_INDEX - 1)
                           /\ 2 * dmap[p] >= THRESHOLD /\ dmap[p] < THRESHOLD
                        THEN \E i \in Streams : counted = {i}
                        ELSE counted = {}
  BY DEF HandCountsOnce
<1> DEFINE hand == 2 * dmap[p] >= THRESHOLD /\ dmap[p] < THRESHOLD
<1>1. \A j \in Streams : p \in below_threshold(dmap, j) <=> p \in Window(j) /\ hand
  BY CountedPixels DEF DmapInv
<1> HIDE DEF hand
<1>2. CASE /\ p[1] \in TOP..(BOTTOM - 1)
           /\ p[2] \in LEFT_STREAM_INDEX..(RIGHT_STREAM_INDEX - 1)
  <2>1. PICK i \in Streams : \A j \in Streams : p \in Window(j) <=> j = i
    BY <1>2, WindowsTile
  <2>2. hand => {j \in Streams : p \in below_threshold(dmap, j)} = {i}
    BY <1>1, <2>1
  <2>3. ~hand => {j \in Streams : p \in below_threshold(dmap, j)} = {}
    BY <1>1
  <2> QED
    BY <1>2, <2>2, <2>3 DEF hand
<1>3. CASE ~ (/\ p[1] \in TOP..(BOTTOM - 1)
              /\ p[2] \in LEFT_STREAM_INDEX..(RIGHT_STREAM_INDEX - 1))
  <2>1. \A j \in Streams : p \notin Window(j)
    BY <1>3, WindowsTile
  <2>2. {j \in Streams : p \in below_threshold(dmap, j)} = {}
    BY <1>1, <2>1
  <2> QED
    BY <1>3, <2>2
<1> QED
  BY <1>2, <1>3

\* Each pixel of a hand counts for exactly one stream and no other pixel for
\* any, for every geometry, number of streams and picture of the camera.
THEOREM HandsCountOnce == Spec => []HandCountsOnce
<1>1. Spec => []DmapInv
  BY DmapInitial, DmapStep, PTL DEF Spec
<1> QED
  BY <1>1, MapsAreCountedOnce, PTL

-----------------------------------------------------------------------------
(***************************************************************************)
(* SceneIsHeard speaks of the top of the loop only.  What makes it true    *)
(* there is that the volumes built so far tell which streams the depth map *)
(* of this iteration shows interrupted, and that the frame the audio half  *)
(* plays, or has played, is that list.                                     *)
(***************************************************************************)
HarpTypes ==
    /\ harpPc \in {"get_dmap", "bins", "play_notes"}
    /\ dtex \subseteq Pixels
    /\ bin \in 1..(NUM_STREAMS + 1)
    /\ stream_indicators \in Seq(HarpVolumes) /\ Len(stream_indicators) <= NUM_STREAMS

\* A frame, a function or a sequence, tells the scene of its first k streams.
Tells(array, k) == \A i \in 1..k : array[i] > 0 <=> Interrupted(i)

Built ==
    harpPc = "bins" => Len(stream_indicators) = bin - 1 /\ Tells(stream_indicators, bin - 1)

Played ==
    audioPc # "down" =>
        /\ harpPc = "bins" => audioPc = "idle"
        /\ harpPc = "play_notes" => audioPc = "notes" /\ Tells(kinect_array, NUM_STREAMS)
        /\ harpPc = "get_dmap" => audioPc = "idle" /\ Tells(last_kinect_array, NUM_STREAMS)

Drawn == ~Uniform(dmap) => dtex = GreenPixels(dmap)

HarpInv == AudioInv /\ DmapInv /\ HarpTypes /\ Built /\ Played /\ Drawn

LEMMA StreamFacts ==
    NUM_STREAMS \in Nat \ {0} /\ \A i : i \in Streams <=> i \in Nat /\ 1 <= i /\ i <= NUM_STREAMS
  BY NumStreamsAssumption DEF Streams

\* What is counted for a stream is the hand the scene shows.
LEMMA WindowInPicture == ASSUME NEW i \in Streams PROVE Window(i) \subseteq Pixels
<1> SUFFICES ASSUME NEW p \in Window(i) PROVE p \in Pixels
  OBVIOUS
<1>1. p[1] \in TOP..(BOTTOM - 1) /\ p[2] \in Columns(i) /\ p = <<p[1], p[2]>>
  BY DEF Window
<1>2. p[2] \in LEFT_STREAM_INDEX..(RIGHT_STREAM_INDEX - 1)
  BY <1>1, ColumnsInside
<1>3. p[1] \in 0..(HEIGHT - 1) /\ p[2] \in 0..(WIDTH - 1)
  BY <1>1, <1>2, GeometryAssumption
<1> QED
  BY <1>1, <1>3 DEF Pixels

LEMMA CountedHand ==
    ASSUME DmapInv, NEW i \in Streams
    PROVE  /\ below_threshold(dmap, i) = HandPixels(i)
           /\ IsFiniteSet(HandPixels(i)) /\ Cardinality(HandPixels(i)) \in Nat
<1>1. \A p \in Window(i) : p \in below_threshold(dmap, i) <=> p \in HandPixels(i)
  BY CountedPixels, WindowInPicture DEF HandPixels, DmapInv
<1>2. below_threshold(dmap, i) \subseteq Window(i) /\ HandPixels(i) \in SUBSET Window(i)
  BY DEF below_threshold, HandPixels
<1>3. IsFiniteSet(HandPixels(i)) /\ Cardinality(HandPixels(i)) \in Nat
  BY <1>2, RowsAreBounded
<1> QED
  BY <1>1, <1>2, <1>3

\* A stream that is counted interrupted shows a hand, and gets a volume.
LEMMA HandsGetVolumes ==
    ASSUME DmapInv, NEW i \in Streams
    PROVE  /\ num_below(i) > MIN_PIXELS <=> Interrupted(i)
           /\ num_below(i) \in Nat /\ MIN_PIXELS \in Nat
           /\ num_below(i) > MIN_PIXELS =>
                \A v \in volumes(below_threshold(dmap, i)) : v \in 30..100
<1>1. num_below(i) = Cardinality(HandPixels(i)) /\ num_below(i) \in Nat /\ MIN_PIXELS \in Nat
  BY CountedHand, ThresholdAssumption DEF num_below
<1>2. ASSUME num_below(i) > MIN_PIXELS, NEW v \in volumes(below_threshold(dmap, i))
      PROVE  v \in 30..100
  <2>1. HandPixels(i) # {}
    BY <1>1, <1>2, FS_EmptySet
  <2>2. HandPixels(i) \in SUBSET Window(i) /\ v \in volumes(HandPixels(i))
    BY <1>2, CountedHand DEF HandPixels
  <2> QED
    BY <2>1, <2>2, HandsAreLoud
<1> QED
  BY <1>1, <1>2 DEF Interrupted

\* Before the first frame no stream shows a hand.
LEMMA NoPictureIsEmpty ==
    /\ Uniform(NoPicture)
    /\ \A i \in Streams :
         {p \in Window(i) : 2 * NoPicture[p] >= THRESHOLD /\ NoPicture[p] < THRESHOLD} = {}
    /\ ~(Cardinality({}) > MIN_PIXELS)
<1>1. \A p \in Pixels : NoPicture[p] = 0
  BY DEF NoPicture
<1>2. Uniform(NoPicture)
  BY DEF Uniform, NoPicture
<1> QED
  BY <1>1, <1>2, WindowInPicture, ThresholdAssumption, FS_EmptySet

LEMMA HarpInitial == Init => HarpInv
<1> SUFFICES ASSUME Init PROVE HarpInv
  OBVIOUS
<1> USE DEF Init
<1>1. AudioInv /\ DmapInv
  BY InitAudioInv, DmapInitial
<1>2. HarpTypes /\ Built
  BY StreamFacts DEF HarpTypes, Built
<1>3. Played
  <2>1. \A i \in Streams : ~Interrupted(i)
    BY NoPictureIsEmpty DEF Interrupted, HandPixels
  <2> QED
    BY <2>1 DEF Played, Tells, AudioInit, Zeros, Streams
<1>4. Drawn
  BY NoPictureIsEmpty DEF Drawn
<1> QED
  BY <1>1, <1>2, <1>3, <1>4 DEF HarpInv

\* The list run hands over is a frame: one volume for every stream.
LEMMA ListIsFrame ==
    ASSUME HarpInv, CallPlayNotes
    PROVE  /\ stream_indicators \in Arrays
           /\ bin = NUM_STREAMS + 1 /\ Tells(stream_indicators, NUM_STREAMS)
<1>1. bin = NUM_STREAMS + 1
  BY StreamFacts DEF CallPlayNotes, HarpInv, HarpTypes
<1>2. Len(stream_indicators) = NUM_STREAMS /\ Tells(stream_indicators, NUM_STREAMS)
  BY <1>1, StreamFacts DEF CallPlayNotes, HarpInv, Built
<1>3. stream_indicators \in [1..NUM_STREAMS -> HarpVolumes]
  BY <1>2 DEF HarpInv, HarpTypes
<1> QED
  BY <1>1, <1>2, <1>3, HarpVolumesAssumption DEF Arrays, Streams

\* Every step of the loop is a step of the audio half, or none of it.
LEMMA LoopCallsAudio == HarpInv /\ [Next]_vars => [AudioNext]_audioVars
<1> SUFFICES ASSUME HarpInv, [Next]_vars PROVE AudioNext \/ UNCHANGED audioVars
  OBVIOUS
<1>1. ASSUME NEW frame \in Frames, GetDmap(frame) PROVE UNCHANGED audioVars
  BY <1>1 DEF GetDmap
<1>2. CASE BinStep
  BY <1>2 DEF BinStep
<1>3. CASE CallPlayNotes
  <2>1. play_notes(stream_indicators) /\ stream_indicators \in Arrays
    BY <1>3, ListIsFrame DEF CallPlayNotes
  <2> QED
    BY <2>1 DEF AudioNext
<1>4. CASE PlayNotesStep \/ PlayNotesReturn \/ HarpDies \/ HarpRestarts
  BY <1>4 DEF PlayNotesStep, PlayNotesReturn, HarpDies, HarpRestarts, AudioNext
<1>5. CASE UNCHANGED vars
  BY <1>5 DEF vars
<1> QED
  BY <1>1, <1>2, <1>3, <1>4, <1>5 DEF Next, Run

\* A scene is told by the same frame as long as neither changes.
LEMMA TellsOn ==
    ASSUME dmap' = dmap, NEW array, NEW k, Tells(array, k)
    PROVE  \A i \in 1..k : array[i] > 0 <=> Interrupted(i)'
  BY DEF Tells, Interrupted, HandPixels

LEMMA GetDmapKeeps ==
    ASSUME HarpInv, NEW frame \in Frames, GetDmap(frame)
    PROVE  HarpTypes' /\ Built' /\ Played' /\ Drawn'
<1> USE DEF GetDmap
<1>1. GreenPixels(frame) \subseteq Pixels
  BY FramesAssumption DEF GreenPixels
<1>2. HarpTypes'
  BY <1>1, StreamFacts DEF HarpInv, HarpTypes
<1>3. Built'
  BY DEF Built, Tells
<1>4. Played'
  BY DEF HarpInv, Played, audioVars
<1>5. Drawn'
  BY DEF Drawn
<1> QED
  BY <1>2, <1>3, <1>4, <1>5

\* One volume more, positive exactly for an interrupted stream.
LEMMA BinStepKeeps ==
    ASSUME HarpInv, BinStep
    PROVE  HarpTypes' /\ Built' /\ Played' /\ Drawn'
<1> USE DEF BinStep
<1>1. /\ bin \in Streams /\ Len(stream_indicators) = bin - 1
      /\ stream_indicators \in Seq(HarpVolumes) /\ Tells(stream_indicators, bin - 1)
      /\ bin \in Nat /\ 1 <= bin /\ bin <= NUM_STREAMS
  BY StreamFacts DEF HarpInv, HarpTypes, Built
<1>2. PICK v \in HarpVolumes : /\ stream_indicators' = Append(stream_indicators, v)
                               /\ v > 0 <=> Interrupted(bin)
  <2> USE HandsGetVolumes, <1>1 DEF HarpInv
  <2>1. CASE num_below(bin) > MIN_PIXELS
    <3>1. num_below(bin) > last_num_below
      BY <2>1 DEF last_num_below
    <3>2. PICK v \in volumes(below_threshold(dmap, bin)) :
              stream_indicators' = Append(stream_indicators, v)
      BY <2>1, <3>1
    <3>3. v \in 30..100 /\ Interrupted(bin)
      BY <2>1, <3>2
    <3> QED
      BY <3>2, <3>3 DEF HarpVolumes
  <2>2. CASE num_below(bin) <= MIN_PIXELS
    <3>1. stream_indicators' = Append(stream_indicators, 0) /\ ~Interrupted(bin)
      BY <2>2
    <3> QED
      BY <3>1 DEF HarpVolumes
  <2> QED
    BY <2>1, <2>2
<1>3. /\ stream_indicators' \in Seq(HarpVolumes) /\ Len(stream_indicators') = bin
      /\ stream_indicators'[bin] = v
      /\ \A i \in 1..(bin - 1) : stream_indicators'[i] = stream_indicators[i]
  <2>1. stream_indicators' = Append(stream_indicators, v)
    BY <1>2
  <2> QED
    BY <1>1, <2>1
<1>4. HarpTypes'
  BY <1>1, <1>3, StreamFacts DEF HarpInv, HarpTypes
<1>5. Built'
  <2> SUFFICES ASSUME NEW i \in 1..bin
               PROVE  stream_indicators'[i] > 0 <=> Interrupted(i)'
    BY <1>1, <1>3 DEF Built, Tells
  <2>1. Interrupted(i)' <=> Interrupted(i)
    BY DEF Interrupted, HandPixels
  <2>2. CASE i = bin
    BY <1>2, <1>3, <2>1, <2>2
  <2>3. CASE i # bin
    <3>1. i \in 1..(bin - 1)
      BY <1>1, <2>3
    <3> QED
      BY <1>1, <1>3, <2>1, <3>1 DEF Tells
  <2> QED
    BY <2>2, <2>3
<1>6. Played'
  BY DEF HarpInv, Played, audioVars
<1>7. Drawn'
  BY DEF HarpInv, Drawn
<1> QED
  BY <1>4, <1>5, <1>6, <1>7

LEMMA CallKeeps ==
    ASSUME HarpInv, CallPlayNotes
    PROVE  HarpTypes' /\ Built' /\ Played' /\ Drawn'
<1> USE DEF CallPlayNotes
<1>1. \A i \in 1..NUM_STREAMS : stream_indicators[i] > 0 <=> Interrupted(i)'
  BY ListIsFrame, TellsOn
<1>2. HarpTypes' /\ Built' /\ Drawn'
  BY DEF HarpInv, HarpTypes, Built, Drawn
<1>3. Played'
  <2>1. CASE all_notes_off(stream_indicators)
    BY <1>1, <2>1 DEF all_notes_off, Played, Tells
  <2>2. CASE start_notes(stream_indicators)
    BY <1>1, <2>2 DEF start_notes, Played, Tells
  <2> QED
    BY <2>1, <2>2 DEF play_notes
<1> QED
  BY <1>2, <1>3

LEMMA NotesKeep ==
    ASSUME HarpInv, PlayNotesStep \/ PlayNotesReturn \/ HarpDies \/ UNCHANGED vars
    PROVE  HarpTypes' /\ Built' /\ Played' /\ Drawn'
<1>1. CASE PlayNotesStep
  BY <1>1 DEF PlayNotesStep, NoteStep, harpVars, HarpInv, HarpTypes, Built, Played, Drawn,
              Tells, Interrupted, HandPixels
<1>2. CASE PlayNotesReturn
  <2>1. harpPc = "play_notes" /\ Tells(kinect_array, NUM_STREAMS)
    BY <1>2 DEF PlayNotesReturn, FinishNotes, HarpInv, HarpTypes, Played
  <2>2. \A i \in 1..NUM_STREAMS : kinect_array[i] > 0 <=> Interrupted(i)'
    BY <1>2, <2>1, TellsOn DEF PlayNotesReturn
  <2>3. Played'
    BY <1>2, <2>2 DEF PlayNotesReturn, FinishNotes, Played, Tells
  <2> QED
    BY <1>2, <2>3 DEF PlayNotesReturn, HarpInv, HarpTypes, Built, Drawn
<1>3. CASE HarpDies
  BY <1>3 DEF HarpDies, Die, harpVars, HarpInv, HarpTypes, Built, Played, Drawn,
              Tells, Interrupted, HandPixels
<1>4. CASE UNCHANGED vars
  BY <1>4 DEF vars, harpVars, audioVars, HarpInv, HarpTypes, Built, Played, Drawn,
              Tells, Interrupted, HandPixels
<1> QED
  BY <1>1, <1>2, <1>3, <1>4

LEMMA RestartKeeps ==
    ASSUME HarpInv, HarpRestarts
    PROVE  HarpTypes' /\ Built' /\ Played' /\ Drawn'
<1> USE DEF HarpRestarts
<1>1. dmap' = NoPicture
  BY DEF NoPicture
<1>2. Uniform(dmap)' /\ \A i \in Streams : ~Interrupted(i)'
  BY <1>1, NoPictureIsEmpty DEF Interrupted, HandPixels
<1>3. HarpTypes' /\ Built'
  BY StreamFacts DEF HarpTypes, Built
<1>4. Played'
  BY <1>2 DEF Restart, Played, Tells, Zeros, Streams
<1>5. Drawn'
  BY <1>2 DEF Drawn
<1> QED
  BY <1>3, <1>4, <1>5

LEMMA HarpStep == HarpInv /\ [Next]_vars => HarpInv'
<1> SUFFICES ASSUME HarpInv, [Next]_vars PROVE HarpInv'
  OBVIOUS
<1>1. AudioInv' /\ DmapInv'
  BY LoopCallsAudio, NextAudioInv, DmapStep DEF HarpInv
<1>2. HarpTypes' /\ Built' /\ Played' /\ Drawn'
  BY GetDmapKeeps, BinStepKeeps, CallKeeps, NotesKeep, RestartKeeps DEF Next, Run
<1> QED
  BY <1>1, <1>2 DEF HarpInv

LEMMA HarpInvariant == Spec => []HarpInv
  BY HarpInitial, HarpStep, PTL DEF Spec

\* Every variable of the loop keeps its type; so play_notes gets no volume but
\* 0 and 0.30..1, and no more than one for each stream.
THEOREM HarpTypeOK == Spec => []TypeOK
<1>1. HarpInv => TypeOK
  BY DEF HarpInv, AudioInv, DmapInv, HarpTypes, TypeOK
<1> QED
  BY <1>1, HarpInvariant, PTL

\* The audio half, called by the loop, does what its own specification says;
\* whatever is proved of that holds of the whole harp.
THEOREM HarpImplementsAudio == Spec => AudioSpec
<1>1. Init => AudioInit
  BY DEF Init
<1> QED
  BY <1>1, LoopCallsAudio, HarpInvariant, PTL DEF Spec, AudioSpec

\* Whatever the camera sees, the harp keeps the promise to its player: voices
\* start and stop one at a time, and only towards the frame being played.
THEOREM HarpImplementsGate == Spec => ImplementsGate
  BY HarpImplementsAudio, AudioImplementsGate

\* A hand that stays in its stream does not strike its note again, in the harp.
THEOREM HarpLeavesHeldNotesAlone == Spec => HeldNoteNotRestruck
  BY HarpImplementsAudio, HeldNotesAreLeftAlone

\* When a frame has been played, the notes of the streams it shows interrupted
\* are sounding, and no others of this process.
LEMMA SettledIsHeard == HarpInv => SceneIsHeard
<1> SUFFICES ASSUME HarpInv, Settled, NEW i \in Streams
             PROVE  Note(i) \in Owned <=> Interrupted(i)
  BY DEF SceneIsHeard
<1>1. last_kinect_array[i] > 0 <=> Interrupted(i)
  BY DEF HarpInv, Played, Settled, Tells, Streams
<1>2. Note(i) \in Owned <=> last_kinect_array[i] > 0
  BY DEF HarpInv, Settled, AudioInv, Answers, Heard
<1> QED
  BY <1>1, <1>2

THEOREM ScenesAreHeard == Spec => []SceneIsHeard
  BY SettledIsHeard, HarpInvariant, PTL

\* What is painted green over a stream is part of the hand it shows.
LEMMA GreenIsHand == HarpInv => GreenIsHeard
<1> SUFFICES ASSUME HarpInv, Settled, ~Uniform(dmap), NEW i \in Streams,
                    Cardinality(dtex \cap Window(i)) > MIN_PIXELS
             PROVE  Note(i) \in Owned
  BY DEF GreenIsHeard
<1>1. dtex \cap Window(i) \in SUBSET HandPixels(i)
  <2> SUFFICES ASSUME NEW p \in Window(i), p \in dtex PROVE p \in HandPixels(i)
    OBVIOUS
  <2>1. 2 * dmap[p] > THRESHOLD /\ dmap[p] < THRESHOLD
    BY DEF HarpInv, Drawn, GreenPixels
  <2>2. dmap[p] \in Nat /\ THRESHOLD \in Nat
    BY WindowInPicture, DepthsAreNumbers, ThresholdAssumption DEF HarpInv, DmapInv
  <2> QED
    BY <2>1, <2>2 DEF HandPixels
<1>2. IsFiniteSet(HandPixels(i)) /\ Cardinality(HandPixels(i)) \in Nat
  BY CountedHand DEF HarpInv
<1>3. /\ Cardinality(dtex \cap Window(i)) \in Nat
      /\ Cardinality(dtex \cap Window(i)) <= Cardinality(HandPixels(i))
  BY <1>1, <1>2, FS_Subset, FS_CardinalityType
<1>4. Interrupted(i)
  BY <1>2, <1>3, ThresholdAssumption DEF Interrupted
<1> QED
  BY <1>4, SettledIsHeard DEF SceneIsHeard

\* A stream that the screen shows interrupted sounds.
THEOREM GreenHandsAreHeard == Spec => []GreenIsHeard
  BY GreenIsHand, HarpInvariant, PTL

\* A hand that is raised by a row is never quieter, whatever the picture.
THEOREM RaisedHandsAreLouder == Spec => []HigherHandIsLouder
<1>1. HigherHandIsLouder
  <2> SUFFICES ASSUME NEW i \in Streams, below_threshold(dmap, i) # {},
                      Raised(below_threshold(dmap, i)) \subseteq Window(i),
                      NEW v \in volumes(below_threshold(dmap, i)),
                      NEW w \in volumes(Raised(below_threshold(dmap, i)))
               PROVE  v <= w
    BY DEF HigherHandIsLouder, Raised
  <2>1. below_threshold(dmap, i) \in SUBSET Window(i)
    BY DEF below_threshold
  <2> QED
    BY <2>1, RaisedIsLouder
<1> QED
  BY <1>1, PTL
=============================================================================
