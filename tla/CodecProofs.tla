----------------------------- MODULE CodecProofs -----------------------------
(***************************************************************************)
(* Proofs about the algorithms of the codec: what the values of pixels are *)
(* after colour conversion, sampling and one-pass quantization, for all    *)
(* pixels, rows, requests and passes; and the Huffman tables, for all      *)
(* counts of symbols and all tables that are not refused.                  *)
(***************************************************************************)
EXTENDS OnePassQuantizer, HuffTables, NumberProofs, SequenceTheorems

(***************************************************************************)
(* Colours                                                                 *)
(***************************************************************************)

\* A pixel of RGB is one of YCbCr in range: jccolor.c has no limit to check, as the
\* coefficients add up to one or to zero, and CBCR_OFFSET rounds down a little.
THEOREM ConvertedInRange ==
  ASSUME NEW r \in JSAMPLE, NEW g \in JSAMPLE, NEW b \in JSAMPLE
  PROVE  Y_of(r, g, b) \in JSAMPLE /\ Cb_of(r, g, b) \in JSAMPLE /\ Cr_of(r, g, b) \in JSAMPLE
<1>1. Y_of(r, g, b) \in JSAMPLE
  BY DEF Y_of, Descaled, SCALE, ONE_HALF, JSAMPLE, MAXJSAMPLE
<1>2. Cb_of(r, g, b) \in JSAMPLE
  BY DEF Cb_of, Descaled, SCALE, ONE_HALF, CBCR_OFFSET, CENTERJSAMPLE, JSAMPLE, MAXJSAMPLE
<1>3. Cr_of(r, g, b) \in JSAMPLE
  BY DEF Cr_of, Descaled, SCALE, ONE_HALF, CBCR_OFFSET, CENTERJSAMPLE, JSAMPLE, MAXJSAMPLE
<1>. QED
  BY <1>1, <1>2, <1>3

\* What chroma adds to luminance, and so what is looked up in sample_range_limit,
\* is within 256 of the range of samples (jdmaster.c:217, "we can mathematically
\* guarantee"), also for CMYK, where the sum is subtracted from 255.
THEOREM ChromaInTable ==
  ASSUME NEW y \in JSAMPLE, NEW cb \in JSAMPLE, NEW cr \in JSAMPLE, NEW c \in 1 .. 3
  PROVE  /\ Chroma(cb, cr)[c] \in Int
         /\ y + Chroma(cb, cr)[c] \in (-(MAXJSAMPLE + 1)) .. (2 * MAXJSAMPLE) + 1
         /\ MAXJSAMPLE - (y + Chroma(cb, cr)[c]) \in (-(MAXJSAMPLE + 1)) .. (2 * MAXJSAMPLE) + 1
<1>1. Cr_r_tab(cr) \in -200 .. 200
  BY DEF Cr_r_tab, Descaled, SCALE, ONE_HALF, CENTERJSAMPLE, JSAMPLE, MAXJSAMPLE
<1>2. Cb_b_tab(cb) \in -240 .. 240
  BY DEF Cb_b_tab, Descaled, SCALE, ONE_HALF, CENTERJSAMPLE, JSAMPLE, MAXJSAMPLE
<1>3. Descaled(Cb_g_tab(cb) + Cr_g_tab(cr)) \in -200 .. 200
  BY DEF Cb_g_tab, Cr_g_tab, Descaled, SCALE, ONE_HALF, CENTERJSAMPLE, JSAMPLE, MAXJSAMPLE
<1>4. Chroma(cb, cr)[c] \in -240 .. 240
  BY <1>1, <1>2, <1>3 DEF Chroma
<1> DEFINE d == Chroma(cb, cr)[c]
<1> HIDE DEF d
<1>5. d \in -240 .. 240
  BY <1>4 DEF d
<1>6. /\ d \in Int
      /\ y + d \in (-(MAXJSAMPLE + 1)) .. (2 * MAXJSAMPLE) + 1
      /\ MAXJSAMPLE - (y + d) \in (-(MAXJSAMPLE + 1)) .. (2 * MAXJSAMPLE) + 1
  BY <1>5 DEF JSAMPLE, MAXJSAMPLE
<1>. QED
  BY <1>6 DEF d

\* In that part, the table gives the sample that is nearest.
LEMMA RangeLimit ==
  ASSUME NEW x \in (-(MAXJSAMPLE + 1)) .. (2 * MAXJSAMPLE) + 1
  PROVE  sample_range_limit[x] = Limit(x) /\ Limit(x) \in JSAMPLE
<1>1. x \in (-(MAXJSAMPLE + 1)) .. (4 * (MAXJSAMPLE + 1)) + CENTERJSAMPLE - 1
  BY DEF MAXJSAMPLE, CENTERJSAMPLE
<1> DEFINE y == sample_range_limit[x]
<1>2. /\ x < 0 => y = 0
      /\ x >= 0 /\ x <= MAXJSAMPLE => y = x
      /\ x > MAXJSAMPLE => y = MAXJSAMPLE
  <2>1. y = CASE x < 0 -> 0
              [] x \in JSAMPLE -> x
              [] x > MAXJSAMPLE /\ x < CENTERJSAMPLE + (2 * (MAXJSAMPLE + 1)) -> MAXJSAMPLE
              [] x >= CENTERJSAMPLE + (2 * (MAXJSAMPLE + 1)) /\ x < 4 * (MAXJSAMPLE + 1) -> 0
              [] x >= 4 * (MAXJSAMPLE + 1) -> x - (4 * (MAXJSAMPLE + 1))
    BY ONLY <1>1 DEF sample_range_limit
  <2>2. x \in -256 .. 511 /\ JSAMPLE = 0 .. 255 /\ MAXJSAMPLE = 255 /\ CENTERJSAMPLE = 128
    BY DEF JSAMPLE, MAXJSAMPLE, CENTERJSAMPLE
  <2> HIDE DEF y
  <2>3. CASE x < 0
    BY ONLY <2>1, <2>2, <2>3
  <2>4. CASE x >= 0 /\ x <= 255
    BY ONLY <2>1, <2>2, <2>4
  <2>5. CASE x > 255
    BY ONLY <2>1, <2>2, <2>5
  <2>. QED
    BY <2>2, <2>3, <2>4, <2>5
<1> HIDE DEF y
<1>. QED
  BY <1>2 DEF y, Limit, JSAMPLE, MAXJSAMPLE

\* Gray stays what it is, there and back.
THEOREM GrayStaysGray ==
  ASSUME NEW g \in JSAMPLE
  PROVE  /\ rgb_ycc_convert(<<g, g, g>>) = <<g, CENTERJSAMPLE, CENTERJSAMPLE>>
         /\ ycc_rgb_convert(<<g, CENTERJSAMPLE, CENTERJSAMPLE>>) = [c \in 1 .. 3 |-> g]
<1>1. Y_of(g, g, g) = g
  BY DEF Y_of, Descaled, SCALE, ONE_HALF, JSAMPLE, MAXJSAMPLE
<1>2. Cb_of(g, g, g) = CENTERJSAMPLE /\ Cr_of(g, g, g) = CENTERJSAMPLE
  BY DEF Cb_of, Cr_of, Descaled, SCALE, ONE_HALF, CBCR_OFFSET, CENTERJSAMPLE, JSAMPLE, MAXJSAMPLE
<1>3. Chroma(CENTERJSAMPLE, CENTERJSAMPLE) = <<0, 0, 0>>
  BY DEF Chroma, Cr_r_tab, Cb_b_tab, Cr_g_tab, Cb_g_tab, Descaled, SCALE, ONE_HALF, CENTERJSAMPLE
<1>4. \A c \in 1 .. 3 : sample_range_limit[g + Chroma(CENTERJSAMPLE, CENTERJSAMPLE)[c]] = g
  <2>1. g \in (-(MAXJSAMPLE + 1)) .. (2 * MAXJSAMPLE) + 1 /\ Limit(g) = g /\ g + 0 = g
    BY DEF JSAMPLE, MAXJSAMPLE, Limit
  <2>. QED
    BY <1>3, <2>1, RangeLimit
<1>. QED
  BY <1>1, <1>2, <1>4 DEF rgb_ycc_convert, ycc_rgb_convert

\* A colour comes back within one of what it was, in red, green and blue.
THEOREM ColoursComeBack ==
  ASSUME NEW r \in JSAMPLE, NEW g \in JSAMPLE, NEW b \in JSAMPLE, NEW c \in 1 .. 3
  PROVE  Within(ycc_rgb_convert(rgb_ycc_convert(<<r, g, b>>))[c], <<r, g, b>>[c], 1)
<1> DEFINE y == Y_of(r, g, b)
           cb == Cb_of(r, g, b)
           cr == Cr_of(r, g, b)
<1>1. y \in JSAMPLE /\ cb \in JSAMPLE /\ cr \in JSAMPLE
  BY ConvertedInRange
<1>2. ycc_rgb_convert(rgb_ycc_convert(<<r, g, b>>))[c] = Limit(y + Chroma(cb, cr)[c])
  BY <1>1, ChromaInTable, RangeLimit DEF ycc_rgb_convert, rgb_ycc_convert
<1>3. /\ SCALE * y <= (19595 * r) + (38470 * g) + (7471 * b) + ONE_HALF
      /\ (19595 * r) + (38470 * g) + (7471 * b) + ONE_HALF < (SCALE * y) + SCALE
  BY DEF Y_of, Descaled, SCALE, ONE_HALF, JSAMPLE, MAXJSAMPLE
<1>4. /\ SCALE * cb <= (-11059 * r) - (21709 * g) + (32768 * b) + CBCR_OFFSET + ONE_HALF - 1
      /\ (-11059 * r) - (21709 * g) + (32768 * b) + CBCR_OFFSET + ONE_HALF - 1 < (SCALE * cb) + SCALE
  BY DEF Cb_of, Descaled, SCALE, ONE_HALF, CBCR_OFFSET, CENTERJSAMPLE, JSAMPLE, MAXJSAMPLE
<1>5. /\ SCALE * cr <= (32768 * r) - (27439 * g) - (5329 * b) + CBCR_OFFSET + ONE_HALF - 1
      /\ (32768 * r) - (27439 * g) - (5329 * b) + CBCR_OFFSET + ONE_HALF - 1 < (SCALE * cr) + SCALE
  BY DEF Cr_of, Descaled, SCALE, ONE_HALF, CBCR_OFFSET, CENTERJSAMPLE, JSAMPLE, MAXJSAMPLE
<1> HIDE DEF y, cb, cr
<1>6. Within(y + Cr_r_tab(cr), r, 1)
  BY <1>1, <1>3, <1>5 DEF Cr_r_tab, Within, Descaled, SCALE, ONE_HALF, CBCR_OFFSET, CENTERJSAMPLE, JSAMPLE, MAXJSAMPLE
<1>7. Within(y + Cb_b_tab(cb), b, 1)
  BY <1>1, <1>3, <1>4 DEF Cb_b_tab, Within, Descaled, SCALE, ONE_HALF, CBCR_OFFSET, CENTERJSAMPLE, JSAMPLE, MAXJSAMPLE
<1>8. Within(y + Descaled(Cb_g_tab(cb) + Cr_g_tab(cr)), g, 1)
  BY <1>1, <1>3, <1>4, <1>5
  DEF Cb_g_tab, Cr_g_tab, Within, Descaled, SCALE, ONE_HALF, CBCR_OFFSET, CENTERJSAMPLE, JSAMPLE, MAXJSAMPLE
<1>9. Within(y + Chroma(cb, cr)[c], <<r, g, b>>[c], 1)
  BY <1>6, <1>7, <1>8 DEF Chroma
<1>10. y + Chroma(cb, cr)[c] \in Int
  <2>1. y + Chroma(cb, cr)[c] \in (-(MAXJSAMPLE + 1)) .. (2 * MAXJSAMPLE) + 1
    BY <1>1, ChromaInTable
  <2>. QED
    BY <2>1 DEF MAXJSAMPLE
<1>11. <<r, g, b>>[c] \in JSAMPLE
  <2>1. c = 1 \/ c = 2 \/ c = 3
    OBVIOUS
  <2>. QED
    BY <2>1
<1>. QED
  BY <1>2, <1>9, <1>10, <1>11 DEF Within, Limit, JSAMPLE, MAXJSAMPLE

(***************************************************************************)
(* Rows                                                                    *)
(***************************************************************************)

\* A row of samples is not empty.
Row == {row \in Seq(JSAMPLE) : Len(row) > 0}

LEMMA SamplesOfRow ==
  ASSUME NEW row \in Row
  PROVE  /\ \A x \in 1 .. Len(row) : row[x] \in JSAMPLE
         /\ \A x \in Int : At(row, x) \in JSAMPLE
         /\ DOMAIN row = 1 .. Len(row) /\ Len(row) \in Nat /\ Len(row) > 0
<1>1. row \in Seq(JSAMPLE) /\ Len(row) \in Nat /\ Len(row) > 0 /\ DOMAIN row = 1 .. Len(row)
  BY DEF Row
<1>2. \A x \in 1 .. Len(row) : row[x] \in JSAMPLE
  BY <1>1
<1>3. row[1] \in JSAMPLE /\ row[Len(row)] \in JSAMPLE
  BY <1>1, <1>2
<1>. QED
  BY <1>1, <1>2, <1>3 DEF At

\* Sums of samples.
LEMMA OneSample ==
  ASSUME NEW a \in JSAMPLE
  PROVE  a \in Nat /\ a <= MAXJSAMPLE /\ a <= 1 * MAXJSAMPLE
BY DEF JSAMPLE, MAXJSAMPLE

LEMMA SumOfTwo ==
  ASSUME NEW a \in JSAMPLE, NEW b \in JSAMPLE
  PROVE  /\ a + b \in Nat /\ a + b <= 2 * MAXJSAMPLE
         /\ (3 * a) + b \in Nat /\ (3 * a) + b <= 1020
BY DEF JSAMPLE, MAXJSAMPLE

LEMMA SumOfThree ==
  ASSUME NEW a \in JSAMPLE, NEW b \in JSAMPLE, NEW c \in JSAMPLE
  PROVE  /\ a + b + c \in Nat /\ a + b + c <= 3 * MAXJSAMPLE
         /\ (a + b + c) - b = a + c
BY DEF JSAMPLE, MAXJSAMPLE

LEMMA SumOfFour ==
  ASSUME NEW a \in JSAMPLE, NEW b \in JSAMPLE, NEW c \in JSAMPLE, NEW d \in JSAMPLE
  PROVE  a + b + c + d \in Nat /\ a + b + c + d <= 4 * MAXJSAMPLE
BY DEF JSAMPLE, MAXJSAMPLE

LEMMA SumOfEight ==
  ASSUME NEW a \in JSAMPLE, NEW b \in JSAMPLE, NEW c \in JSAMPLE, NEW d \in JSAMPLE,
         NEW e \in JSAMPLE, NEW f \in JSAMPLE, NEW g \in JSAMPLE, NEW h \in JSAMPLE
  PROVE  a + b + c + d + e + f + g + h \in Nat /\ a + b + c + d + e + f + g + h <= 8 * MAXJSAMPLE
BY DEF JSAMPLE, MAXJSAMPLE

\* A weighted mean: what the neighbours get is what the members lose.  The four members
\* and the twenty neighbours of h2v2 smoothing, the one and the eight of full size, count
\* with m and with k for each of them.
LEMMA MeanOfSamples ==
  ASSUME NEW number \in Nat, NEW m \in Nat, NEW k \in Nat, NEW others \in Nat,
         (number * m) + (others * k) = SCALE,
         NEW members \in Nat, members <= number * MAXJSAMPLE,
         NEW neighbours \in Nat, neighbours <= others * MAXJSAMPLE
  PROVE  Smoothed(members, m, neighbours, k) \in JSAMPLE
<1>1. members \in Nat /\ neighbours \in Nat /\ members <= number * 255 /\ neighbours <= others * 255
  BY DEF MAXJSAMPLE
<1>2. members * m <= (number * 255) * m /\ neighbours * k <= (others * 255) * k
  BY <1>1
<1>3. (number * 255) * m = 255 * (number * m) /\ (others * 255) * k = 255 * (others * k)
  OBVIOUS
<1> DEFINE total == (members * m) + (neighbours * k)
<1>4. total \in Nat /\ total <= 255 * 65536
  <2>1. members * m \in Nat /\ neighbours * k \in Nat /\ number * m \in Nat /\ others * k \in Nat
    BY <1>1
  <2>. QED
    BY <1>2, <1>3, <2>1 DEF SCALE
<1> HIDE DEF total
<1>5. (total + 32768) \div 65536 \in 0 .. 255
  BY <1>4
<1>. QED
  BY <1>5 DEF Smoothed, Descaled, SCALE, ONE_HALF, JSAMPLE, MAXJSAMPLE, total

\* Smoothing leaves no sample out of range, for every smoothing factor there is: the
\* results are stored in a byte with no limit (jcsample.c:315, 405).
THEOREM SmoothingInRange ==
  ASSUME NEW above \in Row, NEW row0 \in Row, NEW row1 \in Row, NEW below \in Row,
         Len(above) = Len(row0), Len(row1) = Len(row0), Len(below) = Len(row0),
         NEW smoothing_factor \in 0 .. 100
  PROVE  /\ \A x \in 1 .. Len(row0) \div 2 :
              h2v2_smooth_downsample(above, row0, row1, below, smoothing_factor)[x] \in JSAMPLE
         /\ \A x \in 1 .. Len(row0) :
              fullsize_smooth_downsample(above, row0, below, smoothing_factor)[x] \in JSAMPLE
<1>1. ASSUME NEW x \in 1 .. Len(row0) \div 2
      PROVE  h2v2_smooth_downsample(above, row0, row1, below, smoothing_factor)[x] \in JSAMPLE
  <2> DEFINE l == (2 * x) - 1
             r == 2 * x
             members == row0[l] + row0[r] + row1[l] + row1[r]
             edges == above[l] + above[r] + below[l] + below[r] + At(row0, l - 1) + At(row0, r + 1) + At(row1, l - 1) + At(row1, r + 1)
             corners == At(above, l - 1) + At(above, r + 1) + At(below, l - 1) + At(below, r + 1)
             m == 16384 - (smoothing_factor * 80)
             k == smoothing_factor * 16
  <2>1. /\ l \in 1 .. Len(row0) /\ r \in 1 .. Len(row0) /\ l - 1 \in Int /\ r + 1 \in Int
    BY SamplesOfRow
  <2>2. h2v2_smooth_downsample(above, row0, row1, below, smoothing_factor)[x] = Smoothed(members, m, (2 * edges) + corners, k)
    BY DEF h2v2_smooth_downsample
  <2> HIDE DEF l, r
  <2>3. members \in Nat /\ members <= 4 * MAXJSAMPLE
    <3>1. row0[l] \in JSAMPLE /\ row0[r] \in JSAMPLE /\ row1[l] \in JSAMPLE /\ row1[r] \in JSAMPLE
      BY <2>1, SamplesOfRow
    <3>. QED
      BY <3>1, SumOfFour
  <2>4. edges \in Nat /\ edges <= 8 * MAXJSAMPLE
    <3>1. /\ above[l] \in JSAMPLE /\ above[r] \in JSAMPLE /\ below[l] \in JSAMPLE /\ below[r] \in JSAMPLE
      BY <2>1, SamplesOfRow
    <3>2. /\ At(row0, l - 1) \in JSAMPLE /\ At(row0, r + 1) \in JSAMPLE
          /\ At(row1, l - 1) \in JSAMPLE /\ At(row1, r + 1) \in JSAMPLE
      BY <2>1, SamplesOfRow
    <3> DEFINE a == above[l]
               b == above[r]
               c == below[l]
               d == below[r]
               e == At(row0, l - 1)
               f == At(row0, r + 1)
               g == At(row1, l - 1)
               h == At(row1, r + 1)
    <3>3. /\ a \in JSAMPLE /\ b \in JSAMPLE /\ c \in JSAMPLE /\ d \in JSAMPLE
          /\ e \in JSAMPLE /\ f \in JSAMPLE /\ g \in JSAMPLE /\ h \in JSAMPLE
      BY <3>1, <3>2
    <3> HIDE DEF a, b, c, d, e, f, g, h
    <3>4. a + b + c + d + e + f + g + h \in Nat /\ a + b + c + d + e + f + g + h <= 8 * MAXJSAMPLE
      BY ONLY <3>3 DEF JSAMPLE, MAXJSAMPLE
    <3>. QED
      BY <3>4 DEF a, b, c, d, e, f, g, h
  <2>5. corners \in Nat /\ corners <= 4 * MAXJSAMPLE
    <3>1. /\ At(above, l - 1) \in JSAMPLE /\ At(above, r + 1) \in JSAMPLE
          /\ At(below, l - 1) \in JSAMPLE /\ At(below, r + 1) \in JSAMPLE
      BY <2>1, SamplesOfRow
    <3>. QED
      BY <3>1, SumOfFour
  <2>6. m \in Nat /\ k \in Nat /\ (4 * m) + (20 * k) = SCALE
    BY DEF SCALE
  <2> HIDE DEF members, edges, corners, m, k
  <2>7. (2 * edges) + corners \in Nat /\ (2 * edges) + corners <= 20 * MAXJSAMPLE
    BY <2>4, <2>5 DEF MAXJSAMPLE
  <2> DEFINE number == 4
             others == 20
             neighbours == (2 * edges) + corners
  <2>8. /\ number \in Nat /\ others \in Nat /\ (number * m) + (others * k) = SCALE
        /\ members <= number * MAXJSAMPLE
        /\ neighbours \in Nat /\ neighbours <= others * MAXJSAMPLE
    BY <2>3, <2>6, <2>7
  <2> HIDE DEF number, others, neighbours
  <2>9. Smoothed(members, m, neighbours, k) \in JSAMPLE
    BY ONLY <2>3, <2>6, <2>8, MeanOfSamples
  <2>. QED
    BY <2>2, <2>9 DEF neighbours
<1>2. ASSUME NEW x \in 1 .. Len(row0)
      PROVE  fullsize_smooth_downsample(above, row0, below, smoothing_factor)[x] \in JSAMPLE
  <2> DEFINE Colsum(c) == At(above, c) + At(row0, c) + At(below, c)
             around == Colsum(x - 1) + (Colsum(x) - row0[x]) + Colsum(x + 1)
             m == 65536 - (smoothing_factor * 512)
             k == smoothing_factor * 64
  <2>1. fullsize_smooth_downsample(above, row0, below, smoothing_factor)[x] = Smoothed(row0[x], m, around, k)
    BY DEF fullsize_smooth_downsample
  <2>2. x \in Int /\ x - 1 \in Int /\ x + 1 \in Int
    BY SamplesOfRow
  <2>3. Colsum(x - 1) \in Nat /\ Colsum(x - 1) <= 3 * MAXJSAMPLE /\ Colsum(x + 1) \in Nat /\ Colsum(x + 1) <= 3 * MAXJSAMPLE
    <3>1. /\ At(above, x - 1) \in JSAMPLE /\ At(row0, x - 1) \in JSAMPLE /\ At(below, x - 1) \in JSAMPLE
          /\ At(above, x + 1) \in JSAMPLE /\ At(row0, x + 1) \in JSAMPLE /\ At(below, x + 1) \in JSAMPLE
      BY <2>2, SamplesOfRow
    <3>. QED
      BY <3>1, SumOfThree
  <2>4. Colsum(x) - row0[x] \in Nat /\ Colsum(x) - row0[x] <= 2 * MAXJSAMPLE /\ row0[x] \in Nat /\ row0[x] <= 1 * MAXJSAMPLE
    <3>1. At(above, x) \in JSAMPLE /\ At(below, x) \in JSAMPLE /\ row0[x] \in JSAMPLE
      BY <2>2, SamplesOfRow
    <3>2. At(row0, x) = row0[x]
      BY SamplesOfRow DEF At
    <3>3. Colsum(x) - row0[x] = At(above, x) + At(below, x)
      BY <3>1, <3>2, SumOfThree
    <3>4. row0[x] \in Nat /\ row0[x] <= 1 * MAXJSAMPLE
      BY <3>1, OneSample
    <3>. QED
      BY <3>1, <3>3, <3>4, SumOfTwo
  <2>5. m \in Nat /\ k \in Nat /\ (1 * m) + (8 * k) = SCALE
    BY DEF SCALE
  <2>6. around \in Nat /\ around <= 8 * MAXJSAMPLE
    <3> HIDE DEF Colsum
    <3>. QED
      BY <2>3, <2>4 DEF MAXJSAMPLE
  <2> HIDE DEF around, m, k
  <2>. QED
    BY <2>1, <2>4, <2>5, <2>6, MeanOfSamples
<1>. QED
  BY <1>1, <1>2

\* Interpolation stays between the two samples it is between, so that it never rings at
\* an edge; in both directions, it stays a sample (jdsample.c:377, 428: no limit either).
THEOREM InterpolationInside ==
  ASSUME NEW near \in Row, NEW next \in Row, Len(next) = Len(near), NEW x \in 1 .. 2 * Len(near)
  PROVE  /\ h2v1_fancy_upsample(near)[x] \in JSAMPLE
         /\ \E other \in {At(near, Nearer(x)), At(near, Further(x))} :
              \/ At(near, Nearer(x)) <= h2v1_fancy_upsample(near)[x] /\ h2v1_fancy_upsample(near)[x] <= other
              \/ other <= h2v1_fancy_upsample(near)[x] /\ h2v1_fancy_upsample(near)[x] <= At(near, Nearer(x))
         /\ h2v2_fancy_upsample(near, next)[x] \in JSAMPLE
<1> DEFINE a == At(near, Nearer(x))
           b == At(near, Further(x))
           y == h2v1_fancy_upsample(near)[x]
<1>1. /\ x \in Nat /\ Nearer(x) \in 1 .. Len(near) /\ Further(x) \in Int
      /\ Nearer(x) \in DOMAIN near /\ near[Nearer(x)] = a
  BY SamplesOfRow DEF Nearer, Further, At
<1>2. a \in JSAMPLE /\ b \in JSAMPLE
  BY <1>1, SamplesOfRow
<1>3. y = a \/ y = ((3 * a) + b + 1) \div 4 \/ y = ((3 * a) + b + 2) \div 4
  <2>1. Further(x) \in DOMAIN near => near[Further(x)] = b
    BY DEF At
  <2>. QED
    BY <1>1, <2>1 DEF h2v1_fancy_upsample
<1> HIDE DEF a, b, y
<1>4. y \in Nat /\ y <= MAXJSAMPLE /\ ((a <= y /\ y <= b) \/ (b <= y /\ y <= a) \/ y = a)
  <2>1. a \in 0 .. 255 /\ b \in 0 .. 255 /\ MAXJSAMPLE = 255
    BY <1>2 DEF JSAMPLE, MAXJSAMPLE
  <2>2. CASE y = a
    BY ONLY <2>1, <2>2
  <2>3. CASE y = ((3 * a) + b + 1) \div 4
    BY ONLY <2>1, <2>3
  <2>4. CASE y = ((3 * a) + b + 2) \div 4
    BY ONLY <2>1, <2>4
  <2>. QED
    BY <1>3, <2>2, <2>3, <2>4
<1>5. \E other \in {a, b} : (a <= y /\ y <= other) \/ (other <= y /\ y <= a)
  <2>1. y = a => a <= y /\ y <= a
    BY <1>2 DEF JSAMPLE, MAXJSAMPLE
  <2>. QED
    BY <1>4, <2>1
<1>6. h2v2_fancy_upsample(near, next)[x] \in JSAMPLE
  <2> DEFINE colsum == [c \in 1 .. Len(near) |-> (3 * near[c]) + next[c]]
             n == colsum[Nearer(x)]
             f == At(colsum, Further(x))
  <2>1. \A c \in 1 .. Len(near) : colsum[c] \in Nat /\ colsum[c] <= 1020
    <3> SUFFICES ASSUME NEW c \in 1 .. Len(near) PROVE (3 * near[c]) + next[c] \in Nat /\ (3 * near[c]) + next[c] <= 1020
      OBVIOUS
    <3>1. near[c] \in JSAMPLE /\ next[c] \in JSAMPLE
      BY SamplesOfRow
    <3>. QED
      BY <3>1, SumOfTwo
  <2>2. colsum \in Seq(Nat) /\ Len(colsum) = Len(near)
    BY <2>1, SamplesOfRow
  <2>3. h2v2_fancy_upsample(near, next)[x] = ((3 * n) + f + (IF x % 2 = 1 THEN 8 ELSE 7)) \div 16
    BY DEF h2v2_fancy_upsample
  <2> HIDE DEF colsum
  <2>4. n \in Nat /\ n <= 1020 /\ f \in Nat /\ f <= 1020
    BY <1>1, <2>1, <2>2, SamplesOfRow DEF At
  <2> HIDE DEF n, f
  <2>. QED
    BY <1>1, <2>3, <2>4 DEF JSAMPLE, MAXJSAMPLE
<1>7. y \in JSAMPLE
  BY <1>4 DEF JSAMPLE, MAXJSAMPLE
<1>. QED
  BY <1>5, <1>6, <1>7 DEF a, b, y

(***************************************************************************)
(* Division                                                                *)
(***************************************************************************)

\* A quotient is at least what its product with the divisor does not exceed.
LEMMA QuotientAtLeast ==
  ASSUME NEW a \in Int, NEW b \in Nat, b > 0, NEW x \in Int
  PROVE  x <= a \div b <=> x * b <= a
<1> DEFINE q == a \div b
<1>1. q \in Int /\ q * b <= a /\ a < (q * b) + b
  OBVIOUS
<1> HIDE DEF q
<1>2. CASE x <= q
  <2>1. x * b <= q * b
    BY <1>1, <1>2
  <2>. QED
    BY <1>1, <1>2, <2>1 DEF q
<1>3. CASE x > q
  <2>1. (q + 1) * b <= x * b /\ (q + 1) * b = (q * b) + b
    BY <1>1, <1>3
  <2>. QED
    BY <1>1, <1>3, <2>1 DEF q
<1>. QED
  BY <1>1, <1>2, <1>3

\* What is put together from a quotient and a remainder comes apart again.
LEMMA Apart ==
  \A a \in Nat, b \in Nat, r \in Nat, x \in Nat :
    r < b /\ x = (a * b) + r => x \div b = a /\ x % b = r
OBVIOUS

\* Products of three, and of a sum.
LEMMA Regrouped ==
  ASSUME NEW a \in Nat, NEW b \in Nat, NEW c \in Nat
  PROVE  a * (b * c) = (a * b) * c /\ (a + b) * c = (a * c) + (b * c) /\ a * b \in Nat
OBVIOUS

\* A digit and what lies below it are less than the next block.
LEMMA DigitBelow ==
  ASSUME NEW d \in Nat, NEW f \in Nat, d < f, NEW b \in Nat, NEW r \in Nat, r < b
  PROVE  (d * b) + r \in Nat /\ (d * b) + r < f * b
<1>1. (d + 1) * b <= f * b /\ (d + 1) * b = (d * b) + b /\ d * b \in Nat /\ f * b \in Nat
  OBVIOUS
<1>. QED
  BY <1>1

(***************************************************************************)
(* The value for a sample                                                  *)
(***************************************************************************)

\* How far a sample may be from the value that stands for it, where there are
\* maxj + 1 values: half of the step between two of them, and rounding.
Half(maxj) == (MAXJSAMPLE \div (2 * maxj)) + 1

LEMMA HalfRange ==
  ASSUME NEW maxj \in Nat, maxj > 0
  PROVE  Half(maxj) \in 1 .. 128
<1> DEFINE q == 255 \div (2 * maxj)
<1>1. q \in Int /\ (q <= q <=> q * (2 * maxj) <= 255) /\ (0 <= q <=> 0 * (2 * maxj) <= 255)
  BY QuotientAtLeast
<1> HIDE DEF q
<1>2. q >= 0 /\ q * (2 * maxj) <= 255
  BY <1>1
<1>3. ~(q >= 128)
  <2> SUFFICES ASSUME q >= 128 PROVE FALSE
    OBVIOUS
  <2> DEFINE b == 2 * maxj
  <2>1. b \in Nat /\ b >= 2 /\ q * b <= 255
    BY <1>2
  <2> HIDE DEF b
  <2>2. 128 * b <= q * b
    BY <1>1, <2>1
  <2>. QED
    BY <1>1, <2>1, <2>2
<1>. QED
  BY <1>1, <1>2, <1>3 DEF Half, MAXJSAMPLE, q

\* A difference is within Half if twice its product with maxj is.
LEMMA WithinHalf ==
  ASSUME NEW maxj \in Nat, maxj > 0, NEW x \in Int, NEW y \in Int,
         (2 * (maxj * x)) - (2 * (maxj * y)) <= 255 + (2 * maxj)
  PROVE  x - y <= Half(maxj)
<1> DEFINE d == (x - y) - 1
<1>1. d \in Int /\ d * (2 * maxj) = (2 * (maxj * x)) - (2 * (maxj * y)) - (2 * maxj)
  OBVIOUS
<1>2. d * (2 * maxj) <= 255
  BY <1>1
<1> HIDE DEF d
<1>3. d <= 255 \div (2 * maxj)
  BY <1>1, <1>2, QuotientAtLeast
<1>. QED
  BY <1>3 DEF Half, MAXJSAMPLE, d

\* The loop that fills colorindex finds a value for every input, and the value
\* comes out near to it: colour maps have no gap that is wider than the others.
THEOREM ValueIsNear ==
  ASSUME NEW input \in JSAMPLE, NEW maxj \in Nat, maxj > 0
  PROVE  /\ ValueOf(input, maxj) \in 0 .. maxj
         /\ output_value(ValueOf(input, maxj), maxj) \in Int
         /\ Within(output_value(ValueOf(input, maxj), maxj), input, Half(maxj))
<1> DEFINE P == maxj * input
           Reaches(j) == 2 * P <= (510 * j) + 255 + maxj
           Is(j) == input <= largest_input_value(j, maxj) /\ (j = 0 \/ input > largest_input_value(j - 1, maxj))
           v == ValueOf(input, maxj)
           o == output_value(v, maxj)
<1>1. P \in Nat /\ P <= 255 * maxj /\ input \in Nat
  BY DEF JSAMPLE, MAXJSAMPLE
<1>2. \A j \in Int : input <= largest_input_value(j, maxj) <=> Reaches(j)
  <2> SUFFICES ASSUME NEW j \in Int
               PROVE  input <= largest_input_value(j, maxj) <=> Reaches(j)
    OBVIOUS
  <2>1. (((2 * j) + 1) * 255) + maxj \in Int /\ input * (2 * maxj) = 2 * P
    BY <1>1
  <2>2. input <= largest_input_value(j, maxj) <=> input * (2 * maxj) <= (((2 * j) + 1) * 255) + maxj
    BY <1>1, <2>1, QuotientAtLeast DEF largest_input_value, MAXJSAMPLE
  <2>. QED
    BY <2>1, <2>2
<1> HIDE DEF P
<1>3. largest_input_value(0, maxj) \in Int /\ \A j \in Int : largest_input_value(j, maxj) \in Int
  BY DEF largest_input_value, MAXJSAMPLE
<1>4. \E j \in 0 .. maxj : Is(j)
  <2> DEFINE k == ((2 * P) - maxj + 254) \div 510
  <2>1. CASE Reaches(0)
    BY <1>2, <2>1
  <2>2. CASE ~Reaches(0)
    <3>1. k \in Int /\ 510 * k <= (2 * P) - maxj + 254 /\ (2 * P) - maxj + 254 < (510 * k) + 510
      BY <1>1
    <3> HIDE DEF k
    <3>2. k \in 1 .. maxj /\ Reaches(k) /\ ~Reaches(k - 1)
      BY <1>1, <2>2, <3>1
    <3>3. Is(k)
      BY <1>1, <1>2, <1>3, <3>2
    <3>. QED
      BY <3>2, <3>3
  <2>. QED
    BY <2>1, <2>2
<1>5. v \in 0 .. maxj /\ Is(v)
  BY <1>4 DEF ValueOf
<1> HIDE DEF v
<1>6. Reaches(v) /\ (v = 0 \/ ~Reaches(v - 1))
  BY <1>1, <1>2, <1>3, <1>5
<1>7. /\ o \in Int
      /\ o * maxj <= (v * 255) + (maxj \div 2)
      /\ (v * 255) + (maxj \div 2) < (o * maxj) + maxj
  BY <1>5 DEF output_value, MAXJSAMPLE
<1> HIDE DEF o
<1>8. o * maxj = maxj * o /\ maxj * o \in Int
  BY <1>7
<1>9. 2 * (maxj \div 2) <= maxj /\ maxj <= (2 * (maxj \div 2)) + 1
  OBVIOUS
<1>10. input - o <= Half(maxj)
  <2>1. (2 * P) - (2 * (maxj * o)) <= 255 + (2 * maxj)
    BY <1>1, <1>5, <1>6, <1>7, <1>8, <1>9
  <2>2. (2 * (maxj * input)) - (2 * (maxj * o)) <= 255 + (2 * maxj)
    BY <2>1 DEF P
  <2>3. input \in Int /\ o \in Int
    BY <1>1, <1>7
  <2>. QED
    BY <2>2, <2>3, WithinHalf
<1>11. o - input <= Half(maxj)
  <2>1. CASE v = 0
    <3>1. maxj * o < maxj * 1
      BY <1>7, <1>8, <1>9, <2>1
    <3>2. o < 1
      BY <1>7, <3>1
    <3>. QED
      BY <1>1, <1>7, <3>2, HalfRange
  <2>2. CASE v # 0
    <3>1. (2 * (maxj * o)) - (2 * P) <= 255 + (2 * maxj)
      BY <1>1, <1>5, <1>6, <1>7, <1>8, <1>9, <2>2
    <3>2. (2 * (maxj * o)) - (2 * (maxj * input)) <= 255 + (2 * maxj)
      BY <3>1 DEF P
    <3>3. input \in Int /\ o \in Int
      BY <1>1, <1>7
    <3>. QED
      BY <3>2, <3>3, WithinHalf
  <2>. QED
    BY <2>1, <2>2
<1>. QED
  BY <1>5, <1>7, <1>10, <1>11 DEF Within, v, o

\* What an ordered dither adds is no more than half a step either, so that it is
\* less than one step from the lowest to the highest cell.
LEMMA DitherSmall ==
  ASSUME NEW n \in Nat, n >= 2, NEW row \in Nat, NEW column \in Nat
  PROVE  Dither(n, row, column) \in Int /\ Within(Dither(n, row, column), 0, Half(n - 1))
<1> DEFINE m == base_dither_matrix(row, column)
           a == (255 - (2 * m)) * 255
           b == 2 * (n - 1)
<1>1. m \in 0 .. 255
  <2>1. \A weight \in {1, 2, 4, 8} : Bit(row, weight) \in {0, 1} /\ Bit(column, weight) \in {0, 1}
    BY DEF Bit
  <2>2. \A weight \in {1, 2, 4, 8} : Quarter(row, column, weight) \in 0 .. 3
    BY <2>1 DEF Quarter
  <2>. QED
    BY <2>2 DEF base_dither_matrix
<1> HIDE DEF m
<1>2. a \in Int /\ -65025 <= a /\ a <= 65025 /\ b \in Nat /\ b > 0 /\ 2 * 256 * (n - 1) = 256 * b
  BY <1>1
<1>3. ASSUME NEW x \in Nat, x <= 65025
      PROVE  x \div (256 * b) \in Nat /\ x \div (256 * b) <= Half(n - 1)
  <2> DEFINE q == x \div (256 * b)
  <2>1. q \in Int /\ q * (256 * b) <= x /\ q >= 0
    <3>1. 256 * b \in Nat /\ 256 * b > 0 /\ 0 * (256 * b) <= x
      BY <1>2
    <3>2. q \in Int
      BY <1>2, <3>1
    <3>. QED
      BY <3>1, <3>2, QuotientAtLeast
  <2> HIDE DEF q
  <2>2. q * b \in Int /\ q * (256 * b) = 256 * (q * b)
    BY <1>2, <2>1
  <2>3. q * b <= 255
    BY <1>3, <2>1, <2>2
  <2>4. q <= 255 \div b
    BY <1>2, <2>1, <2>3, QuotientAtLeast
  <2>5. Half(n - 1) = (255 \div b) + 1 /\ 255 \div b \in Int
    BY <1>2 DEF Half, MAXJSAMPLE
  <2>. QED
    BY <2>1, <2>4, <2>5 DEF q
<1>4. Dither(n, row, column) = IF a < 0 THEN -((-a) \div (256 * b)) ELSE a \div (256 * b)
  BY <1>2 DEF Dither, ODITHER_CELLS, MAXJSAMPLE, m
<1>5. Half(n - 1) \in 1 .. 128
  BY HalfRange
<1> HIDE DEF a, b
<1>6. CASE a < 0
  <2>1. -a \in Nat /\ -a <= 65025
    BY <1>2, <1>6
  <2>. QED
    BY <1>3, <1>4, <1>5, <1>6, <2>1 DEF Within
<1>7. CASE a >= 0
  <2>1. a \in Nat /\ a <= 65025 /\ ~(a < 0)
    BY <1>2, <1>7
  <2>. QED
    BY <1>3, <1>4, <1>5, <2>1 DEF Within
<1>. QED
  BY <1>2, <1>6, <1>7

(***************************************************************************)
(* Codes as numbers of four digits                                         *)
(***************************************************************************)

\* N has a number of values, two or more, for each of up to four components.
\* The other components of four have one value.
Count(N, c) == IF c \in DOMAIN N THEN N[c] ELSE 1
Beyond(N, c, k) == IF c > k THEN Count(N, c) ELSE 1
\* How many codes there are that differ in the components beyond k only.
Block(N, k) == Beyond(N, 1, k) * (Beyond(N, 2, k) * (Beyond(N, 3, k) * Beyond(N, 4, k)))
Divided(N, n) == n \in 1 .. 4 /\ N \in [1 .. n -> Nat] /\ (\A c \in 1 .. n : N[c] >= 2)

Digits(N) == {d \in [1 .. 4 -> Nat] : \A c \in 1 .. 4 : d[c] < Count(N, c)}
CodeOf(N, d) == (d[1] * Block(N, 1)) + ((d[2] * Block(N, 2)) + ((d[3] * Block(N, 3)) + d[4]))
DigitAt(N, c, code) == (code % Block(N, c - 1)) \div Block(N, c)

LEMMA CountPositive ==
  ASSUME NEW N, NEW n, Divided(N, n), NEW c \in 1 .. 4
  PROVE  Count(N, c) \in Nat /\ Count(N, c) >= 1 /\ (c <= n <=> c \in DOMAIN N)
BY DEF Divided, Count

LEMMA Blocks ==
  ASSUME NEW N, NEW n, Divided(N, n)
  PROVE  /\ \A k \in 0 .. 4 : Block(N, k) \in Nat /\ Block(N, k) >= 1
         /\ Block(N, 4) = 1
         /\ Block(N, 3) = Count(N, 4) * Block(N, 4)
         /\ Block(N, 2) = Count(N, 3) * Block(N, 3)
         /\ Block(N, 1) = Count(N, 2) * Block(N, 2)
         /\ Block(N, 0) = Count(N, 1) * Block(N, 1)
         /\ Block(N, n) = 1
<1> DEFINE f1 == Count(N, 1)
           f2 == Count(N, 2)
           f3 == Count(N, 3)
           f4 == Count(N, 4)
<1>1. f1 \in Nat /\ f2 \in Nat /\ f3 \in Nat /\ f4 \in Nat /\ f1 >= 1 /\ f2 >= 1 /\ f3 >= 1 /\ f4 >= 1
  BY CountPositive
<1>2. /\ Block(N, 0) = f1 * (f2 * (f3 * f4)) /\ Block(N, 1) = 1 * (f2 * (f3 * f4))
      /\ Block(N, 2) = 1 * (1 * (f3 * f4)) /\ Block(N, 3) = 1 * (1 * (1 * f4))
      /\ Block(N, 4) = 1 * (1 * (1 * 1))
  BY DEF Block, Beyond
<1>3. (n < 4 => f4 = 1) /\ (n < 3 => f3 = 1) /\ (n < 2 => f2 = 1) /\ n \in 1 .. 4
  BY DEF Divided, Count
<1> HIDE DEF f1, f2, f3, f4
<1>4. f3 * f4 \in Nat /\ f3 * f4 >= 1
  BY <1>1
<1>5. f2 * (f3 * f4) \in Nat /\ f2 * (f3 * f4) >= 1
  BY <1>1, <1>4
<1>6. f1 * (f2 * (f3 * f4)) \in Nat /\ f1 * (f2 * (f3 * f4)) >= 1
  BY <1>1, <1>5
<1>7. /\ Block(N, 4) = 1 /\ Block(N, 3) = f4 /\ Block(N, 2) = f3 * f4 /\ Block(N, 1) = f2 * (f3 * f4)
      /\ Block(N, 0) = f1 * (f2 * (f3 * f4))
  BY <1>1, <1>2, <1>4, <1>5, <1>6
<1>8. /\ Block(N, 3) = f4 * Block(N, 4) /\ Block(N, 2) = f3 * Block(N, 3)
      /\ Block(N, 1) = f2 * Block(N, 2) /\ Block(N, 0) = f1 * Block(N, 1)
  BY <1>1, <1>7
<1>9. \A k \in 0 .. 4 : Block(N, k) \in Nat /\ Block(N, k) >= 1
  BY <1>1, <1>4, <1>5, <1>6, <1>7
<1>10. Block(N, n) = 1
  <2>1. n = 1 \/ n = 2 \/ n = 3 \/ n = 4
    BY <1>3
  <2>2. (n < 4 => Block(N, 3) = 1) /\ (n < 3 => Block(N, 2) = 1) /\ (n < 2 => Block(N, 1) = 1)
    BY <1>1, <1>3, <1>7
  <2>. QED
    BY <1>7, <2>1, <2>2
<1>. QED
  BY <1>7, <1>8, <1>9, <1>10 DEF f1, f2, f3, f4

\* A code has its digits back, and is one of the codes there are.
LEMMA DigitsOfCode ==
  ASSUME NEW N, NEW n, Divided(N, n), NEW d \in Digits(N)
  PROVE  /\ CodeOf(N, d) \in Nat /\ CodeOf(N, d) < Block(N, 0)
         /\ \A c \in 1 .. 4 : DigitAt(N, c, CodeOf(N, d)) = d[c]
<1> DEFINE b0 == Block(N, 0)
           b1 == Block(N, 1)
           b2 == Block(N, 2)
           b3 == Block(N, 3)
           r3 == (d[3] * b3) + d[4]
           r2 == (d[2] * b2) + r3
           r1 == (d[1] * b1) + r2
           h2 == (d[1] * Count(N, 2)) + d[2]
           h3 == (h2 * Count(N, 3)) + d[3]
<1>1. \A c \in 1 .. 4 : d[c] \in Nat /\ d[c] < Count(N, c) /\ Count(N, c) \in Nat
  BY CountPositive DEF Digits
<1>2. /\ b0 \in Nat /\ b1 \in Nat /\ b2 \in Nat /\ b3 \in Nat /\ Block(N, 4) = 1
      /\ b0 = Count(N, 1) * b1 /\ b1 = Count(N, 2) * b2 /\ b2 = Count(N, 3) * b3 /\ b3 = Count(N, 4)
      /\ b0 >= 1 /\ b1 >= 1 /\ b2 >= 1 /\ b3 >= 1
  BY <1>1, Blocks
<1>3. CodeOf(N, d) = r1
  BY DEF CodeOf
<1> HIDE DEF b0, b1, b2, b3
<1>4. r3 \in Nat /\ r3 < b2 /\ d[4] \in 0 .. b3 - 1
  <2>1. d[4] \in Nat /\ d[4] < b3 /\ d[3] \in Nat /\ d[3] < Count(N, 3) /\ Count(N, 3) \in Nat
    BY <1>1, <1>2
  <2>2. b3 \in Nat /\ b2 = Count(N, 3) * b3
    BY <1>2
  <2>3. (d[3] * b3) + d[4] \in Nat /\ (d[3] * b3) + d[4] < Count(N, 3) * b3
    BY <2>1, <2>2, DigitBelow
  <2>. QED
    BY <2>1, <2>2, <2>3
<1> HIDE DEF r3
<1>5. r2 \in Nat /\ r2 < b1 /\ r3 \in 0 .. b2 - 1
  BY <1>1, <1>2, <1>4, DigitBelow
<1> HIDE DEF r2
<1>6. r1 \in Nat /\ r1 < b0 /\ r2 \in 0 .. b1 - 1
  BY <1>1, <1>2, <1>5, DigitBelow
<1>7. r1 = (h2 * b2) + r3 /\ h2 \in Nat
  <2>1. d[1] * b1 = (d[1] * Count(N, 2)) * b2
    BY <1>1, <1>2, Regrouped
  <2>2. h2 * b2 = ((d[1] * Count(N, 2)) * b2) + (d[2] * b2) /\ h2 \in Nat
    BY <1>1, <1>2, Regrouped
  <2>3. d[1] * b1 \in Nat /\ d[2] * b2 \in Nat
    BY <1>1, <1>2
  <2>. QED
    BY <1>4, <2>1, <2>2, <2>3 DEF r2
<1> HIDE DEF h2
<1>8. r1 = (h3 * b3) + d[4] /\ h3 \in Nat
  <2>1. h2 * b2 = (h2 * Count(N, 3)) * b3
    BY <1>1, <1>2, <1>7, Regrouped
  <2>2. h3 * b3 = ((h2 * Count(N, 3)) * b3) + (d[3] * b3) /\ h3 \in Nat
    BY <1>1, <1>2, <1>7, Regrouped
  <2>3. h2 * b2 \in Nat /\ d[3] * b3 \in Nat
    BY <1>1, <1>2, <1>7
  <2>. QED
    BY <1>1, <1>7, <2>1, <2>2, <2>3 DEF r3
<1>9. r3 \div b3 = d[3]
  <2>1. r3 = (d[3] * b3) + d[4]
    BY DEF r3
  <2>2. d[3] \in Nat /\ b3 \in Nat /\ d[4] \in Nat /\ r3 \in Nat /\ d[4] < b3
    BY <1>1, <1>2, <1>4
  <2>. QED
    BY <2>1, <2>2, Apart
<1>10. r2 \div b2 = d[2]
  <2>1. r2 = (d[2] * b2) + r3
    BY DEF r2
  <2>2. d[2] \in Nat /\ b2 \in Nat /\ r3 \in Nat /\ r2 \in Nat /\ r3 < b2
    BY <1>1, <1>2, <1>4, <1>5
  <2>. QED
    BY <2>1, <2>2, Apart
<1>11. r1 \div b1 = d[1] /\ r1 % b1 = r2
  <2>1. r1 = (d[1] * b1) + r2
    OBVIOUS
  <2>2. d[1] \in Nat /\ b1 \in Nat /\ r2 \in Nat /\ r1 \in Nat /\ r2 < b1
    BY <1>1, <1>2, <1>5, <1>6
  <2>. QED
    BY <2>1, <2>2, Apart
<1> HIDE DEF r1, h3
<1>12. r1 % b2 = r3
  <2>1. r3 \in Nat /\ r1 \in Nat /\ b2 \in Nat /\ r3 < b2
    BY <1>2, <1>4, <1>6
  <2>. QED
    BY <1>7, <2>1, Apart
<1>13. r1 % b3 = d[4]
  <2>1. d[4] \in Nat /\ r1 \in Nat /\ b3 \in Nat /\ d[4] < b3
    BY <1>1, <1>2, <1>6
  <2>. QED
    BY <1>8, <2>1, Apart
<1>14. r1 % b0 = r1
  BY <1>2, <1>6
<1>15. d[4] \div 1 = d[4]
  BY <1>1
<1>16. ASSUME NEW c \in 1 .. 4
       PROVE  DigitAt(N, c, r1) = d[c]
  <2>1. /\ DigitAt(N, 1, r1) = (r1 % b0) \div b1 /\ DigitAt(N, 2, r1) = (r1 % b1) \div b2
        /\ DigitAt(N, 3, r1) = (r1 % b2) \div b3 /\ DigitAt(N, 4, r1) = (r1 % b3) \div 1
    BY <1>2 DEF DigitAt, b0, b1, b2, b3
  <2>2. c = 1 \/ c = 2 \/ c = 3 \/ c = 4
    OBVIOUS
  <2>. QED
    BY <1>9, <1>10, <1>11, <1>12, <1>13, <1>14, <1>15, <2>1, <2>2
<1>. QED
  BY <1>3, <1>6, <1>16 DEF b0

\* A code shows the first m components of a pixel, each as near as k times half a
\* step, and is zero in the others.
Shows(N, code, pixel, m, k) ==
  \E d \in Digits(N) :
    /\ code = CodeOf(N, d)
    /\ \A c \in DOMAIN N : IF c <= m THEN Within(output_value(d[c], N[c] - 1), pixel[c], k * Half(N[c] - 1))
                           ELSE d[c] = 0

LEMMA ShowsNothing ==
  ASSUME NEW N, NEW n, Divided(N, n), NEW pixel, NEW k
  PROVE  Shows(N, 0, pixel, 0, k)
<1> DEFINE d == [c \in 1 .. 4 |-> 0]
<1>1. d \in Digits(N)
  BY CountPositive DEF Digits
<1>2. CodeOf(N, d) = 0
  BY Blocks DEF CodeOf
<1>3. \A c \in DOMAIN N : ~(c <= 0) /\ d[c] = 0
  BY DEF Divided
<1>. QED
  BY <1>1, <1>2, <1>3 DEF Shows

\* A pixel that is shown in all components is near in each.
LEMMA ShownIsNear ==
  ASSUME NEW N, NEW n, Divided(N, n), NEW pixel, NEW k, NEW code, Shows(N, code, pixel, n, k)
  PROVE  /\ code \in 0 .. Block(N, 0) - 1
         /\ \A c \in 1 .. n : Within(output_value(DigitAt(N, c, code), N[c] - 1), pixel[c], k * Half(N[c] - 1))
<1>1. PICK d \in Digits(N) : /\ code = CodeOf(N, d)
                             /\ \A c \in DOMAIN N : IF c <= n THEN Within(output_value(d[c], N[c] - 1), pixel[c], k * Half(N[c] - 1))
                                                    ELSE d[c] = 0
  BY DEF Shows
<1>2. code \in Nat /\ code < Block(N, 0) /\ \A c \in 1 .. 4 : DigitAt(N, c, code) = d[c]
  BY <1>1, DigitsOfCode
<1>3. Block(N, 0) \in Nat
  BY Blocks
<1>4. \A c \in 1 .. n : c \in DOMAIN N /\ c <= n /\ c \in 1 .. 4
  BY DEF Divided
<1>. QED
  BY <1>1, <1>2, <1>3, <1>4

\* One digit alone: the entries of colorindex are premultiplied with the block, and
\* lead back to the digit.
LEMMA EntryOfDigit ==
  ASSUME NEW N, NEW n, Divided(N, n), Block(N, 0) <= 256, NEW c \in 1 .. n, NEW v \in 0 .. N[c] - 1
  PROVE  /\ (v * Block(N, c)) % 256 = v * Block(N, c)
         /\ v * Block(N, c) \in 0 .. Block(N, 0) - 1
         /\ DigitAt(N, c, v * Block(N, c)) = v
<1> DEFINE d == [i \in 1 .. 4 |-> IF i = c THEN v ELSE 0]
<1>1. c \in 1 .. 4 /\ v \in Nat /\ v < Count(N, c)
  BY DEF Divided, Count
<1>2. d \in Digits(N)
  BY <1>1, CountPositive DEF Digits
<1>3. \A k \in 0 .. 4 : Block(N, k) \in Nat
  BY Blocks
<1>4. CodeOf(N, d) = v * Block(N, c)
  <2>1. c = 1 \/ c = 2 \/ c = 3 \/ c = 4
    BY <1>1
  <2>2. v * Block(N, c) \in Nat /\ Block(N, 4) = 1
    BY <1>1, <1>3, Blocks
  <2>. QED
    BY <1>1, <1>3, <2>1, <2>2 DEF CodeOf
<1> DEFINE x == v * Block(N, c)
           b == Block(N, 0)
<1>5. x \in Nat /\ x < b /\ DigitAt(N, c, x) = v /\ b \in Nat /\ b <= 256
  BY <1>1, <1>2, <1>3, <1>4, DigitsOfCode
<1> HIDE DEF x, b
<1>6. x % 256 = x /\ x \in 0 .. b - 1
  BY <1>5
<1>. QED
  BY <1>5, <1>6 DEF x, b

\* The next component is added to a code, and nothing is lost as it is one byte.
LEMMA ShowsMore ==
  ASSUME NEW N, NEW n, Divided(N, n), Block(N, 0) <= 256, NEW pixel, NEW k, NEW code,
         NEW c \in 1 .. n, Shows(N, code, pixel, c - 1, k),
         NEW v \in 0 .. N[c] - 1, Within(output_value(v, N[c] - 1), pixel[c], k * Half(N[c] - 1))
  PROVE  Shows(N, AddTo(code, (v * Block(N, c)) % 256), pixel, c, k) /\ AddTo(code, (v * Block(N, c)) % 256) \in Nat
<1>1. PICK d \in Digits(N) : /\ code = CodeOf(N, d)
                             /\ \A i \in DOMAIN N : IF i <= c - 1 THEN Within(output_value(d[i], N[i] - 1), pixel[i], k * Half(N[i] - 1))
                                                    ELSE d[i] = 0
  BY DEF Shows
<1> DEFINE e == [d EXCEPT ![c] = v]
<1>2. c \in 1 .. 4 /\ c \in DOMAIN N /\ v \in Nat /\ v < Count(N, c) /\ DOMAIN N = 1 .. n /\ n \in Nat
  BY DEF Divided, Count
<1>3. d \in [1 .. 4 -> Nat] /\ d[c] = 0
  BY <1>1, <1>2 DEF Digits
<1>4. e \in Digits(N)
  BY <1>2, <1>3 DEF Digits
<1>5. CodeOf(N, e) = code + (v * Block(N, c))
  <2>1. \A i \in 0 .. 4 : Block(N, i) \in Nat
    BY Blocks
  <2>2. ASSUME NEW i \in 1 .. 4
        PROVE  d[i] * Block(N, i) \in Nat /\ e[i] \in Nat /\ (i # c => e[i] = d[i])
    <3>1. d[i] \in Nat /\ Block(N, i) \in Nat
      BY <1>3, <2>1
    <3>2. d[i] * Block(N, i) \in Nat
      BY ONLY <3>1
    <3>3. e[i] = IF i = c THEN v ELSE d[i]
      BY <1>2, <1>3
    <3>. QED
      BY <3>1, <3>2, <3>3, <1>2
  <2>3. e[c] = v /\ v * Block(N, c) \in Nat /\ d[c] * Block(N, c) = 0 /\ Block(N, 4) = 1 /\ d[4] \in Nat
    <3>1. e[c] = v /\ d[4] \in Nat
      BY <1>2, <1>3
    <3>0. c \in 0 .. 4
      BY ONLY <1>2
    <3>2. Block(N, c) \in Nat /\ v \in Nat /\ d[c] = 0
      BY ONLY <1>2, <1>3, <2>1, <3>0
    <3>3. v * Block(N, c) \in Nat /\ d[c] * Block(N, c) = 0
      BY ONLY <3>2
    <3>4. Block(N, 4) = 1
      BY Blocks
    <3>. QED
      BY <3>1, <3>3, <3>4
  <2>4. c = 1 \/ c = 2 \/ c = 3 \/ c = 4
    BY <1>2
  <2> HIDE DEF e
  <2>5. CASE c = 1
    BY <1>1, <1>3, <2>2, <2>3, <2>5 DEF CodeOf
  <2>6. CASE c = 2
    BY <1>1, <1>3, <2>2, <2>3, <2>6 DEF CodeOf
  <2>7. CASE c = 3
    BY <1>1, <1>3, <2>2, <2>3, <2>7 DEF CodeOf
  <2>8. CASE c = 4
    BY <1>1, <1>3, <2>2, <2>3, <2>8 DEF CodeOf
  <2>. QED
    BY <2>4, <2>5, <2>6, <2>7, <2>8
<1>6. CodeOf(N, e) \in Nat /\ CodeOf(N, e) < 256 /\ (v * Block(N, c)) % 256 = v * Block(N, c)
  BY <1>4, DigitsOfCode, Blocks, EntryOfDigit
<1>7. AddTo(code, (v * Block(N, c)) % 256) = CodeOf(N, e)
  BY <1>5, <1>6 DEF AddTo, MAXJSAMPLE
<1>8. \A i \in DOMAIN N : IF i <= c THEN Within(output_value(e[i], N[i] - 1), pixel[i], k * Half(N[i] - 1))
                          ELSE e[i] = 0
  <2> SUFFICES ASSUME NEW i \in DOMAIN N
               PROVE  IF i <= c THEN Within(output_value(e[i], N[i] - 1), pixel[i], k * Half(N[i] - 1)) ELSE e[i] = 0
    OBVIOUS
  <2>1. CASE i = c
    BY <1>2, <1>3, <2>1
  <2>2. CASE i # c
    <3>1. e[i] = d[i] /\ (i <= c <=> i <= c - 1)
      BY <1>2, <1>3, <2>2 DEF Divided
    <3>. QED
      BY <1>1, <3>1
  <2>. QED
    BY <2>1, <2>2
<1>. QED
  BY <1>4, <1>6, <1>7, <1>8 DEF Shows

(***************************************************************************)
(* The inductive invariant of the quantizer                                *)
(***************************************************************************)

Divides == {"share", "tables", "ready", "pass", "row", "diffuse"}
HasTables == {"ready", "pass", "row", "diffuse"}
Maps == {"pass", "row", "diffuse"}

PowerOf(r, n) == IF n = 1 THEN r ELSE IF n = 2 THEN r * r ELSE IF n = 3 THEN r * r * r ELSE r * r * r * r
ColormapOf(N, n) ==
  [c \in 1 .. n |-> [entry \in 0 .. Block(N, 0) - 1 |-> output_value(DigitAt(N, c, entry), N[c] - 1)]]
Inputs(padded) == IF padded THEN (-255) .. 510 ELSE 0 .. 255
IndexOf(N, n, padded) ==
  [c \in 1 .. n |->
     [input \in Inputs(padded) |-> (ValueOf(Limit(input), N[c] - 1) * Block(N, c)) % 256]]
\* Errors of a row of w pixels, and a row of pixels.
Bounded(errors, N, n, w) ==
  /\ errors \in [1 .. n -> [0 .. w + 1 -> Int]]
  /\ \A c \in 1 .. n : \A x \in 0 .. w + 1 : Within(errors[c][x], 0, 9 * Half(N[c] - 1))
RowOf(n, w) == [1 .. w -> [1 .. n -> JSAMPLE]]
Times(mode) == IF mode = "none" THEN 1 ELSE 2

\* The request is one of those that are accepted.
RequestHeld == stage \notin {"none", "error"} => cinfo \in Requests /\ nc \in 1 .. 4 /\ cinfo.desired <= 256

\* The root that is tried may be too large, the one before it is not.
RootHeld ==
  stage \in {"root", "equal"} =>
    /\ iroot \in Nat /\ iroot >= 2
    /\ stage = "root" => iroot = 2 \/ PowerOf(iroot - 1, nc) <= cinfo.desired
    /\ stage = "equal" => PowerOf(iroot, nc) <= cinfo.desired

\* The total is the product of the counts at any time.
SharesHeld ==
  stage \in Divides =>
    /\ Divided(Ncolors, nc) /\ turn \in Nat /\ turn >= 1
    /\ total_colors = Block(Ncolors, 0) /\ total_colors <= cinfo.desired

\* The tables are those for the counts; which of them there are has changed with
\* the passes.
TablesHeld ==
  /\ stage \in HasTables =>
       /\ sv_colormap = ColormapOf(Ncolors, nc)
       /\ is_padded \in BOOLEAN /\ colorindex = IndexOf(Ncolors, nc, is_padded)
       /\ odither \in {<<>>, Ncolors}
  /\ stage \notin HasTables => odither = <<>>

\* Errors are bounded from the start, and in the middle of a pass.
ErrorsHeld == fserrors = <<>> \/ (stage \in HasTables /\ Bounded(fserrors, Ncolors, nc, width))

\* A pass has the tables it needs.
PassHeld ==
  /\ row_index \in 0 .. 15 /\ on_odd_row \in BOOLEAN
  /\ stage \in Maps =>
       /\ dither_mode \in DitherModes
       /\ dither_mode = "ordered" => is_padded /\ odither = Ncolors
       /\ dither_mode = "fs" => Bounded(fserrors, Ncolors, nc, width)

\* A row shows the components it has been mapped in.
RowHeld ==
  /\ stage \notin Maps => pixcodes = <<>>
  /\ stage = "pass" /\ pixcodes # <<>> =>
       /\ pixels \in RowOf(nc, width)
       /\ \A x \in 1 .. width : Shows(Ncolors, pixcodes[x], pixels[x], nc, Times(dither_mode))
  /\ stage \in {"row", "diffuse"} =>
       pixels \in RowOf(nc, width) /\ pixcodes \in [1 .. width -> Nat] /\ ci \in 1 .. nc + 1
  /\ stage = "row" => \A x \in 1 .. width : Shows(Ncolors, pixcodes[x], pixels[x], ci - 1, Times(dither_mode))

\* In the middle of a row the columns behind errorptr show one component more, and
\* what is passed on is bounded by the number of sixteenths it has.
Done(x) == IF on_odd_row THEN x >= errorptr ELSE x <= errorptr
DiffusionHeld ==
  stage = "diffuse" =>
    /\ ci <= nc /\ dither_mode = "fs"
    /\ errorptr \in (IF on_odd_row THEN 1 .. width + 1 ELSE 0 .. width)
    /\ \A x \in 1 .. width : Shows(Ncolors, pixcodes[x], pixels[x], IF Done(x) THEN ci ELSE ci - 1, 2)
    /\ cur \in Int /\ Within(cur, 0, 7 * Half(Ncolors[ci] - 1))
    /\ belowerr \in Int /\ Within(belowerr, 0, Half(Ncolors[ci] - 1))
    /\ bpreverr \in Int /\ Within(bpreverr, 0, 6 * Half(Ncolors[ci] - 1))

QuantizerInv ==
  RequestHeld /\ RootHeld /\ SharesHeld /\ TablesHeld /\ ErrorsHeld /\ PassHeld /\ RowHeld /\ DiffusionHeld

LEMMA Exact ==
  \A a \in Nat, b \in Nat : b > 0 => (b * a) \div b = a
OBVIOUS

\* The divisions of the code are exact.
LEMMA BlockSizes ==
  ASSUME Divided(Ncolors, nc), total_colors = Block(Ncolors, 0)
  PROVE  \A c \in 0 .. nc : Blksize(c) = Block(Ncolors, c)
<1>1. nc \in 1 .. 4 /\ \A c \in 1 .. nc : Ncolors[c] = Count(Ncolors, c) /\ Ncolors[c] \in Nat /\ Ncolors[c] > 0
  BY DEF Divided, Count
<1>2. \A k \in 0 .. 4 : Block(Ncolors, k) \in Nat
  BY Blocks
<1>3. nc >= 1 => total_colors \div Ncolors[1] = Block(Ncolors, 1)
  <2>1. Block(Ncolors, 0) = Count(Ncolors, 1) * Block(Ncolors, 1)
    BY Blocks
  <2>. QED
    BY <1>1, <1>2, <2>1, Exact
<1>4. nc >= 2 => Block(Ncolors, 1) \div Ncolors[2] = Block(Ncolors, 2)
  <2>1. Block(Ncolors, 1) = Count(Ncolors, 2) * Block(Ncolors, 2)
    BY Blocks
  <2>. QED
    BY <1>1, <1>2, <2>1, Exact
<1>5. nc >= 3 => Block(Ncolors, 2) \div Ncolors[3] = Block(Ncolors, 3)
  <2>1. Block(Ncolors, 2) = Count(Ncolors, 3) * Block(Ncolors, 3)
    BY Blocks
  <2>. QED
    BY <1>1, <1>2, <2>1, Exact
<1>6. nc >= 4 => Block(Ncolors, 3) \div Ncolors[4] = Block(Ncolors, 4)
  <2>1. Block(Ncolors, 3) = Count(Ncolors, 4) * Block(Ncolors, 4)
    BY Blocks
  <2>. QED
    BY <1>1, <1>2, <2>1, Exact
<1>7. /\ Blksize(0) = total_colors
      /\ Blksize(1) = total_colors \div Ncolors[1]
      /\ Blksize(2) = (total_colors \div Ncolors[1]) \div Ncolors[2]
      /\ Blksize(3) = ((total_colors \div Ncolors[1]) \div Ncolors[2]) \div Ncolors[3]
      /\ Blksize(4) = (((total_colors \div Ncolors[1]) \div Ncolors[2]) \div Ncolors[3]) \div Ncolors[4]
  BY DEF Blksize
<1> SUFFICES ASSUME NEW c \in 0 .. nc
             PROVE  Blksize(c) = Block(Ncolors, c)
  OBVIOUS
<1>8. c = 0 \/ c = 1 \/ c = 2 \/ c = 3 \/ c = 4
  BY <1>1
<1>9. c <= nc /\ nc \in Nat
  BY <1>1
<1>. QED
  BY <1>3, <1>4, <1>5, <1>6, <1>7, <1>8, <1>9

LEMMA TablesMade ==
  ASSUME Divided(Ncolors, nc), total_colors = Block(Ncolors, 0)
  PROVE  /\ Colormap = ColormapOf(Ncolors, nc)
         /\ \A padded \in BOOLEAN : create_colorindex(padded) = IndexOf(Ncolors, nc, padded)
<1>1. nc \in 1 .. 4 /\ \A c \in 0 .. nc : Blksize(c) = Block(Ncolors, c)
  BY BlockSizes DEF Divided
<1>2. \A c \in 1 .. nc : Blksize(c) = Block(Ncolors, c) /\ Blksize(c - 1) = Block(Ncolors, c - 1)
  BY <1>1
<1>3. \A c \in 1 .. nc, entry \in 0 .. Block(Ncolors, 0) - 1 : ValueAt(c, entry) = DigitAt(Ncolors, c, entry)
  BY <1>2 DEF ValueAt, DigitAt
<1>4. Colormap = ColormapOf(Ncolors, nc)
  BY <1>3 DEF Colormap, ColormapOf, Components
<1>5. ASSUME NEW padded \in BOOLEAN
      PROVE  create_colorindex(padded) = IndexOf(Ncolors, nc, padded)
  BY <1>2 DEF create_colorindex, IndexOf, Components, JSAMPLE, MAXJSAMPLE, Inputs
<1>. QED
  BY <1>4, <1>5

\* What is looked up for an input in range: an entry that, from a code, adds up to
\* the next code, and alone is a code of that value.
LEMMA LookedUp ==
  ASSUME NEW N, NEW n, Divided(N, n), Block(N, 0) <= 256, NEW c \in 1 .. n,
         NEW padded \in BOOLEAN, NEW input \in Inputs(padded)
  PROVE  LET v == ValueOf(Limit(input), N[c] - 1)
             entry == IndexOf(N, n, padded)[c][input]
         IN  /\ v \in 0 .. N[c] - 1 /\ entry = (v * Block(N, c)) % 256
             /\ output_value(v, N[c] - 1) \in Int
             /\ Within(output_value(v, N[c] - 1), Limit(input), Half(N[c] - 1))
             /\ ColormapOf(N, n)[c][entry] = output_value(v, N[c] - 1)
<1> DEFINE v == ValueOf(Limit(input), N[c] - 1)
           entry == IndexOf(N, n, padded)[c][input]
<1>1. N[c] \in Nat /\ N[c] >= 2
  BY DEF Divided
<1>2. Limit(input) \in JSAMPLE
  BY DEF Limit, JSAMPLE, MAXJSAMPLE, Inputs
<1>3. /\ v \in 0 .. N[c] - 1 /\ output_value(v, N[c] - 1) \in Int
      /\ Within(output_value(v, N[c] - 1), Limit(input), Half(N[c] - 1))
  BY <1>1, <1>2, ValueIsNear
<1>4. entry = (v * Block(N, c)) % 256
  BY DEF IndexOf, Inputs
<1> HIDE DEF v
<1>5. entry \in 0 .. Block(N, 0) - 1 /\ DigitAt(N, c, entry) = v
  BY <1>3, <1>4, EntryOfDigit
<1> HIDE DEF entry
<1>6. ColormapOf(N, n)[c][entry] = output_value(v, N[c] - 1)
  BY <1>5 DEF ColormapOf
<1>. QED
  BY <1>3, <1>4, <1>6 DEF v, entry

\* What is within h of x is within d of y.
Carries(x, h, y, d) == \A o \in Int : Within(o, x, h) => Within(o, y, d)

LEMMA LimitKeeps ==
  ASSUME NEW x \in JSAMPLE
  PROVE  Limit(x) = x
BY DEF Limit, JSAMPLE, MAXJSAMPLE

\* A code is added to for a sample, looked up with an input that is near to it.
LEMMA PixelMapped ==
  ASSUME NEW N, NEW n, Divided(N, n), Block(N, 0) <= 256, NEW c \in 1 .. n,
         NEW padded \in BOOLEAN, NEW input \in Inputs(padded),
         NEW pixel, NEW k, NEW code, Shows(N, code, pixel, c - 1, k),
         Carries(Limit(input), Half(N[c] - 1), pixel[c], k * Half(N[c] - 1))
  PROVE  /\ AddTo(code, IndexOf(N, n, padded)[c][input]) \in Nat
         /\ Shows(N, AddTo(code, IndexOf(N, n, padded)[c][input]), pixel, c, k)
<1> DEFINE v == ValueOf(Limit(input), N[c] - 1)
           entry == IndexOf(N, n, padded)[c][input]
<1>1. /\ v \in 0 .. N[c] - 1 /\ entry = (v * Block(N, c)) % 256
      /\ output_value(v, N[c] - 1) \in Int
      /\ Within(output_value(v, N[c] - 1), Limit(input), Half(N[c] - 1))
  BY LookedUp
<1> HIDE DEF v, entry
<1>2. Within(output_value(v, N[c] - 1), pixel[c], k * Half(N[c] - 1))
  BY <1>1 DEF Carries
<1>3. Shows(N, AddTo(code, entry), pixel, c, k) /\ AddTo(code, entry) \in Nat
  BY <1>1, <1>2, ShowsMore
<1>. QED
  BY <1>3 DEF entry

(***************************************************************************)
(* Every step keeps the invariant                                          *)
(***************************************************************************)

LEMMA QuantizerStart == QuantizerInit => QuantizerInv
<1> SUFFICES ASSUME QuantizerInit PROVE QuantizerInv
  OBVIOUS
<1>1. stage = "none" /\ odither = <<>> /\ fserrors = <<>> /\ pixcodes = <<>> /\ row_index = 0 /\ on_odd_row = FALSE
  BY DEF QuantizerInit
<1>2. row_index \in 0 .. 15 /\ on_odd_row \in BOOLEAN
  <2>1. row_index \in 0 .. 15
    BY <1>1
  <2>2. on_odd_row \in BOOLEAN
    BY <1>1
  <2>. QED
    BY <2>1, <2>2
<1>3. stage \notin {"root", "equal"} /\ stage \notin Divides /\ stage \notin HasTables /\ stage \notin Maps
      /\ stage # "row" /\ stage # "diffuse" /\ stage # "pass"
  BY <1>1 DEF Divides, HasTables, Maps
<1>. QED
  BY <1>1, <1>2, <1>3
  DEF QuantizerInv, RequestHeld, RootHeld, SharesHeld, TablesHeld, ErrorsHeld, PassHeld, RowHeld, DiffusionHeld

LEMMA RequestStep ==
  ASSUME QuantizerInv, NEW request \in Requests, NEW mode \in DitherModes, jinit_1pass_quantizer(request, mode)
  PROVE  QuantizerInv'
<1>1. /\ stage = "none" /\ stage' \in {"error", "root"} /\ cinfo' = request /\ iroot' = 2
      /\ stage' = "root" => request.components <= 4 /\ request.desired <= 256
      /\ UNCHANGED <<odither, pass, fserrors, pixcodes>>
  BY RequestsAssumption
  DEF jinit_1pass_quantizer, tables, MAX_Q_COMPS, MAXJSAMPLE
<1>2. fserrors = <<>> /\ pixcodes = <<>> /\ odither = <<>> /\ row_index \in 0 .. 15 /\ on_odd_row \in BOOLEAN
  BY <1>1 DEF QuantizerInv, ErrorsHeld, RowHeld, TablesHeld, PassHeld, HasTables, Maps
<1>3. stage' = "root" => request.components \in 1 .. 4
  BY <1>1, RequestsAssumption
<1>. QED
  BY <1>1, <1>2, <1>3
  DEF QuantizerInv, RequestHeld, RootHeld, SharesHeld, TablesHeld, ErrorsHeld, PassHeld, RowHeld, DiffusionHeld,
      Divides, HasTables, Maps, nc, pass

\* The steps before there are tables leave the parts of the invariant that are
\* about tables, passes and rows as they are.
LEMMA BeforeTables ==
  ASSUME QuantizerInv, stage \notin HasTables, stage' \notin HasTables,
         UNCHANGED <<tables, pass, fserrors, pixcodes>>
  PROVE  TablesHeld' /\ ErrorsHeld' /\ PassHeld' /\ RowHeld' /\ DiffusionHeld'
BY DEF QuantizerInv, TablesHeld, ErrorsHeld, PassHeld, RowHeld, DiffusionHeld, HasTables, Maps, tables, pass

LEMMA PowerIsPowerOf == nc \in 1 .. 4 => Power = PowerOf(iroot, nc)
<1> SUFFICES ASSUME nc \in 1 .. 4 PROVE Power = PowerOf(iroot, nc)
  OBVIOUS
<1>1. nc = 1 \/ nc = 2 \/ nc = 3 \/ nc = 4
  OBVIOUS
<1>. QED
  BY <1>1 DEF Power, PowerOf

LEMMA RootStep ==
  ASSUME QuantizerInv, NextRoot
  PROVE  QuantizerInv'
<1>1. /\ stage = "root" /\ stage' \in {"root", "error", "equal"} /\ cinfo' = cinfo
      /\ UNCHANGED <<tables, pass, fserrors, pixcodes>>
  BY DEF NextRoot
<1>2. cinfo \in Requests /\ nc \in 1 .. 4 /\ cinfo.desired <= 256 /\ iroot \in Nat /\ iroot >= 2
      /\ (iroot = 2 \/ PowerOf(iroot - 1, nc) <= cinfo.desired)
  BY <1>1 DEF QuantizerInv, RequestHeld, RootHeld
<1>3. CASE Power <= cinfo.desired
  <2>1. iroot' = iroot + 1 /\ stage' = "root" /\ iroot' - 1 = iroot
    BY <1>1, <1>2, <1>3 DEF NextRoot
  <2>2. PowerOf(iroot' - 1, nc) <= cinfo.desired
    BY <1>2, <1>3, <2>1, PowerIsPowerOf
  <2>. QED
    BY <1>1, <1>2, <2>1, <2>2, BeforeTables
    DEF QuantizerInv, RequestHeld, RootHeld, SharesHeld, Divides, HasTables, nc
<1>4. CASE ~(Power <= cinfo.desired)
  <2>1. iroot' = iroot - 1 /\ stage' = IF iroot - 1 < 2 THEN "error" ELSE "equal"
    BY <1>1, <1>4 DEF NextRoot
  <2>2. stage' = "equal" => iroot' \in Nat /\ iroot' >= 2 /\ PowerOf(iroot', nc) <= cinfo.desired
    BY <1>2, <2>1
  <2>3. stage' \in {"error", "equal"}
    BY <2>1
  <2>. QED
    BY <1>1, <1>2, <2>2, <2>3, BeforeTables
    DEF QuantizerInv, RequestHeld, RootHeld, SharesHeld, Divides, HasTables, nc
<1>. QED
  BY <1>3, <1>4

LEMMA EqualStep ==
  ASSUME QuantizerInv, EqualShares
  PROVE  QuantizerInv'
<1>1. /\ stage = "equal" /\ stage' = "share" /\ cinfo' = cinfo /\ turn' = 1
      /\ Ncolors' = [c \in 1 .. nc |-> iroot] /\ total_colors' = Power
      /\ UNCHANGED <<tables, pass, fserrors, pixcodes>>
  BY DEF EqualShares, Components
<1>2. cinfo \in Requests /\ nc \in 1 .. 4 /\ cinfo.desired <= 256 /\ iroot \in Nat /\ iroot >= 2
      /\ PowerOf(iroot, nc) <= cinfo.desired
  BY <1>1 DEF QuantizerInv, RequestHeld, RootHeld
<1> DEFINE N == [c \in 1 .. nc |-> iroot]
<1>3. Divided(N, nc)
  BY <1>2 DEF Divided
<1>4. Block(N, 0) = PowerOf(iroot, nc)
  <2>1. \A c \in 1 .. 4 : Count(N, c) = IF c <= nc THEN iroot ELSE 1
    BY <1>2 DEF Count
  <2>2. Block(N, 0) = Count(N, 1) * (Count(N, 2) * (Count(N, 3) * Count(N, 4)))
    BY DEF Block, Beyond
  <2>3. nc = 1 \/ nc = 2 \/ nc = 3 \/ nc = 4
    BY <1>2
  <2> HIDE DEF N
  <2>4. CASE nc = 1
    BY <1>2, <2>1, <2>2, <2>4 DEF PowerOf
  <2>5. CASE nc = 2
    BY <1>2, <2>1, <2>2, <2>5 DEF PowerOf
  <2>6. CASE nc = 3
    BY <1>2, <2>1, <2>2, <2>6 DEF PowerOf
  <2>7. CASE nc = 4
    BY <1>2, <2>1, <2>2, <2>7 DEF PowerOf
  <2>. QED
    BY <2>3, <2>4, <2>5, <2>6, <2>7
<1>5. total_colors' = Block(N, 0) /\ total_colors' <= cinfo.desired
  BY <1>1, <1>2, <1>4, PowerIsPowerOf
<1> HIDE DEF N
<1>6. Ncolors' = N
  BY <1>1 DEF N
<1>. QED
  BY <1>1, <1>2, <1>3, <1>5, <1>6, BeforeTables
  DEF QuantizerInv, RequestHeld, RootHeld, SharesHeld, Divides, HasTables, nc

LEMMA IncrementStep ==
  ASSUME QuantizerInv, Increment
  PROVE  QuantizerInv'
<1> DEFINE j == ToIncrement
           M == [Ncolors EXCEPT ![j] = @ + 1]
<1>1. /\ stage = "share" /\ stage' = "share" /\ cinfo' = cinfo /\ turn' = turn + 1 /\ turn <= nc
      /\ Ncolors' = M /\ total_colors' = Increased /\ Increased <= cinfo.desired
      /\ UNCHANGED <<tables, pass, fserrors, pixcodes>>
  BY DEF Increment
<1>2. /\ cinfo \in Requests /\ nc \in 1 .. 4 /\ cinfo.desired <= 256 /\ turn \in Nat /\ turn >= 1
      /\ Divided(Ncolors, nc) /\ total_colors = Block(Ncolors, 0)
  BY <1>1 DEF QuantizerInv, RequestHeld, SharesHeld, Divides
<1>3. j \in 1 .. nc
  <2>1. cinfo.rgb \in BOOLEAN /\ (cinfo.rgb => nc = 3)
    BY <1>2, RequestsAssumption DEF nc
  <2>2. CASE cinfo.rgb
    <3>1. turn = 1 \/ turn = 2 \/ turn = 3
      BY <1>1, <1>2, <2>1, <2>2
    <3>. QED
      BY <2>1, <2>2, <3>1 DEF ToIncrement, RGB_order
  <2>3. CASE ~cinfo.rgb
    BY <1>1, <1>2, <2>3 DEF ToIncrement
  <2>. QED
    BY <2>1, <2>2, <2>3
<1>4. Increased = (total_colors \div Ncolors[j]) * (Ncolors[j] + 1)
  BY DEF Increased
<1> HIDE DEF j
<1>5. /\ Ncolors \in [1 .. nc -> Nat] /\ Ncolors[j] \in Nat /\ Ncolors[j] >= 2 /\ j \in 1 .. 4
      /\ Count(Ncolors, j) = Ncolors[j]
  BY <1>2, <1>3 DEF Divided, Count
<1>6. Divided(M, nc)
  BY <1>2, <1>3, <1>5 DEF Divided
<1>7. \A c \in 1 .. 4 : Count(M, c) = IF c = j THEN Count(Ncolors, c) + 1 ELSE Count(Ncolors, c)
  BY <1>3, <1>5 DEF Count
<1>8. Increased = Block(M, 0)
  <2> DEFINE f1 == Count(Ncolors, 1)
             f2 == Count(Ncolors, 2)
             f3 == Count(Ncolors, 3)
             f4 == Count(Ncolors, 4)
  <2>1. f1 \in Nat /\ f2 \in Nat /\ f3 \in Nat /\ f4 \in Nat
    BY <1>2, CountPositive
  <2>2. total_colors = f1 * (f2 * (f3 * f4)) /\ Block(M, 0) = Count(M, 1) * (Count(M, 2) * (Count(M, 3) * Count(M, 4)))
    BY <1>2 DEF Block, Beyond
  <2> HIDE DEF f1, f2, f3, f4, M
  <2>3. ASSUME NEW rest \in Nat, total_colors = Count(Ncolors, j) * rest,
               Block(M, 0) = (Count(Ncolors, j) + 1) * rest
        PROVE  Increased = Block(M, 0)
    <3>1. total_colors \div Ncolors[j] = rest
      BY <1>5, <2>3, Exact
    <3>. QED
      BY <1>4, <1>5, <2>3, <3>1
  <2>4. CASE j = 1
    <3>1. f2 * (f3 * f4) \in Nat /\ total_colors = Count(Ncolors, 1) * (f2 * (f3 * f4))
      BY <2>1, <2>2 DEF f1
    <3>2. Block(M, 0) = (Count(Ncolors, 1) + 1) * (f2 * (f3 * f4))
      BY <1>7, <2>2, <2>4 DEF f2, f3, f4
    <3>. QED
      BY <2>3, <2>4, <3>1, <3>2
  <2>5. CASE j = 2
    <3>1. f1 * (f3 * f4) \in Nat /\ total_colors = f2 * (f1 * (f3 * f4))
      BY <2>1, <2>2
    <3>2. Block(M, 0) = f1 * ((f2 + 1) * (f3 * f4))
      BY <1>7, <2>2, <2>5 DEF f1, f2, f3, f4
    <3>3. Block(M, 0) = (f2 + 1) * (f1 * (f3 * f4))
      BY <2>1, <3>2
    <3>. QED
      BY <2>3, <2>5, <3>1, <3>3 DEF f2
  <2>6. CASE j = 3
    <3>1. f1 * (f2 * f4) \in Nat /\ total_colors = f3 * (f1 * (f2 * f4))
      BY <2>1, <2>2
    <3>2. Block(M, 0) = f1 * (f2 * ((f3 + 1) * f4))
      BY <1>7, <2>2, <2>6 DEF f1, f2, f3, f4
    <3>3. Block(M, 0) = (f3 + 1) * (f1 * (f2 * f4))
      BY <2>1, <3>2
    <3>. QED
      BY <2>3, <2>6, <3>1, <3>3 DEF f3
  <2>7. CASE j = 4
    <3>1. f1 * (f2 * f3) \in Nat /\ total_colors = f4 * (f1 * (f2 * f3))
      BY <2>1, <2>2
    <3>2. Block(M, 0) = f1 * (f2 * (f3 * (f4 + 1)))
      BY <1>7, <2>2, <2>7 DEF f1, f2, f3, f4
    <3>3. Block(M, 0) = (f4 + 1) * (f1 * (f2 * f3))
      BY <2>1, <3>2
    <3>. QED
      BY <2>3, <2>7, <3>1, <3>3 DEF f4
  <2>. QED
    BY <1>5, <2>4, <2>5, <2>6, <2>7
<1> HIDE DEF M
<1>. QED
  BY <1>1, <1>2, <1>6, <1>8, BeforeTables
  DEF QuantizerInv, RequestHeld, RootHeld, SharesHeld, Divides, HasTables, nc

LEMMA RoundStep ==
  ASSUME QuantizerInv, EndOfRound
  PROVE  QuantizerInv'
<1>1. /\ stage = "share" /\ stage' \in {"share", "tables"} /\ (turn' = turn \/ turn' = 1)
      /\ UNCHANGED <<cinfo, Ncolors, total_colors>> /\ UNCHANGED <<tables, pass, fserrors, pixcodes>>
  BY DEF EndOfRound
<1>2. /\ cinfo \in Requests /\ nc \in 1 .. 4 /\ cinfo.desired <= 256 /\ turn \in Nat /\ turn >= 1
      /\ Divided(Ncolors, nc) /\ total_colors = Block(Ncolors, 0) /\ total_colors <= cinfo.desired
  BY <1>1 DEF QuantizerInv, RequestHeld, SharesHeld, Divides
<1>. QED
  BY <1>1, <1>2, BeforeTables
  DEF QuantizerInv, RequestHeld, RootHeld, SharesHeld, Divides, HasTables, nc

\* From then on the request and the shares stay.
LEMMA SharesKept ==
  ASSUME QuantizerInv, stage \in Divides, stage' \in HasTables, UNCHANGED setup
  PROVE  RequestHeld' /\ RootHeld' /\ SharesHeld'
<1>1. UNCHANGED <<cinfo, iroot, Ncolors, total_colors, turn>>
  BY DEF setup
<1>2. stage \notin {"none", "error"} /\ stage' \notin {"none", "error", "root", "equal"} /\ stage' \in Divides
  BY DEF Divides, HasTables
<1>. QED
  BY <1>1, <1>2 DEF QuantizerInv, RequestHeld, RootHeld, SharesHeld, nc

LEMMA DividedHalf ==
  ASSUME NEW N, NEW n, Divided(N, n), NEW c \in 1 .. n
  PROVE  N[c] \in Nat /\ N[c] >= 2 /\ Half(N[c] - 1) \in 1 .. 128
<1>1. N[c] \in Nat /\ N[c] >= 2
  BY DEF Divided
<1>2. N[c] - 1 \in Nat /\ N[c] - 1 > 0
  BY <1>1
<1>. QED
  BY <1>1, <1>2, HalfRange

LEMMA ZerosBounded ==
  ASSUME NEW N, NEW n, Divided(N, n), NEW w \in Nat
  PROVE  Bounded([c \in 1 .. n |-> [k \in 0 .. w + 1 |-> 0]], N, n, w)
<1>1. \A c \in 1 .. n : Half(N[c] - 1) \in 1 .. 128
  BY DividedHalf
<1>. QED
  BY <1>1 DEF Bounded, Within

LEMMA TablesStep ==
  ASSUME QuantizerInv, CreateTables
  PROVE  QuantizerInv'
<1>1. /\ stage = "tables" /\ stage' = "ready" /\ UNCHANGED setup /\ UNCHANGED <<odither, pass, pixcodes>>
      /\ sv_colormap' = Colormap /\ is_padded' = (dither_mode = "ordered")
      /\ colorindex' = create_colorindex(dither_mode = "ordered")
      /\ fserrors' = IF dither_mode = "fs" THEN NoErrors ELSE <<>>
  BY DEF CreateTables
<1>2. cinfo \in Requests /\ Divided(Ncolors, nc) /\ total_colors = Block(Ncolors, 0)
  BY <1>1 DEF QuantizerInv, RequestHeld, SharesHeld, Divides
<1>3. RequestHeld' /\ RootHeld' /\ SharesHeld'
  BY <1>1, SharesKept DEF Divides, HasTables
<1>4. UNCHANGED <<cinfo, Ncolors>>
  BY <1>1 DEF setup
<1>5. TablesHeld'
  <2>1. (dither_mode = "ordered") \in BOOLEAN
    OBVIOUS
  <2>2. sv_colormap' = ColormapOf(Ncolors, nc) /\ colorindex' = IndexOf(Ncolors, nc, is_padded')
    BY <1>1, <1>2, <2>1, TablesMade
  <2>3. odither' = <<>>
    BY <1>1 DEF QuantizerInv, TablesHeld, HasTables
  <2>4. is_padded' \in BOOLEAN
    BY <1>1, <2>1
  <2>. QED
    BY <1>1, <1>4, <2>2, <2>3, <2>4 DEF TablesHeld, HasTables, nc
<1>6. ErrorsHeld'
  <2>1. width \in Nat
    BY <1>2, RequestsAssumption DEF width
  <2>2. Bounded(NoErrors, Ncolors, nc, width)
    BY <1>2, <2>1, ZerosBounded DEF NoErrors, Components
  <2>3. fserrors' = <<>> \/ fserrors' = NoErrors
    BY <1>1
  <2>. QED
    BY <1>1, <1>4, <2>2, <2>3 DEF ErrorsHeld, HasTables, nc, width
<1>7. PassHeld' /\ RowHeld' /\ DiffusionHeld'
  <2>1. pixcodes = <<>> /\ row_index \in 0 .. 15 /\ on_odd_row \in BOOLEAN
    BY <1>1 DEF QuantizerInv, RowHeld, PassHeld, Maps
  <2>. QED
    BY <1>1, <2>1 DEF PassHeld, RowHeld, DiffusionHeld, Maps, pass
<1>. QED
  BY <1>3, <1>5, <1>6, <1>7 DEF QuantizerInv

\* What holds of the request and the shares once there are tables.
LEMMA WithTables ==
  ASSUME QuantizerInv, stage \in HasTables
  PROVE  /\ cinfo \in Requests /\ nc \in 1 .. 4 /\ width \in Nat /\ width >= 1 /\ stage \in Divides
         /\ Divided(Ncolors, nc) /\ total_colors = Block(Ncolors, 0)
         /\ Block(Ncolors, 0) <= 256 /\ Block(Ncolors, 0) \in Nat /\ total_colors <= cinfo.desired
         /\ \A c \in 1 .. nc : Ncolors[c] \in Nat /\ Ncolors[c] >= 2 /\ Half(Ncolors[c] - 1) \in 1 .. 128
<1>1. stage \in Divides /\ stage \notin {"none", "error"}
  BY DEF HasTables, Divides
<1>2. /\ cinfo \in Requests /\ nc \in 1 .. 4 /\ cinfo.desired <= 256
      /\ Divided(Ncolors, nc) /\ total_colors = Block(Ncolors, 0) /\ total_colors <= cinfo.desired
  BY <1>1 DEF QuantizerInv, RequestHeld, SharesHeld
<1>3. width \in Nat /\ width >= 1 /\ cinfo.desired \in Int
  BY <1>2, RequestsAssumption DEF width
<1>4. \A c \in 1 .. nc : Ncolors[c] \in Nat /\ Ncolors[c] >= 2 /\ Half(Ncolors[c] - 1) \in 1 .. 128
  BY <1>2, DividedHalf
<1>5. Block(Ncolors, 0) \in Nat
  BY <1>2, Blocks
<1>. QED
  BY <1>1, <1>2, <1>3, <1>4, <1>5

LEMMA PassStep ==
  ASSUME QuantizerInv, NEW mode \in DitherModes, start_pass_1_quant(mode)
  PROVE  QuantizerInv'
<1>1. /\ stage \in {"ready", "pass"} /\ stage' = "pass" /\ dither_mode' = mode
      /\ UNCHANGED setup /\ UNCHANGED sv_colormap /\ pixcodes' = <<>>
      /\ IF mode = "ordered"
         THEN /\ row_index' = 0 /\ colorindex' = IF is_padded THEN colorindex ELSE create_colorindex(TRUE)
              /\ is_padded' = TRUE /\ odither' = IF odither = <<>> THEN Ncolors ELSE odither
         ELSE UNCHANGED <<row_index, colorindex, is_padded, odither>>
      /\ IF mode = "fs" THEN on_odd_row' = FALSE /\ fserrors' = NoErrors ELSE UNCHANGED <<on_odd_row, fserrors>>
  BY DEF start_pass_1_quant
<1>2. stage \in HasTables /\ stage \in Divides /\ stage' \in HasTables /\ stage' \in Maps
  BY <1>1 DEF HasTables, Divides, Maps
<1>3. RequestHeld' /\ RootHeld' /\ SharesHeld'
  BY <1>1, <1>2, SharesKept
<1>4. UNCHANGED <<cinfo, Ncolors>>
  BY <1>1 DEF setup
<1>5. /\ sv_colormap = ColormapOf(Ncolors, nc) /\ is_padded \in BOOLEAN
      /\ colorindex = IndexOf(Ncolors, nc, is_padded) /\ odither \in {<<>>, Ncolors}
  BY <1>2 DEF QuantizerInv, TablesHeld
<1>6. create_colorindex(TRUE) = IndexOf(Ncolors, nc, TRUE)
  BY <1>2, WithTables, TablesMade
<1>7. /\ is_padded' \in BOOLEAN /\ colorindex' = IndexOf(Ncolors, nc, is_padded') /\ odither' \in {<<>>, Ncolors}
      /\ mode = "ordered" => is_padded' /\ odither' = Ncolors
  <2>1. CASE mode = "ordered"
    <3>1. is_padded' = TRUE /\ odither' = Ncolors
      BY <1>1, <1>5, <2>1
    <3>2. CASE is_padded
      BY <1>1, <1>5, <2>1, <3>1, <3>2
    <3>3. CASE ~is_padded
      BY <1>1, <1>6, <2>1, <3>1, <3>3
    <3>. QED
      BY <3>1, <3>2, <3>3
  <2>2. CASE mode # "ordered"
    BY <1>1, <1>5, <2>2
  <2>. QED
    BY <2>1, <2>2
<1>8. TablesHeld'
  BY <1>1, <1>2, <1>4, <1>5, <1>7 DEF TablesHeld, nc
<1>9. Bounded(NoErrors, Ncolors, nc, width)
  BY <1>2, WithTables, ZerosBounded DEF NoErrors, Components
<1>10. fserrors' = NoErrors \/ fserrors' = fserrors
  BY <1>1
<1>11. ErrorsHeld'
  BY <1>2, <1>4, <1>9, <1>10 DEF QuantizerInv, ErrorsHeld, nc, width
<1>12. row_index' \in 0 .. 15 /\ on_odd_row' \in BOOLEAN
  <2>1. row_index \in 0 .. 15 /\ on_odd_row \in BOOLEAN
    BY DEF QuantizerInv, PassHeld
  <2>2. (row_index' = 0 \/ row_index' = row_index) /\ (on_odd_row' = FALSE \/ on_odd_row' = on_odd_row)
    BY <1>1
  <2>3. row_index' \in 0 .. 15
    BY <2>1, <2>2
  <2>4. on_odd_row' \in BOOLEAN
    BY <2>1, <2>2
  <2>. QED
    BY <2>3, <2>4
<1>13. PassHeld'
  BY <1>1, <1>4, <1>7, <1>9, <1>12 DEF PassHeld, nc, width
<1>14. RowHeld' /\ DiffusionHeld'
  BY <1>1, <1>2 DEF RowHeld, DiffusionHeld
<1>. QED
  BY <1>3, <1>8, <1>11, <1>13, <1>14 DEF QuantizerInv

LEMMA RowStart ==
  ASSUME QuantizerInv, NEW row \in [Columns -> [Components -> JSAMPLE]], color_quantize(row)
  PROVE  QuantizerInv'
<1>1. /\ stage = "pass" /\ stage' = "row" /\ pixels' = row /\ pixcodes' = [x \in Columns |-> 0] /\ ci' = 1
      /\ UNCHANGED setup /\ UNCHANGED tables /\ UNCHANGED pass /\ UNCHANGED <<fserrors, dither_mode>>
  BY DEF color_quantize
<1>2. stage \in HasTables /\ stage \in Divides /\ stage' \in HasTables /\ stage' \in Maps /\ stage \in Maps
  BY <1>1 DEF HasTables, Divides, Maps
<1>3. RequestHeld' /\ RootHeld' /\ SharesHeld'
  BY <1>1, <1>2, SharesKept
<1>4. UNCHANGED <<cinfo, Ncolors>>
  BY <1>1 DEF setup
<1>5. TablesHeld' /\ ErrorsHeld' /\ PassHeld'
  BY <1>1, <1>2, <1>4 DEF QuantizerInv, TablesHeld, ErrorsHeld, PassHeld, tables, pass, nc, width
<1>6. nc \in 1 .. 4 /\ Divided(Ncolors, nc)
  BY <1>2, WithTables
<1>7. \A x \in 1 .. width : Shows(Ncolors, 0, row[x], 0, Times(dither_mode))
  BY <1>6, ShowsNothing
<1>8. RowHeld'
  <2>1. pixels' \in RowOf(nc, width) /\ pixcodes' \in [1 .. width -> Nat] /\ ci' \in 1 .. nc + 1
    BY <1>1, <1>6 DEF RowOf, Columns, Components
  <2>2. \A x \in 1 .. width : Shows(Ncolors, pixcodes'[x], pixels'[x], ci' - 1, Times(dither_mode'))
    BY <1>1, <1>7 DEF Columns
  <2>. QED
    BY <1>1, <1>2, <1>4, <2>1, <2>2 DEF RowHeld, nc, width
<1>9. DiffusionHeld'
  BY <1>1 DEF DiffusionHeld
<1>. QED
  BY <1>3, <1>5, <1>8, <1>9 DEF QuantizerInv

\* In a row the tables are those for the shares, and so are the pixels and codes.
LEMMA InRow ==
  ASSUME QuantizerInv, stage \in {"row", "diffuse"}
  PROVE  /\ stage \in HasTables /\ stage \in Maps
         /\ sv_colormap = ColormapOf(Ncolors, nc) /\ is_padded \in BOOLEAN
         /\ colorindex = IndexOf(Ncolors, nc, is_padded)
         /\ pixels \in RowOf(nc, width) /\ pixcodes \in [1 .. width -> Nat] /\ ci \in 1 .. nc + 1
BY DEF QuantizerInv, TablesHeld, RowHeld, HasTables, Maps

\* What a step within a row keeps, but for what it does to codes and errors.
LEMMA WithinRow ==
  ASSUME QuantizerInv, stage \in {"row", "diffuse"}, stage' \in {"row", "diffuse"},
         UNCHANGED setup, UNCHANGED tables, UNCHANGED pass, UNCHANGED <<dither_mode, pixels>>
  PROVE  /\ RequestHeld' /\ RootHeld' /\ SharesHeld' /\ TablesHeld'
         /\ UNCHANGED <<cinfo, Ncolors>>
         /\ UNCHANGED fserrors => ErrorsHeld' /\ PassHeld'
         /\ Bounded(fserrors', Ncolors, nc, width) => ErrorsHeld' /\ PassHeld'
<1>1. stage \in Divides /\ stage \in HasTables /\ stage' \in HasTables /\ stage' \in Maps /\ stage \in Maps
  BY DEF HasTables, Divides, Maps
<1>2. RequestHeld' /\ RootHeld' /\ SharesHeld'
  BY <1>1, SharesKept
<1>3. UNCHANGED <<cinfo, Ncolors>>
  BY DEF setup
<1>4. TablesHeld'
  BY <1>1, <1>3 DEF QuantizerInv, TablesHeld, tables, nc
<1>5. ASSUME UNCHANGED fserrors \/ Bounded(fserrors', Ncolors, nc, width)
      PROVE  ErrorsHeld' /\ PassHeld'
  BY <1>1, <1>3, <1>5 DEF QuantizerInv, ErrorsHeld, PassHeld, pass, tables, nc, width
<1>. QED
  BY <1>2, <1>3, <1>4, <1>5

LEMMA MapStep ==
  ASSUME QuantizerInv, MapComponent
  PROVE  QuantizerInv'
<1>1. /\ stage = "row" /\ stage' = "row" /\ ci <= nc /\ dither_mode = "none" /\ ci' = ci + 1
      /\ pixcodes' = [x \in 1 .. width |-> AddTo(pixcodes[x], colorindex[ci][pixels[x][ci]])]
      /\ UNCHANGED setup /\ UNCHANGED tables /\ UNCHANGED pass /\ UNCHANGED <<fserrors, dither_mode, pixels>>
  BY DEF MapComponent, Columns
<1>2. RequestHeld' /\ RootHeld' /\ SharesHeld' /\ TablesHeld' /\ ErrorsHeld' /\ PassHeld' /\ UNCHANGED <<cinfo, Ncolors>>
  BY <1>1, WithinRow
<1>3. /\ is_padded \in BOOLEAN /\ colorindex = IndexOf(Ncolors, nc, is_padded)
      /\ pixels \in RowOf(nc, width) /\ nc \in 1 .. 4 /\ ci \in 1 .. nc /\ Divided(Ncolors, nc) /\ Block(Ncolors, 0) <= 256
  BY <1>1, InRow, WithTables
<1>4. ASSUME NEW x \in 1 .. width
      PROVE  /\ pixcodes'[x] \in Nat
             /\ Shows(Ncolors, pixcodes'[x], pixels[x], ci, Times(dither_mode))
  <2> DEFINE code == pixcodes[x]
             pixel == pixels[x]
             input == pixel[ci]
             h == Half(Ncolors[ci] - 1)
             k == Times(dither_mode)
  <2>1. input \in JSAMPLE /\ h \in 1 .. 128
    BY <1>3, DividedHalf DEF RowOf
  <2>2. pixcodes'[x] = AddTo(code, IndexOf(Ncolors, nc, is_padded)[ci][input])
    BY <1>1, <1>3
  <2>3. Shows(Ncolors, code, pixel, ci - 1, k)
    BY <1>1 DEF QuantizerInv, RowHeld
  <2>4. k = 1
    BY <1>1 DEF Times
  <2> HIDE DEF code, pixel, k, h
  <2>5. input \in Inputs(is_padded) /\ Limit(input) = input
    BY <2>1, LimitKeeps DEF JSAMPLE, MAXJSAMPLE, Inputs
  <2>6. Carries(Limit(input), h, pixel[ci], k * h)
    <3>1. 1 * h = h
      BY <2>1
    <3>. QED
      BY <2>4, <2>5, <3>1 DEF Carries
  <2>7. Carries(Limit(input), Half(Ncolors[ci] - 1), pixel[ci], k * Half(Ncolors[ci] - 1))
    BY <2>6 DEF h
  <2> HIDE DEF input
  <2>8. /\ AddTo(code, IndexOf(Ncolors, nc, is_padded)[ci][input]) \in Nat
        /\ Shows(Ncolors, AddTo(code, IndexOf(Ncolors, nc, is_padded)[ci][input]), pixel, ci, k)
    BY <1>3, <2>3, <2>5, <2>7, PixelMapped
  <2>. QED
    BY <2>2, <2>8 DEF pixel, k
<1>5. RowHeld'
  <2>1. pixcodes' \in [1 .. width -> Nat] /\ ci' \in 1 .. nc + 1 /\ ci' - 1 = ci
    BY <1>1, <1>3, <1>4
  <2>. QED
    BY <1>1, <1>2, <1>3, <1>4, <2>1 DEF RowHeld, Maps, nc, width
<1>6. DiffusionHeld'
  BY <1>1 DEF DiffusionHeld
<1>. QED
  BY <1>2, <1>5, <1>6 DEF QuantizerInv

\* A dithered sample is still in the padded table.
LEMMA DitheredInside ==
  ASSUME QuantizerInv, stage = "row", ci <= nc, dither_mode = "ordered", NEW x \in 1 .. width
  PROVE  /\ is_padded /\ Dithered(x) \in (-255) .. 510
         /\ Carries(Limit(Dithered(x)), Half(Ncolors[ci] - 1), pixels[x][ci], 2 * Half(Ncolors[ci] - 1))
<1>1. /\ is_padded /\ odither = Ncolors /\ row_index \in 0 .. 15
      /\ pixels \in RowOf(nc, width) /\ ci \in 1 .. nc /\ Divided(Ncolors, nc) /\ width \in Nat
  BY InRow, WithTables DEF QuantizerInv, PassHeld
<1> DEFINE sample == pixels[x][ci]
           added == Dither(odither[ci], row_index, (x - 1) % 16)
           h == Half(Ncolors[ci] - 1)
<1>2. sample \in JSAMPLE
  BY <1>1 DEF RowOf
<1>3. Ncolors[ci] \in Nat /\ Ncolors[ci] >= 2 /\ h \in 1 .. 128
  BY <1>1, DividedHalf
<1>4. row_index \in Nat /\ (x - 1) % 16 \in Nat
  BY <1>1
<1>5. added \in Int /\ Within(added, 0, h)
  BY <1>1, <1>3, <1>4, DitherSmall
<1>6. Dithered(x) = sample + added
  BY DEF Dithered, ODITHER_SIZE
<1> HIDE DEF sample, added, h
<1>7. sample + added \in (-255) .. 510
  BY <1>2, <1>3, <1>5 DEF Within, JSAMPLE, MAXJSAMPLE
<1>8. Carries(Limit(sample + added), h, sample, 2 * h)
  BY <1>2, <1>3, <1>5 DEF Carries, Within, Limit, JSAMPLE, MAXJSAMPLE
<1>. QED
  BY <1>1, <1>6, <1>7, <1>8 DEF h, sample

LEMMA DitherStep ==
  ASSUME QuantizerInv, DitherComponent
  PROVE  QuantizerInv'
<1>1. /\ stage = "row" /\ stage' = "row" /\ ci <= nc /\ dither_mode = "ordered" /\ ci' = ci + 1
      /\ pixcodes' = [x \in 1 .. width |-> AddTo(pixcodes[x], colorindex[ci][Dithered(x)])]
      /\ UNCHANGED setup /\ UNCHANGED tables /\ UNCHANGED pass /\ UNCHANGED <<fserrors, dither_mode, pixels>>
  BY DEF DitherComponent, Columns
<1>2. RequestHeld' /\ RootHeld' /\ SharesHeld' /\ TablesHeld' /\ ErrorsHeld' /\ PassHeld' /\ UNCHANGED <<cinfo, Ncolors>>
  BY <1>1, WithinRow
<1>3. /\ is_padded \in BOOLEAN /\ colorindex = IndexOf(Ncolors, nc, is_padded)
      /\ pixels \in RowOf(nc, width) /\ nc \in 1 .. 4 /\ ci \in 1 .. nc /\ Divided(Ncolors, nc) /\ Block(Ncolors, 0) <= 256
  BY <1>1, InRow, WithTables
<1>4. ASSUME NEW x \in 1 .. width
      PROVE  /\ pixcodes'[x] \in Nat
             /\ Shows(Ncolors, pixcodes'[x], pixels[x], ci, Times(dither_mode))
  <2> DEFINE code == pixcodes[x]
             pixel == pixels[x]
             input == Dithered(x)
             k == Times(dither_mode)
  <2>1. pixcodes'[x] = AddTo(code, IndexOf(Ncolors, nc, is_padded)[ci][input])
    BY <1>1, <1>3
  <2>2. Shows(Ncolors, code, pixel, ci - 1, k)
    BY <1>1 DEF QuantizerInv, RowHeld
  <2>3. k = 2
    BY <1>1 DEF Times
  <2>4. /\ input \in Inputs(is_padded)
        /\ Carries(Limit(input), Half(Ncolors[ci] - 1), pixel[ci], 2 * Half(Ncolors[ci] - 1))
    BY <1>1, DitheredInside DEF Inputs
  <2> HIDE DEF code, pixel, input, k
  <2>5. Carries(Limit(input), Half(Ncolors[ci] - 1), pixel[ci], k * Half(Ncolors[ci] - 1))
    BY <2>3, <2>4
  <2>6. /\ AddTo(code, IndexOf(Ncolors, nc, is_padded)[ci][input]) \in Nat
        /\ Shows(Ncolors, AddTo(code, IndexOf(Ncolors, nc, is_padded)[ci][input]), pixel, ci, k)
    BY <1>3, <2>2, <2>4, <2>5, PixelMapped
  <2>. QED
    BY <2>1, <2>6 DEF pixel, k
<1>5. RowHeld'
  <2>1. pixcodes' \in [1 .. width -> Nat] /\ ci' \in 1 .. nc + 1 /\ ci' - 1 = ci
    BY <1>1, <1>3, <1>4
  <2>. QED
    BY <1>1, <1>2, <1>3, <1>4, <2>1 DEF RowHeld, Maps, nc, width
<1>6. DiffusionHeld'
  BY <1>1 DEF DiffusionHeld
<1>. QED
  BY <1>2, <1>5, <1>6 DEF QuantizerInv

LEMMA DiffusionStart ==
  ASSUME QuantizerInv, StartDiffusion
  PROVE  QuantizerInv'
<1>1. /\ stage = "row" /\ stage' = "diffuse" /\ ci <= nc /\ dither_mode = "fs"
      /\ errorptr' = IF on_odd_row THEN width + 1 ELSE 0
      /\ cur' = 0 /\ belowerr' = 0 /\ bpreverr' = 0
      /\ UNCHANGED setup /\ UNCHANGED tables /\ UNCHANGED pass /\ UNCHANGED <<fserrors, dither_mode, pixels, pixcodes, ci>>
  BY DEF StartDiffusion
<1>2. /\ RequestHeld' /\ RootHeld' /\ SharesHeld' /\ TablesHeld' /\ ErrorsHeld' /\ PassHeld'
      /\ UNCHANGED <<cinfo, Ncolors>> /\ UNCHANGED on_odd_row
  BY <1>1, WithinRow DEF pass
<1>3. /\ pixels \in RowOf(nc, width) /\ pixcodes \in [1 .. width -> Nat] /\ nc \in 1 .. 4 /\ ci \in 1 .. nc
      /\ ci \in 1 .. nc + 1 /\ Divided(Ncolors, nc) /\ width \in Nat
  BY <1>1, InRow, WithTables
<1>4. RowHeld'
  BY <1>1, <1>2, <1>3 DEF RowHeld, Maps, nc, width
<1>5. \A x \in 1 .. width : Shows(Ncolors, pixcodes[x], pixels[x], ci - 1, 2)
  BY <1>1 DEF QuantizerInv, RowHeld, Times
<1>6. \A x \in 1 .. width : ~Done(x)'
  BY <1>1, <1>2, <1>3 DEF Done
<1>7. Half(Ncolors[ci] - 1) \in 1 .. 128
  BY <1>3, DividedHalf
<1>8. errorptr' \in (IF on_odd_row THEN 1 .. width + 1 ELSE 0 .. width)
  BY <1>1, <1>3
<1>9. /\ cur' \in Int /\ Within(cur', 0, 7 * Half(Ncolors[ci] - 1))
      /\ belowerr' \in Int /\ Within(belowerr', 0, Half(Ncolors[ci] - 1))
      /\ bpreverr' \in Int /\ Within(bpreverr', 0, 6 * Half(Ncolors[ci] - 1))
  BY <1>1, <1>7 DEF Within
<1>10. \A x \in 1 .. width : Shows(Ncolors, pixcodes[x], pixels[x], IF Done(x)' THEN ci ELSE ci - 1, 2)
  BY <1>5, <1>6
<1>11. DiffusionHeld'
  BY <1>1, <1>2, <1>8, <1>9, <1>10 DEF DiffusionHeld, nc, width
<1>. QED
  BY <1>2, <1>4, <1>11 DEF QuantizerInv

\* In the middle of a row, what is looked up next is near to its sample, and what
\* is left over is bounded.
LEMMA Diffused ==
  ASSUME QuantizerInv, stage = "diffuse", Column \in 1 .. width
  PROVE  LET h == Half(Ncolors[ci] - 1)
         IN  /\ WithError \in (-255) .. 510
             /\ Corrected \in JSAMPLE /\ Within(Corrected, pixels[Column][ci], h)
             /\ Residue \in Int /\ Within(Residue, 0, h)
<1> DEFINE h == Half(Ncolors[ci] - 1)
           sample == pixels[Column][ci]
           above == fserrors[ci][Column]
<1>1. /\ colorindex = IndexOf(Ncolors, nc, is_padded) /\ is_padded \in BOOLEAN
      /\ sv_colormap = ColormapOf(Ncolors, nc)
      /\ pixels \in RowOf(nc, width) /\ ci \in 1 .. nc + 1 /\ stage \in Maps
      /\ nc \in 1 .. 4 /\ width \in Nat /\ Divided(Ncolors, nc) /\ Block(Ncolors, 0) <= 256
  BY InRow, WithTables
<1>2. /\ ci <= nc /\ dither_mode = "fs" /\ cur \in Int /\ Within(cur, 0, 7 * h)
  BY DEF QuantizerInv, DiffusionHeld
<1>3. ci \in 1 .. nc /\ h \in 1 .. 128
  BY <1>1, <1>2, DividedHalf
<1>4. above \in Int /\ Within(above, 0, 9 * h)
  <2>1. Bounded(fserrors, Ncolors, nc, width)
    BY <1>1, <1>2 DEF QuantizerInv, PassHeld
  <2>2. Column \in 0 .. width + 1
    BY <1>1
  <2>. QED
    BY <1>3, <2>1, <2>2 DEF Bounded
<1>5. sample \in JSAMPLE
  BY <1>1, <1>3 DEF RowOf
<1> DEFINE error == (cur + above + 8) \div 16
<1>6. WithError = sample + error
  BY DEF WithError
<1> HIDE DEF h, sample, above
<1>7. error \in Int /\ Within(error, 0, h)
  BY <1>2, <1>3, <1>4 DEF Within
<1> HIDE DEF error
<1>8. WithError \in (-255) .. 510 /\ WithError \in (-(MAXJSAMPLE + 1)) .. (2 * MAXJSAMPLE) + 1
  BY <1>3, <1>5, <1>6, <1>7 DEF Within, JSAMPLE, MAXJSAMPLE
<1>9. Corrected = Limit(WithError) /\ Corrected \in JSAMPLE
  BY <1>8, RangeLimit DEF Corrected
<1>10. Within(Corrected, sample, h)
  BY <1>3, <1>5, <1>6, <1>7, <1>8, <1>9 DEF Within, Limit, JSAMPLE, MAXJSAMPLE
<1>11. Corrected \in Inputs(is_padded)
  BY <1>9 DEF JSAMPLE, MAXJSAMPLE, Inputs
<1>15. Limit(Corrected) = Corrected
  BY <1>9, LimitKeeps
<1> DEFINE o == output_value(ValueOf(Limit(Corrected), Ncolors[ci] - 1), Ncolors[ci] - 1)
<1>16. /\ o \in Int /\ Within(o, Limit(Corrected), Half(Ncolors[ci] - 1))
       /\ ColormapOf(Ncolors, nc)[ci][IndexOf(Ncolors, nc, is_padded)[ci][Corrected]] = o
  BY <1>1, <1>3, <1>11, LookedUp
<1>12. o \in Int /\ Within(o, Corrected, h) /\ sv_colormap[ci][Entry] = o
  BY <1>1, <1>15, <1>16 DEF Entry, h
<1> HIDE DEF o
<1>13. Residue = Corrected - o
  BY <1>12 DEF Residue
<1>14. Residue \in Int /\ Within(Residue, 0, h)
  BY <1>3, <1>9, <1>12, <1>13 DEF Within, JSAMPLE, MAXJSAMPLE
<1>. QED
  BY <1>8, <1>9, <1>10, <1>14 DEF h, sample

\* Sixteen bits are enough for the errors there are.
LEMMA ErrorFits ==
  ASSUME NEW h \in 1 .. 128, NEW x \in Int, Within(x, 0, 9 * h)
  PROVE  FSERROR(x) = x
<1>1. x + 32768 \in Nat /\ x + 32768 < 65536
  BY DEF Within
<1>2. (x + 32768) % 65536 = x + 32768
  BY <1>1
<1>. QED
  BY <1>2 DEF FSERROR

\* An entry of the row of errors is replaced by one in bounds.
LEMMA BoundKept ==
  ASSUME NEW N, NEW n, Divided(N, n), NEW w \in Nat, NEW errors, Bounded(errors, N, n, w),
         NEW c \in 1 .. n, NEW k \in 0 .. w + 1, NEW x \in Int, Within(x, 0, 9 * Half(N[c] - 1))
  PROVE  Bounded([errors EXCEPT ![c][k] = x], N, n, w)
BY DEF Bounded

LEMMA DiffusionStep ==
  ASSUME QuantizerInv, DiffusePixel
  PROVE  QuantizerInv'
<1> DEFINE h == Half(Ncolors[ci] - 1)
           passed == bpreverr + (3 * Residue)
<1>1. /\ stage = "diffuse" /\ stage' = "diffuse" /\ Column \in 1 .. width
      /\ pixcodes' = [pixcodes EXCEPT ![Column] = AddTo(pixcodes[Column], Entry)]
      /\ fserrors' = [fserrors EXCEPT ![ci][errorptr] = FSERROR(passed)]
      /\ bpreverr' = belowerr + (5 * Residue) /\ belowerr' = Residue /\ cur' = 7 * Residue
      /\ errorptr' = Column
      /\ UNCHANGED setup /\ UNCHANGED tables /\ UNCHANGED pass /\ UNCHANGED <<dither_mode, pixels, ci>>
  BY DEF DiffusePixel, Columns
<1>2. /\ ci <= nc /\ dither_mode = "fs" /\ errorptr \in (IF on_odd_row THEN 1 .. width + 1 ELSE 0 .. width)
      /\ \A x \in 1 .. width : Shows(Ncolors, pixcodes[x], pixels[x], IF Done(x) THEN ci ELSE ci - 1, 2)
      /\ belowerr \in Int /\ Within(belowerr, 0, h) /\ bpreverr \in Int /\ Within(bpreverr, 0, 6 * h)
  BY <1>1 DEF QuantizerInv, DiffusionHeld
<1>3. /\ colorindex = IndexOf(Ncolors, nc, is_padded) /\ is_padded \in BOOLEAN
      /\ pixels \in RowOf(nc, width) /\ pixcodes \in [1 .. width -> Nat] /\ ci \in 1 .. nc + 1
      /\ stage \in Maps /\ nc \in 1 .. 4 /\ width \in Nat /\ Divided(Ncolors, nc) /\ Block(Ncolors, 0) <= 256
      /\ on_odd_row \in BOOLEAN
  BY <1>1, InRow, WithTables DEF QuantizerInv, PassHeld
<1>4. ci \in 1 .. nc /\ h \in 1 .. 128 /\ errorptr \in 0 .. width + 1 /\ errorptr \in Int
  BY <1>2, <1>3, DividedHalf
<1>5. /\ Corrected \in JSAMPLE /\ Within(Corrected, pixels[Column][ci], h)
      /\ Residue \in Int /\ Within(Residue, 0, h)
  BY <1>1, Diffused
<1> HIDE DEF h
<1>6. passed \in Int /\ Within(passed, 0, 9 * h)
  BY <1>2, <1>4, <1>5 DEF Within
<1> HIDE DEF passed
<1>7. Bounded(fserrors', Ncolors, nc, width)
  <2>1. Bounded(fserrors, Ncolors, nc, width)
    BY <1>2, <1>3 DEF QuantizerInv, PassHeld
  <2>2. FSERROR(passed) = passed
    BY <1>4, <1>6, ErrorFits
  <2>3. Within(passed, 0, 9 * Half(Ncolors[ci] - 1))
    BY <1>6 DEF h
  <2>. QED
    BY <1>1, <1>3, <1>4, <1>6, <2>1, <2>2, <2>3, BoundKept
<1>8. /\ RequestHeld' /\ RootHeld' /\ SharesHeld' /\ TablesHeld' /\ ErrorsHeld' /\ PassHeld'
      /\ UNCHANGED <<cinfo, Ncolors>> /\ UNCHANGED on_odd_row
  BY <1>1, <1>7, WithinRow DEF pass
<1>9. Column = (IF on_odd_row THEN errorptr - 1 ELSE errorptr + 1)
  BY <1>4 DEF Column, Dir
<1>10. ~Done(Column) /\ \A x \in 1 .. width : Done(x)' <=> Done(x) \/ x = Column
  BY <1>1, <1>4, <1>8, <1>9 DEF Done
<1>11. /\ AddTo(pixcodes[Column], Entry) \in Nat
       /\ Shows(Ncolors, AddTo(pixcodes[Column], Entry), pixels[Column], ci, 2)
  <2>1. Shows(Ncolors, pixcodes[Column], pixels[Column], ci - 1, 2)
    BY <1>1, <1>2, <1>10
  <2>2. Corrected \in Inputs(is_padded)
    BY <1>5 DEF JSAMPLE, MAXJSAMPLE, Inputs
  <2>3. pixels[Column][ci] \in JSAMPLE
    BY <1>1, <1>3, <1>4 DEF RowOf
  <2> DEFINE code == pixcodes[Column]
             pixel == pixels[Column]
             input == Corrected
  <2>4. input \in JSAMPLE /\ pixel[ci] \in JSAMPLE /\ Within(input, pixel[ci], h)
    BY <1>5, <2>3
  <2>5. Entry = IndexOf(Ncolors, nc, is_padded)[ci][input]
    BY <1>3 DEF Entry
  <2>6. Shows(Ncolors, code, pixel, ci - 1, 2) /\ input \in Inputs(is_padded)
    BY <2>1, <2>2
  <2> HIDE DEF code, pixel, input
  <2>7. Carries(Limit(input), h, pixel[ci], 2 * h)
    <3>1. Limit(input) = input
      BY <2>4, LimitKeeps
    <3>2. Carries(input, h, pixel[ci], 2 * h)
      BY <1>4, <2>4 DEF Carries, Within, JSAMPLE, MAXJSAMPLE
    <3>. QED
      BY <3>1, <3>2
  <2>8. Carries(Limit(input), Half(Ncolors[ci] - 1), pixel[ci], 2 * Half(Ncolors[ci] - 1))
    BY <2>7 DEF h
  <2>9. /\ AddTo(code, IndexOf(Ncolors, nc, is_padded)[ci][input]) \in Nat
        /\ Shows(Ncolors, AddTo(code, IndexOf(Ncolors, nc, is_padded)[ci][input]), pixel, ci, 2)
    BY <1>3, <1>4, <2>6, <2>8, PixelMapped
  <2>. QED
    BY <2>5, <2>9 DEF code, pixel
<1>12. pixcodes' \in [1 .. width -> Nat]
  BY <1>1, <1>3, <1>11
<1>13. \A x \in 1 .. width : Shows(Ncolors, pixcodes'[x], pixels[x], IF Done(x)' THEN ci ELSE ci - 1, 2)
  <2> SUFFICES ASSUME NEW x \in 1 .. width
               PROVE  Shows(Ncolors, pixcodes'[x], pixels[x], IF Done(x)' THEN ci ELSE ci - 1, 2)
    OBVIOUS
  <2>1. CASE x = Column
    BY <1>1, <1>3, <1>10, <1>11, <2>1
  <2>2. CASE x # Column
    BY <1>1, <1>2, <1>3, <1>10, <2>2
  <2>. QED
    BY <2>1, <2>2
<1>14. /\ cur' \in Int /\ Within(cur', 0, 7 * h)
       /\ belowerr' \in Int /\ Within(belowerr', 0, h)
       /\ bpreverr' \in Int /\ Within(bpreverr', 0, 6 * h)
  BY <1>1, <1>2, <1>4, <1>5 DEF Within
<1>15. errorptr' \in (IF on_odd_row THEN 1 .. width + 1 ELSE 0 .. width)
  BY <1>1, <1>3
<1>16. RowHeld'
  BY <1>1, <1>3, <1>8, <1>12 DEF RowHeld, Maps, nc, width
<1>17. DiffusionHeld'
  BY <1>1, <1>2, <1>8, <1>13, <1>14, <1>15 DEF DiffusionHeld, nc, width, h
<1>. QED
  BY <1>8, <1>16, <1>17 DEF QuantizerInv

LEMMA DiffusionEnd ==
  ASSUME QuantizerInv, EndDiffusion
  PROVE  QuantizerInv'
<1> DEFINE h == Half(Ncolors[ci] - 1)
<1>1. /\ stage = "diffuse" /\ stage' = "row" /\ Column \notin 1 .. width
      /\ fserrors' = [fserrors EXCEPT ![ci][errorptr] = FSERROR(bpreverr)]
      /\ ci' = ci + 1
      /\ UNCHANGED setup /\ UNCHANGED tables /\ UNCHANGED pass /\ UNCHANGED <<dither_mode, pixels, pixcodes>>
  BY DEF EndDiffusion, Columns
<1>2. /\ ci <= nc /\ dither_mode = "fs" /\ errorptr \in (IF on_odd_row THEN 1 .. width + 1 ELSE 0 .. width)
      /\ \A x \in 1 .. width : Shows(Ncolors, pixcodes[x], pixels[x], IF Done(x) THEN ci ELSE ci - 1, 2)
      /\ bpreverr \in Int /\ Within(bpreverr, 0, 6 * h)
  BY <1>1 DEF QuantizerInv, DiffusionHeld
<1>3. /\ pixels \in RowOf(nc, width) /\ pixcodes \in [1 .. width -> Nat] /\ ci \in 1 .. nc + 1
      /\ stage \in Maps /\ nc \in 1 .. 4 /\ width \in Nat /\ width >= 1 /\ Divided(Ncolors, nc)
  BY <1>1, InRow, WithTables
<1>4. ci \in 1 .. nc /\ h \in 1 .. 128 /\ errorptr \in 0 .. width + 1 /\ errorptr \in Int
  BY <1>2, <1>3, DividedHalf
<1>5. Bounded(fserrors', Ncolors, nc, width)
  <2>1. Bounded(fserrors, Ncolors, nc, width)
    BY <1>2, <1>3 DEF QuantizerInv, PassHeld
  <2> HIDE DEF h
  <2>2. Within(bpreverr, 0, 9 * h)
    BY <1>2, <1>4 DEF Within
  <2>3. FSERROR(bpreverr) = bpreverr
    BY <1>2, <1>4, <2>2, ErrorFits
  <2>4. Within(bpreverr, 0, 9 * Half(Ncolors[ci] - 1))
    BY <2>2 DEF h
  <2>. QED
    BY <1>1, <1>2, <1>3, <1>4, <2>1, <2>3, <2>4, BoundKept
<1>6. /\ RequestHeld' /\ RootHeld' /\ SharesHeld' /\ TablesHeld' /\ ErrorsHeld' /\ PassHeld'
      /\ UNCHANGED <<cinfo, Ncolors>>
  BY <1>1, <1>5, WithinRow
<1>7. \A x \in 1 .. width : Done(x)
  <2>1. CASE on_odd_row
    <3>1. errorptr \in 1 .. width + 1 /\ errorptr + (-1) \notin 1 .. width
      BY <1>1, <1>2, <2>1 DEF Column, Dir
    <3>2. errorptr = 1
      BY ONLY <3>1, <1>3
    <3>. QED
      BY <2>1, <3>2 DEF Done
  <2>2. CASE ~on_odd_row
    <3>1. errorptr \in 0 .. width /\ errorptr + 1 \notin 1 .. width
      BY <1>1, <1>2, <2>2 DEF Column, Dir
    <3>2. errorptr = width
      BY ONLY <3>1, <1>3
    <3>. QED
      BY <2>2, <3>2 DEF Done
  <2>. QED
    BY <2>1, <2>2
<1>8. \A x \in 1 .. width : Shows(Ncolors, pixcodes[x], pixels[x], ci, Times(dither_mode))
  BY <1>2, <1>7 DEF Times
<1>9. RowHeld'
  <2>1. ci' \in 1 .. nc + 1 /\ ci' - 1 = ci
    BY <1>1, <1>3, <1>4
  <2>. QED
    BY <1>1, <1>3, <1>6, <1>8, <2>1 DEF RowHeld, Maps, nc, width
<1>10. DiffusionHeld'
  BY <1>1 DEF DiffusionHeld
<1>. QED
  BY <1>6, <1>9, <1>10 DEF QuantizerInv

LEMMA RowEnd ==
  ASSUME QuantizerInv, EndRow
  PROVE  QuantizerInv'
<1>1. /\ stage = "row" /\ stage' = "pass" /\ ci > nc
      /\ (row_index' = (row_index + 1) % 16 \/ row_index' = row_index)
      /\ (on_odd_row' = ~on_odd_row \/ on_odd_row' = on_odd_row)
      /\ UNCHANGED setup /\ UNCHANGED tables /\ UNCHANGED <<fserrors, dither_mode, pixels, pixcodes>>
  BY DEF EndRow, ODITHER_SIZE
<1>2. stage \in HasTables /\ stage \in Divides /\ stage' \in HasTables /\ stage' \in Maps /\ stage \in Maps
  BY <1>1 DEF HasTables, Divides, Maps
<1>3. RequestHeld' /\ RootHeld' /\ SharesHeld'
  BY <1>1, <1>2, SharesKept
<1>4. UNCHANGED <<cinfo, Ncolors>>
  BY <1>1 DEF setup
<1>5. TablesHeld' /\ ErrorsHeld'
  BY <1>1, <1>2, <1>4 DEF QuantizerInv, TablesHeld, ErrorsHeld, tables, nc, width
<1>6. row_index' \in 0 .. 15
  <2>1. row_index \in 0 .. 15
    BY DEF QuantizerInv, PassHeld
  <2>. QED
    BY <1>1, <2>1
<1>7. on_odd_row' \in BOOLEAN
  <2>1. on_odd_row \in BOOLEAN
    BY DEF QuantizerInv, PassHeld
  <2>. QED
    BY <1>1, <2>1
<1>8. PassHeld'
  BY <1>1, <1>2, <1>4, <1>6, <1>7 DEF QuantizerInv, PassHeld, tables, nc, width
<1>9. RowHeld'
  <2>1. nc \in 1 .. 4 /\ ci \in 1 .. nc + 1 /\ pixels \in RowOf(nc, width)
    BY <1>1, InRow, WithTables
  <2>2. ci - 1 = nc
    BY <1>1, <2>1
  <2>3. \A x \in 1 .. width : Shows(Ncolors, pixcodes[x], pixels[x], nc, Times(dither_mode))
    BY <1>1, <2>2 DEF QuantizerInv, RowHeld
  <2>. QED
    BY <1>1, <1>2, <1>4, <2>1, <2>3 DEF RowHeld, nc, width
<1>10. DiffusionHeld'
  BY <1>1 DEF DiffusionHeld
<1>. QED
  BY <1>3, <1>5, <1>8, <1>9, <1>10 DEF QuantizerInv

LEMMA QuantizerStep == QuantizerInv /\ [QuantizerNext]_quantizer_vars => QuantizerInv'
<1> SUFFICES ASSUME QuantizerInv, [QuantizerNext]_quantizer_vars
             PROVE  QuantizerInv'
  OBVIOUS
<1>1. CASE UNCHANGED quantizer_vars
  BY <1>1
  DEF quantizer_vars, setup, tables, pass, diffusion, QuantizerInv, RequestHeld, RootHeld, SharesHeld, TablesHeld, ErrorsHeld,
      PassHeld, RowHeld, DiffusionHeld, Done, nc, width
<1>2. CASE QuantizerNext
  BY <1>2, RequestStep, RootStep, EqualStep, IncrementStep, RoundStep, TablesStep, PassStep, RowStart, MapStep, DitherStep,
     DiffusionStart, DiffusionStep, DiffusionEnd, RowEnd
  DEF QuantizerNext, SetUp, MapRow
<1>. QED
  BY <1>1, <1>2

\* The invariant says what the quantizer promises.
LEMMA QuantizerPromise == QuantizerInv => QuantizerSafe
<1> SUFFICES ASSUME QuantizerInv PROVE QuantizerSafe
  OBVIOUS
<1>1. \A c \in 1 .. nc : HalfStep(c) = Half(Ncolors[c] - 1)
  BY DEF HalfStep, Half
<1>2. RowShowsPixels
  <2> SUFFICES ASSUME stage = "pass", pixcodes # <<>>, NEW x \in 1 .. width
               PROVE  /\ pixcodes[x] \in 0 .. total_colors - 1
                      /\ \A c \in 1 .. nc : Within(sv_colormap[c][pixcodes[x]], pixels[x][c], Reach(c))
    BY DEF RowShowsPixels, Columns, Components
  <2>1. stage \in HasTables
    BY DEF HasTables
  <2>2. Divided(Ncolors, nc) /\ total_colors = Block(Ncolors, 0) /\ sv_colormap = ColormapOf(Ncolors, nc)
    BY <2>1, WithTables DEF QuantizerInv, TablesHeld
  <2>3. Shows(Ncolors, pixcodes[x], pixels[x], nc, Times(dither_mode))
    BY DEF QuantizerInv, RowHeld
  <2> DEFINE code == pixcodes[x]
             pixel == pixels[x]
             k == Times(dither_mode)
  <2> HIDE DEF code, pixel, k
  <2>4. /\ code \in 0 .. Block(Ncolors, 0) - 1
        /\ \A c \in 1 .. nc : Within(output_value(DigitAt(Ncolors, c, code), Ncolors[c] - 1), pixel[c], k * Half(Ncolors[c] - 1))
    BY <2>2, <2>3, ShownIsNear DEF code, pixel, k
  <2>5. \A c \in 1 .. nc : sv_colormap[c][code] = output_value(DigitAt(Ncolors, c, code), Ncolors[c] - 1)
    BY <2>2, <2>4 DEF ColormapOf
  <2>6. \A c \in 1 .. nc : Reach(c) = k * Half(Ncolors[c] - 1)
    <3>1. CASE dither_mode = "none"
      <4>1. k = 1 /\ \A c \in 1 .. nc : Reach(c) = Half(Ncolors[c] - 1)
        BY <1>1, <3>1 DEF k, Times, Reach
      <4>2. \A c \in 1 .. nc : Half(Ncolors[c] - 1) \in 1 .. 128
        BY <2>2, DividedHalf
      <4>3. \A c \in 1 .. nc : 1 * Half(Ncolors[c] - 1) = Half(Ncolors[c] - 1)
        <5> SUFFICES ASSUME NEW c \in 1 .. nc PROVE 1 * Half(Ncolors[c] - 1) = Half(Ncolors[c] - 1)
          OBVIOUS
        <5> DEFINE h == Half(Ncolors[c] - 1)
        <5>1. h \in 1 .. 128
          BY <4>2
        <5> HIDE DEF h
        <5>2. 1 * h = h
          BY <5>1
        <5>. QED
          BY <5>2 DEF h
      <4>. QED
        BY <4>1, <4>3
    <3>2. CASE dither_mode # "none"
      BY <1>1, <3>2 DEF k, Times, Reach
    <3>. QED
      BY <3>1, <3>2
  <2>. QED
    BY <2>2, <2>4, <2>5, <2>6 DEF code, pixel
<1>3. LookupsInside
  <2>1. stage = "diffuse" /\ Column \in Columns => WithError \in (-MAXJSAMPLE) .. 2 * MAXJSAMPLE
    BY Diffused DEF Columns, MAXJSAMPLE
  <2>2. ASSUME stage = "row", ci <= nc, dither_mode = "ordered", NEW x \in 1 .. width
        PROVE  Dithered(x) \in DOMAIN colorindex[ci]
    <3>1. is_padded /\ Dithered(x) \in (-255) .. 510
      BY <2>2, DitheredInside
    <3>2. colorindex = IndexOf(Ncolors, nc, is_padded) /\ ci \in 1 .. nc + 1 /\ nc \in 1 .. 4
      BY <2>2, InRow, WithTables
    <3>3. ci \in 1 .. nc
      BY <2>2, <3>2
    <3>4. DOMAIN colorindex[ci] = (-255) .. 510
      BY <3>1, <3>2, <3>3 DEF IndexOf, Inputs
    <3>. QED
      BY <3>1, <3>4
  <2>. QED
    BY <2>1, <2>2 DEF LookupsInside, Columns
<1>4. ErrorsBounded
  BY <1>1 DEF QuantizerInv, ErrorsHeld, ErrorsBounded, Bounded, Components
<1>5. SharesFit
  <2> SUFFICES ASSUME stage \in Divides
               PROVE  /\ total_colors <= cinfo.desired
                      /\ \A c \in 1 .. nc : Ncolors[c] >= 2
                      /\ Blksize(nc) = 1
    BY DEF SharesFit, Divides, Components
  <2>1. Divided(Ncolors, nc) /\ total_colors = Block(Ncolors, 0) /\ total_colors <= cinfo.desired
    BY DEF QuantizerInv, SharesHeld
  <2>2. nc \in 0 .. nc /\ Block(Ncolors, nc) = 1 /\ \A c \in 1 .. nc : Ncolors[c] >= 2
    BY <2>1, Blocks DEF Divided
  <2>. QED
    BY <2>1, <2>2, BlockSizes
<1>. QED
  BY <1>2, <1>3, <1>4, <1>5 DEF QuantizerSafe

\* For all requests, pixels and passes: a row that is mapped shows its pixels as near as
\* the colours allow, errors are bounded, lookups stay in their tables, and the colours are
\* no more than were asked for (jquant1.c).
THEOREM QuantizerShows == QuantizerSpec => []QuantizerSafe
<1>1. QuantizerSpec => []QuantizerInv
  BY QuantizerStart, QuantizerStep, PTL DEF QuantizerSpec
<1>2. QuantizerInv => QuantizerSafe
  BY QuantizerPromise
<1>. QED
  BY <1>1, <1>2, PTL

(***************************************************************************)
(* Powers of two, halves and bits                                          *)
(***************************************************************************)

\* A set with one element more has twice as many subsets.
LEMMA Doubled ==
  ASSUME NEW n \in Nat
  PROVE  Cardinality(SUBSET (1 .. n + 1)) = Cardinality(SUBSET (1 .. n)) + Cardinality(SUBSET (1 .. n))
<1> DEFINE Old == SUBSET (1 .. n)
           New == {s \union {n + 1} : s \in Old}
           f == [s \in Old |-> s \union {n + 1}]
<1>1. IsFiniteSet(Old) /\ Cardinality(Old) \in Nat
  <2>1. IsFiniteSet(1 .. n)
    BY FS_Interval
  <2>2. IsFiniteSet(Old)
    BY <2>1, FS_SUBSET
  <2> QED
    BY <2>2, FS_CardinalityType
<1>2. ExistsBijection(Old, New)
  <2>1. f \in [Old -> New] /\ \A t \in New : \E s \in Old : f[s] = t
    OBVIOUS
  <2>2. ASSUME NEW s \in Old, NEW t \in Old, f[s] = f[t] PROVE s = t
    <3>1. n + 1 \notin s /\ n + 1 \notin t /\ s \union {n + 1} = t \union {n + 1}
      BY <2>2
    <3> QED
      BY <3>1
  <2>3. f \in Bijection(Old, New)
    BY <2>1, <2>2 DEF Bijection, Injection, Surjection, IsInjective
  <2> QED
    BY <2>3 DEF ExistsBijection
<1>3. IsFiniteSet(New) /\ Cardinality(New) = Cardinality(Old)
  BY <1>1, <1>2, FS_Bijection
<1>4. SUBSET (1 .. n + 1) = Old \union New
  <2>1. ASSUME NEW t \in SUBSET (1 .. n + 1) PROVE t \in Old \union New
    <3>1. CASE n + 1 \in t
      <4>1. t \ {n + 1} \in Old /\ t = (t \ {n + 1}) \union {n + 1}
        BY <3>1
      <4> QED
        BY <4>1
    <3>2. CASE n + 1 \notin t
      BY <3>2
    <3> QED
      BY <3>1, <3>2
  <2>2. ASSUME NEW t \in Old \union New PROVE t \in SUBSET (1 .. n + 1)
    BY <2>2
  <2> QED
    BY <2>1, <2>2
<1>5. Old \cap New = {}
  OBVIOUS
<1>6. Cardinality({}) = 0
  BY FS_EmptySet
<1>7. Cardinality(Old \union New) = Cardinality(Old) + Cardinality(New) - Cardinality(Old \cap New)
  <2> HIDE DEF Old, New
  <2> QED
    BY <1>1, <1>3, FS_Union
<1>8. Cardinality(SUBSET (1 .. n + 1)) = Cardinality(Old) + Cardinality(Old)
  <2>1. Cardinality(SUBSET (1 .. n + 1)) = Cardinality(Old \union New)
    BY <1>4
  <2>2. Cardinality(Old \cap New) = 0
    BY <1>5, <1>6
  <2> HIDE DEF Old, New
  <2> QED
    BY <1>1, <1>3, <1>7, <2>1, <2>2
<1> QED
  BY <1>8

\* The provers know powers of numbers only.
LEMMA PowerStep ==
  ASSUME NEW n \in Nat
  PROVE  2 ^ n \in Nat \ {0} /\ 2 ^ (n + 1) = 2 * 2 ^ n
<1> DEFINE Subsets(k) == Cardinality(SUBSET (1 .. k))
<1>1. ASSUME NEW k \in Nat PROVE 2 ^ k = Subsets(k) /\ Subsets(k) \in Nat \ {0}
  <2>1. IsFiniteSet(1 .. k) /\ Cardinality(1 .. k) = k
    BY FS_Interval
  <2>2. IsFiniteSet(SUBSET (1 .. k)) /\ Subsets(k) = 2 ^ k
    BY <2>1, FS_SUBSET
  <2>3. Subsets(k) \in Nat /\ Subsets(k) # 0
    BY <2>2, FS_CardinalityType, FS_EmptySet
  <2> QED
    BY <2>2, <2>3
<1>2. Subsets(n + 1) = Subsets(n) + Subsets(n)
  BY Doubled
<1>3. 2 ^ n = Subsets(n) /\ Subsets(n) \in Nat \ {0} /\ 2 ^ (n + 1) = Subsets(n + 1)
  BY <1>1
<1> HIDE DEF Subsets
<1> QED
  BY <1>2, <1>3

LEMMA PowerZero == 2 ^ 0 = 1
<1>1. IsFiniteSet({}) /\ Cardinality({}) = 0
  BY FS_EmptySet
<1>2. Cardinality(SUBSET {}) = 2 ^ 0
  BY <1>1, FS_SUBSET
<1>3. SUBSET {} = {{}}
  OBVIOUS
<1> QED
  BY <1>2, <1>3, FS_Singleton

LEMMA Spread ==
  ASSUME NEW p \in Nat, NEW h \in Nat, NEW b \in Nat
  PROVE  p * (2 * h + b) = (2 * p) * h + p * b
OBVIOUS

\* Halving what was divided by a power of two.
LEMMA Halved ==
  ASSUME NEW x \in Nat, NEW k \in Nat
  PROVE  /\ x \div 2 ^ k \in Nat /\ x \div 2 ^ (k + 1) \in Nat
         /\ (x \div 2 ^ k) % 2 \in 0 .. 1
         /\ x \div 2 ^ k = 2 * (x \div 2 ^ (k + 1)) + ((x \div 2 ^ k) % 2)
<1> DEFINE P == 2 ^ k
           q == x \div P
<1>1. P \in Nat \ {0} /\ 2 ^ (k + 1) = 2 * P
  BY PowerStep
<1>0. P \in Nat /\ P > 0
  BY <1>1
<1> HIDE DEF P
<1>2. q \in Nat /\ x % P \in 0 .. P - 1 /\ x = (P * q) + (x % P)
  BY <1>0, DivMod
<1> DEFINE h == q \div 2
           b == q % 2
<1>3. h \in Nat /\ b \in 0 .. 1 /\ q = 2 * h + b
  BY <1>2
<1> HIDE DEF q, h, b
<1> DEFINE c == 2 * P
           r == (P * b) + (x % P)
<1>4. P * b = IF b = 0 THEN 0 ELSE P
  BY <1>1, <1>3
<1>5. c \in Nat /\ c > 0 /\ r \in 0 .. c - 1
  BY <1>1, <1>2, <1>4
<1>6. x = c * h + r
  <2>1. P * (2 * h + b) = c * h + P * b
    BY <1>0, <1>3, Spread
  <2> QED
    BY <1>1, <1>2, <1>3, <2>1
<1>7. (c * h + r) \div c = h
  <2> HIDE DEF c, r
  <2> QED
    BY <1>3, <1>5, DivModUnique
<1>8. x \div (2 * P) = h
  BY <1>6, <1>7
<1> QED
  BY <1>1, <1>2, <1>3, <1>8 DEF P, q, h, b

\* The bits of a number, from the highest.
LEMMA BitFacts ==
  ASSUME NEW x \in Nat, NEW l \in Nat
  PROVE  /\ BitsOf(x, l) \in Seq(0 .. 1) /\ Len(BitsOf(x, l)) = l /\ DOMAIN BitsOf(x, l) = 1 .. l
         /\ \A i \in 1 .. l : BitsOf(x, l)[i] = (x \div 2 ^ (l - i)) % 2
<1>1. \A i \in 1 .. l : l - i \in Nat /\ (x \div 2 ^ (l - i)) % 2 \in 0 .. 1
  BY Halved
<1>2. BitsOf(x, l) \in [1 .. l -> 0 .. 1]
  BY <1>1 DEF BitsOf
<1>3. BitsOf(x, l) \in Seq(0 .. 1)
  BY <1>2, SeqDef
<1> QED
  BY <1>2, <1>3, LenProperties DEF BitsOf

\* What is less than a power of two has nothing before its bits.
LEMMA NoneBefore ==
  ASSUME NEW x \in Nat, NEW l \in Nat, x < 2 ^ l
  PROVE  x \div 2 ^ l = 0
<1> DEFINE P == 2 ^ l
<1>1. P \in Nat /\ P > 0 /\ x < P
  BY PowerStep
<1> HIDE DEF P
<1>2. x \div P = 0
  BY <1>1
<1> QED
  BY <1>2 DEF P

LEMMA WholeNumber == ASSUME NEW x \in Nat PROVE x \div 2 ^ 0 = x
  BY PowerZero

\* A number whose bits start those of another is the other one without its last bits.
LEMMA PrefixOfBits ==
  ASSUME NEW v \in Nat, NEW l \in Nat, v < 2 ^ l, NEW w \in Nat, NEW m \in Nat, w < 2 ^ m,
         IsPrefix(BitsOf(v, l), BitsOf(w, m))
  PROVE  l <= m /\ v = w \div 2 ^ (m - l)
<1> DEFINE a == BitsOf(v, l)
           b == BitsOf(w, m)
           Good == {i \in Nat : i <= l => v \div 2 ^ (l - i) = w \div 2 ^ (m - i)}
<1>1. /\ a \in Seq(0 .. 1) /\ Len(a) = l /\ b \in Seq(0 .. 1) /\ Len(b) = m
      /\ \A i \in 1 .. l : a[i] = (v \div 2 ^ (l - i)) % 2
      /\ \A i \in 1 .. m : b[i] = (w \div 2 ^ (m - i)) % 2
  BY BitFacts
<1>2. l <= m /\ SubSeq(a, 1, l) = SubSeq(b, 1, l)
  BY <1>1 DEF IsPrefix
<1> HIDE DEF a, b
<1>3. \A i \in 1 .. l : a[i] = b[i]
  <2> TAKE i \in 1 .. l
  <2>1. SubSeq(a, 1, l)[i] = a[i] /\ SubSeq(b, 1, l)[i] = b[i]
    BY <1>1, <1>2
  <2> QED
    BY <1>2, <2>1
<1>4. 0 \in Good
  BY NoneBefore
<1>5. ASSUME NEW i \in Nat, i \in Good PROVE i + 1 \in Good
  <2> SUFFICES ASSUME i + 1 <= l PROVE v \div 2 ^ (l - (i + 1)) = w \div 2 ^ (m - (i + 1))
    OBVIOUS
  <2> DEFINE j == l - (i + 1)
             k == m - (i + 1)
  <2>1. j \in Nat /\ k \in Nat /\ l - i = j + 1 /\ m - i = k + 1 /\ i + 1 \in 1 .. l /\ i + 1 \in 1 .. m
    BY <1>2
  <2>2. (v \div 2 ^ j) % 2 = (w \div 2 ^ k) % 2
    BY <1>1, <1>3, <2>1
  <2>3. v \div 2 ^ (j + 1) = w \div 2 ^ (k + 1)
    BY <1>5, <2>1
  <2> HIDE DEF j, k
  <2>4. /\ v \div 2 ^ j = 2 * (v \div 2 ^ (j + 1)) + ((v \div 2 ^ j) % 2)
        /\ w \div 2 ^ k = 2 * (w \div 2 ^ (k + 1)) + ((w \div 2 ^ k) % 2)
    BY <2>1, Halved
  <2>5. v \div 2 ^ j = w \div 2 ^ k
    BY <2>2, <2>3, <2>4
  <2> QED
    BY <2>5 DEF j, k
<1>6. l \in Good
  <2> HIDE DEF Good
  <2> QED
    BY <1>4, <1>5, NumberInduction
<1>7. v \div 2 ^ 0 = w \div 2 ^ (m - l)
  <2>1. v \div 2 ^ (l - l) = w \div 2 ^ (m - l) /\ l - l = 0
    BY <1>6
  <2> QED
    BY <2>1
<1> QED
  BY <1>2, <1>7, WholeNumber

\* Only the greatest number has no bit that is zero.
LEMMA OnesAreGreatest ==
  ASSUME NEW v \in Nat, NEW l \in Nat, v < 2 ^ l, \A i \in 1 .. l : BitsOf(v, l)[i] # 0
  PROVE  v = 2 ^ l - 1
<1> DEFINE Good == {i \in Nat : i <= l => v \div 2 ^ (l - i) = 2 ^ i - 1}
<1>1. 0 \in Good
  BY NoneBefore, PowerZero
<1>2. ASSUME NEW i \in Nat, i \in Good PROVE i + 1 \in Good
  <2> SUFFICES ASSUME i + 1 <= l PROVE v \div 2 ^ (l - (i + 1)) = 2 ^ (i + 1) - 1
    OBVIOUS
  <2> DEFINE j == l - (i + 1)
  <2>1. j \in Nat /\ l - i = j + 1 /\ i + 1 \in 1 .. l
    OBVIOUS
  <2>2. (v \div 2 ^ j) % 2 # 0
    BY <2>1, BitFacts
  <2>3. v \div 2 ^ (j + 1) = 2 ^ i - 1
    BY <1>2, <2>1
  <2> HIDE DEF j
  <2>4. v \div 2 ^ j = 2 * (v \div 2 ^ (j + 1)) + ((v \div 2 ^ j) % 2) /\ (v \div 2 ^ j) % 2 \in 0 .. 1
    BY <2>1, Halved
  <2>5. 2 ^ i \in Nat /\ 2 ^ (i + 1) = 2 * 2 ^ i
    BY PowerStep
  <2>6. v \div 2 ^ j = 2 ^ (i + 1) - 1
    BY <2>2, <2>3, <2>4, <2>5
  <2> QED
    BY <2>6 DEF j
<1>3. l \in Good
  <2> HIDE DEF Good
  <2> QED
    BY <1>1, <1>2, NumberInduction
<1>4. v \div 2 ^ 0 = 2 ^ l - 1
  <2>1. v \div 2 ^ (l - l) = 2 ^ l - 1 /\ l - l = 0
    BY <1>3
  <2> QED
    BY <2>1
<1> QED
  BY <1>4, WholeNumber

(***************************************************************************)
(* The codes of a table                                                    *)
(***************************************************************************)

Bits == [1 .. MaxLength -> Nat]

LEMMA FirstCodesFacts ==
  ASSUME NEW htbl, htbl.bits \in Bits
  PROVE  /\ FirstCodes(htbl) \in [1 .. MaxLength -> Nat]
         /\ FirstCodes(htbl)[1] = 0
         /\ \A l \in 2 .. MaxLength : FirstCodes(htbl)[l] = 2 * (FirstCodes(htbl)[l - 1] + htbl.bits[l - 1])
<1> DEFINE step == [l \in 1 .. MaxLength |-> [v \in Nat |-> IF l = 1 THEN 0 ELSE 2 * (v + htbl.bits[l - 1])]]
           Eq(f) == f = [l \in 1 .. MaxLength |-> IF l = 1 THEN 0 ELSE 2 * (f[l - 1] + htbl.bits[l - 1])]
<1>1. step \in [1 .. MaxLength -> [Nat -> Nat]]
  BY DEF MaxLength, Bits
<1>2. PICK f \in [0 .. MaxLength -> Nat] : \A l \in 1 .. MaxLength : f[l] = step[l][f[l - 1]]
  <2> DEFINE N == Nat
             zero == 0
  <2>1. MaxLength \in Nat /\ zero \in N /\ step \in [1 .. MaxLength -> [N -> N]]
    BY <1>1 DEF MaxLength
  <2> HIDE DEF step, N, zero
  <2>2. \E f \in [0 .. MaxLength -> N] : f[0] = zero /\ \A l \in 1 .. MaxLength : f[l] = step[l][f[l - 1]]
    BY <2>1, Recursion
  <2> QED
    BY <2>2 DEF N
<1> DEFINE g == [l \in 1 .. MaxLength |-> f[l]]
<1>3. Eq(g)
  <2>1. \A l \in 1 .. MaxLength : f[l - 1] \in Nat /\ f[l] = IF l = 1 THEN 0 ELSE 2 * (f[l - 1] + htbl.bits[l - 1])
    BY <1>2 DEF MaxLength
  <2>2. \A l \in 1 .. MaxLength : l # 1 => l - 1 \in 1 .. MaxLength /\ g[l - 1] = f[l - 1]
    BY DEF MaxLength
  <2>3. \A l \in 1 .. MaxLength : g[l] = IF l = 1 THEN 0 ELSE 2 * (g[l - 1] + htbl.bits[l - 1])
    BY <2>1, <2>2
  <2> QED
    BY <2>3
<1>4. FirstCodes(htbl) = CHOOSE f_1 : Eq(f_1)
  BY DEF FirstCodes
<1> DEFINE h == FirstCodes(htbl)
<1>5. Eq(h)
  <2> HIDE DEF Eq
  <2> QED
    BY <1>3, <1>4
<1> HIDE DEF h
<1>6. h[1] = 0 /\ \A l \in 2 .. MaxLength : h[l] = 2 * (h[l - 1] + htbl.bits[l - 1])
  BY <1>5 DEF MaxLength
<1> DEFINE Good == {n \in Nat : n + 1 \in 1 .. MaxLength => h[n + 1] \in Nat}
<1>7. \A n \in Nat : n \in Good
  <2>1. 0 \in Good
    BY <1>6 DEF MaxLength
  <2>2. ASSUME NEW n \in Nat, n \in Good PROVE n + 1 \in Good
    <3> SUFFICES ASSUME n + 2 \in 2 .. MaxLength PROVE h[n + 2] \in Nat
      BY DEF MaxLength
    <3>1. h[n + 2] = 2 * (h[n + 1] + htbl.bits[n + 1]) /\ h[n + 1] \in Nat /\ htbl.bits[n + 1] \in Nat
      BY <1>6, <2>2 DEF MaxLength, Bits
    <3> QED
      BY <3>1
  <2> HIDE DEF Good
  <2> QED
    BY <2>1, <2>2, NumberInduction
<1>8. \A l \in 1 .. MaxLength : h[l] \in Nat
  <2> TAKE l \in 1 .. MaxLength
  <2>1. l - 1 \in Nat /\ (l - 1) + 1 = l
    BY DEF MaxLength
  <2>2. l - 1 \in Good
    BY <1>7, <2>1
  <2> QED
    BY <2>1, <2>2
<1> QED
  BY <1>5, <1>6, <1>8 DEF h

\* The place behind the last code of each length.
LEMMA FirstPlacesFacts ==
  ASSUME NEW htbl, htbl.bits \in Bits
  PROVE  /\ FirstPlaces(htbl) \in [1 .. MaxLength -> Nat]
         /\ FirstPlaces(htbl)[1] = 1
         /\ \A l \in 2 .. MaxLength : FirstPlaces(htbl)[l] = FirstPlaces(htbl)[l - 1] + htbl.bits[l - 1]
<1> DEFINE step == [l \in 1 .. MaxLength |-> [v \in Nat |-> IF l = 1 THEN 1 ELSE v + htbl.bits[l - 1]]]
           Eq(f) == f = [l \in 1 .. MaxLength |-> IF l = 1 THEN 1 ELSE f[l - 1] + htbl.bits[l - 1]]
<1>1. step \in [1 .. MaxLength -> [Nat -> Nat]]
  BY DEF MaxLength, Bits
<1>2. PICK f \in [0 .. MaxLength -> Nat] : \A l \in 1 .. MaxLength : f[l] = step[l][f[l - 1]]
  <2> DEFINE N == Nat
             zero == 0
  <2>1. MaxLength \in Nat /\ zero \in N /\ step \in [1 .. MaxLength -> [N -> N]]
    BY <1>1 DEF MaxLength
  <2> HIDE DEF step, N, zero
  <2>2. \E f \in [0 .. MaxLength -> N] : f[0] = zero /\ \A l \in 1 .. MaxLength : f[l] = step[l][f[l - 1]]
    BY <2>1, Recursion
  <2> QED
    BY <2>2 DEF N
<1> DEFINE g == [l \in 1 .. MaxLength |-> f[l]]
<1>3. Eq(g)
  <2>1. \A l \in 1 .. MaxLength : f[l - 1] \in Nat /\ f[l] = IF l = 1 THEN 1 ELSE f[l - 1] + htbl.bits[l - 1]
    BY <1>2 DEF MaxLength
  <2>2. \A l \in 1 .. MaxLength : l # 1 => l - 1 \in 1 .. MaxLength /\ g[l - 1] = f[l - 1]
    BY DEF MaxLength
  <2>3. \A l \in 1 .. MaxLength : g[l] = IF l = 1 THEN 1 ELSE g[l - 1] + htbl.bits[l - 1]
    BY <2>1, <2>2
  <2> QED
    BY <2>3
<1>4. FirstPlaces(htbl) = CHOOSE f_1 : Eq(f_1)
  BY DEF FirstPlaces
<1> DEFINE h == FirstPlaces(htbl)
<1>5. Eq(h)
  <2> HIDE DEF Eq
  <2> QED
    BY <1>3, <1>4
<1> HIDE DEF h
<1>6. h[1] = 1 /\ \A l \in 2 .. MaxLength : h[l] = h[l - 1] + htbl.bits[l - 1]
  BY <1>5 DEF MaxLength
<1> DEFINE Good == {n \in Nat : n + 1 \in 1 .. MaxLength => h[n + 1] \in Nat}
<1>7. \A n \in Nat : n \in Good
  <2>1. 0 \in Good
    BY <1>6 DEF MaxLength
  <2>2. ASSUME NEW n \in Nat, n \in Good PROVE n + 1 \in Good
    <3> SUFFICES ASSUME n + 2 \in 2 .. MaxLength PROVE h[n + 2] \in Nat
      BY DEF MaxLength
    <3>1. h[n + 2] = h[n + 1] + htbl.bits[n + 1] /\ h[n + 1] \in Nat /\ htbl.bits[n + 1] \in Nat
      BY <1>6, <2>2 DEF MaxLength, Bits
    <3> QED
      BY <3>1
  <2> HIDE DEF Good
  <2> QED
    BY <2>1, <2>2, NumberInduction
<1>8. \A l \in 1 .. MaxLength : h[l] \in Nat
  <2> TAKE l \in 1 .. MaxLength
  <2>1. l - 1 \in Nat /\ (l - 1) + 1 = l
    BY DEF MaxLength
  <2>2. l - 1 \in Good
    BY <1>7, <2>1
  <2> QED
    BY <2>1, <2>2
<1> QED
  BY <1>5, <1>6, <1>8 DEF h

\* Where the codes of length l lie, and behind them those of all greater lengths.
LEMMA PlacesInOrder ==
  ASSUME NEW htbl, htbl.bits \in Bits, NEW l \in 1 .. MaxLength, NEW m \in 1 .. MaxLength, l < m
  PROVE  /\ FirstPlaces(htbl)[l] \in Nat /\ FirstPlaces(htbl)[m] \in Nat /\ htbl.bits[l] \in Nat
         /\ FirstPlaces(htbl)[l] + htbl.bits[l] <= FirstPlaces(htbl)[m]
<1> DEFINE h == FirstPlaces(htbl)
           b == htbl.bits
           Good == {n \in Nat : l + 1 + n <= MaxLength => h[l] + b[l] <= h[l + 1 + n]}
<1>1. /\ \A k \in 1 .. MaxLength : h[k] \in Nat /\ b[k] \in Nat
      /\ \A k \in 2 .. MaxLength : h[k] = h[k - 1] + b[k - 1]
  BY FirstPlacesFacts DEF Bits
<1> HIDE DEF h, b
<1>2. 0 \in Good
  BY <1>1 DEF MaxLength
<1>3. ASSUME NEW n \in Nat, n \in Good PROVE n + 1 \in Good
  <2> SUFFICES ASSUME l + 2 + n <= MaxLength PROVE h[l] + b[l] <= h[l + 2 + n]
    BY DEF MaxLength
  <2> DEFINE k == l + 2 + n
  <2>1. k \in 2 .. MaxLength /\ k - 1 \in 1 .. MaxLength /\ k - 1 = l + 1 + n /\ l + 1 + n <= MaxLength
    BY DEF MaxLength
  <2>2. h[l] + b[l] <= h[l + 1 + n]
    BY <1>3, <2>1
  <2> HIDE DEF k
  <2>3. h[k] = h[k - 1] + b[k - 1] /\ h[k - 1] \in Nat /\ b[k - 1] \in Nat /\ h[l] \in Nat /\ b[l] \in Nat
    BY <1>1, <2>1
  <2>4. h[l] + b[l] <= h[k]
    BY <2>1, <2>2, <2>3
  <2> QED
    BY <2>4 DEF k
<1>4. m - (l + 1) \in Good
  <2>1. m - (l + 1) \in Nat
    OBVIOUS
  <2> HIDE DEF Good
  <2> QED
    BY <1>2, <1>3, <2>1, NumberInduction
<1>5. l + 1 + (m - (l + 1)) = m
  OBVIOUS
<1> QED
  BY <1>1, <1>4, <1>5 DEF h, b, MaxLength

\* The codes of length l, seen as numbers, are before every code of a greater length m.
LEMMA CodesInOrder ==
  ASSUME NEW htbl, htbl.bits \in Bits, NEW l \in 1 .. MaxLength, NEW m \in 1 .. MaxLength, l < m
  PROVE  2 ^ (m - l) * (FirstCodes(htbl)[l] + htbl.bits[l]) <= FirstCodes(htbl)[m]
<1> DEFINE h == FirstCodes(htbl)
           b == htbl.bits
           e == h[l] + b[l]
           Good == {n \in Nat : l + 1 + n <= MaxLength => 2 ^ (n + 1) * e <= h[l + 1 + n]}
<1>1. /\ \A k \in 1 .. MaxLength : h[k] \in Nat /\ b[k] \in Nat
      /\ \A k \in 2 .. MaxLength : h[k] = 2 * (h[k - 1] + b[k - 1])
  BY FirstCodesFacts DEF Bits
<1>2. e \in Nat
  BY <1>1
<1> HIDE DEF h, b
<1>3. 0 \in Good
  <2>1. 2 ^ 1 = 2
    BY PowerZero, PowerStep
  <2>2. l + 1 <= MaxLength => h[l + 1] = 2 * e
    BY <1>1 DEF MaxLength
  <2> HIDE DEF e
  <2> QED
    BY <1>2, <2>1, <2>2
<1>4. ASSUME NEW n \in Nat, n \in Good PROVE n + 1 \in Good
  <2> SUFFICES ASSUME l + 2 + n <= MaxLength PROVE 2 ^ (n + 2) * e <= h[l + 2 + n]
    BY DEF MaxLength
  <2> DEFINE k == l + 2 + n
             P == 2 ^ (n + 1)
  <2>1. k \in 2 .. MaxLength /\ k - 1 \in 1 .. MaxLength /\ k - 1 = l + 1 + n /\ l + 1 + n <= MaxLength
    BY DEF MaxLength
  <2>2. P * e <= h[l + 1 + n]
    BY <1>4, <2>1
  <2>3. P \in Nat /\ 2 ^ (n + 2) = 2 * P
    <3>1. 2 ^ ((n + 1) + 1) = 2 * P /\ (n + 1) + 1 = n + 2 /\ P \in Nat
      BY PowerStep
    <3> QED
      BY <3>1
  <2> HIDE DEF P, k, e
  <2>4. (2 * P) * e = 2 * (P * e) /\ P * e \in Nat
    BY <1>2, <2>3
  <2> DEFINE q == P * e
  <2>5. q \in Nat /\ q <= h[k - 1] /\ h[k - 1] \in Nat /\ b[k - 1] \in Nat
    BY <1>1, <2>1, <2>2, <2>4
  <2> HIDE DEF q
  <2>6. 2 * q <= h[k]
    BY <1>1, <2>1, <2>5
  <2> QED
    BY <2>3, <2>4, <2>6 DEF q, k
<1>5. m - (l + 1) \in Good
  <2>1. m - (l + 1) \in Nat
    OBVIOUS
  <2> HIDE DEF Good
  <2> QED
    BY <1>3, <1>4, <2>1, NumberInduction
<1>6. l + 1 + (m - (l + 1)) = m /\ (m - (l + 1)) + 1 = m - l
  OBVIOUS
<1> QED
  BY <1>5, <1>6 DEF h, b, MaxLength

\* The last place that has a code.
LastPlace(htbl) == FirstPlaces(htbl)[MaxLength] + htbl.bits[MaxLength] - 1

\* Each place has a length, whose places it is one of.
LEMMA SizesFacts ==
  ASSUME NEW htbl, htbl.bits \in Bits
  PROVE  /\ LastPlace(htbl) \in Nat
         /\ huffsize(htbl) \in Seq(1 .. MaxLength)
         /\ Len(huffsize(htbl)) = LastPlace(htbl)
         /\ DOMAIN huffsize(htbl) = 1 .. LastPlace(htbl)
         /\ \A p \in 1 .. LastPlace(htbl) : huffsize(htbl)[p] \in 1 .. MaxLength
         /\ \A p \in 1 .. LastPlace(htbl) :
              p \in FirstPlaces(htbl)[huffsize(htbl)[p]] .. FirstPlaces(htbl)[huffsize(htbl)[p]] + htbl.bits[huffsize(htbl)[p]] - 1
<1> DEFINE h == FirstPlaces(htbl)
           b == htbl.bits
           Lies(p, l) == p \in h[l] .. h[l] + b[l] - 1
           N == LastPlace(htbl)
<1>1. /\ \A k \in 1 .. MaxLength : h[k] \in Nat /\ b[k] \in Nat
      /\ h[1] = 1
      /\ \A k \in 2 .. MaxLength : h[k] = h[k - 1] + b[k - 1]
  BY FirstPlacesFacts DEF Bits
<1>2. huffsize(htbl) = [p \in 1 .. N |-> CHOOSE l \in 1 .. MaxLength : Lies(p, l)]
  BY DEF huffsize, LastPlace
<1>3. N = h[MaxLength] + b[MaxLength] - 1
  BY DEF LastPlace
<1> HIDE DEF h, b, N
<1>4. N \in Nat
  <2>1. MaxLength \in 2 .. MaxLength /\ MaxLength \in 1 .. MaxLength
    BY DEF MaxLength
  <2>2. h[MaxLength] >= 1
    <3> DEFINE Good == {n \in Nat : n + 1 <= MaxLength => h[n + 1] >= 1}
    <3>1. 0 \in Good
      BY <1>1 DEF MaxLength
    <3>2. ASSUME NEW n \in Nat, n \in Good PROVE n + 1 \in Good
      <4> SUFFICES ASSUME n + 2 <= MaxLength PROVE h[n + 2] >= 1
        BY DEF MaxLength
      <4> DEFINE k == n + 2
      <4>1. k \in 2 .. MaxLength /\ k - 1 \in 1 .. MaxLength /\ k - 1 = n + 1 /\ n + 1 <= MaxLength
        BY DEF MaxLength
      <4>2. h[n + 1] >= 1
        BY <3>2, <4>1
      <4> HIDE DEF k
      <4>3. h[k] >= 1
        BY <1>1, <4>1, <4>2
      <4> QED
        BY <4>3 DEF k
    <3>3. MaxLength - 1 \in Good
      <4>1. MaxLength - 1 \in Nat
        BY DEF MaxLength
      <4> HIDE DEF Good
      <4> QED
        BY <3>1, <3>2, <4>1, NumberInduction
    <3> QED
      BY <3>3 DEF MaxLength
  <2> QED
    BY <1>1, <1>3, <2>1, <2>2
<1>5. ASSUME NEW p \in 1 .. N PROVE \E l \in 1 .. MaxLength : Lies(p, l)
  <2> DEFINE Good == {n \in Nat : n + 1 <= MaxLength /\ p < h[n + 1] + b[n + 1] => \E l \in 1 .. MaxLength : Lies(p, l)}
  <2>0. p \in Nat /\ p >= 1
    BY <1>4
  <2>1. 0 \in Good
    <3> SUFFICES ASSUME p < h[1] + b[1] PROVE \E l \in 1 .. MaxLength : Lies(p, l)
      OBVIOUS
    <3>1. 1 \in 1 .. MaxLength
      BY DEF MaxLength
    <3>2. Lies(p, 1)
      BY <1>1, <2>0, <3>1
    <3> QED
      BY <3>1, <3>2
  <2>2. ASSUME NEW n \in Nat, n \in Good PROVE n + 1 \in Good
    <3> DEFINE k == n + 2
    <3> SUFFICES ASSUME k <= MaxLength, p < h[k] + b[k] PROVE \E l \in 1 .. MaxLength : Lies(p, l)
      BY DEF MaxLength
    <3>1. k \in 2 .. MaxLength /\ k \in 1 .. MaxLength /\ k - 1 \in 1 .. MaxLength /\ k - 1 = n + 1 /\ n + 1 <= MaxLength
      BY DEF MaxLength
    <3>2. CASE p < h[n + 1] + b[n + 1]
      BY <2>2, <3>1, <3>2
    <3>3. CASE ~ (p < h[n + 1] + b[n + 1])
      <4> HIDE DEF k
      <4>1. Lies(p, k)
        BY <1>1, <2>0, <3>1, <3>3
      <4> QED
        BY <3>1, <4>1
    <3> QED
      BY <3>2, <3>3
  <2>3. MaxLength - 1 \in Good
    <3>1. MaxLength - 1 \in Nat
      BY DEF MaxLength
    <3> HIDE DEF Good
    <3> QED
      BY <2>1, <2>2, <3>1, NumberInduction
  <2>4. p < h[MaxLength] + b[MaxLength]
    <3>1. MaxLength \in 1 .. MaxLength
      BY DEF MaxLength
    <3> QED
      BY <1>1, <1>3, <2>0, <3>1
  <2>5. (MaxLength - 1) + 1 = MaxLength /\ MaxLength <= MaxLength
    BY DEF MaxLength
  <2> QED
    BY <2>3, <2>4, <2>5
<1> DEFINE sizes == huffsize(htbl)
<1>6. \A p \in 1 .. N : sizes[p] \in 1 .. MaxLength /\ Lies(p, sizes[p])
  BY <1>2, <1>5
<1>7. sizes \in [1 .. N -> 1 .. MaxLength]
  BY <1>2, <1>6
<1>8. sizes \in Seq(1 .. MaxLength)
  BY <1>4, <1>7, SeqDef
<1>9. Len(sizes) = N /\ DOMAIN sizes = 1 .. N
  BY <1>4, <1>7, <1>8, LenProperties
<1> QED
  BY <1>4, <1>6, <1>8, <1>9 DEF h, b, N

\* The code of a place as a number.
CodeNumber(htbl, p) == FirstCodes(htbl)[huffsize(htbl)[p]] + p - FirstPlaces(htbl)[huffsize(htbl)[p]]
PlaceCodes(htbl) == huffcode(htbl, huffsize(htbl), FirstCodes(htbl), FirstPlaces(htbl))

LEMMA CodeFacts ==
  ASSUME NEW htbl, htbl.bits \in Bits, ~ BadTable(htbl, FALSE), NEW p \in 1 .. LastPlace(htbl)
  PROVE  /\ DOMAIN PlaceCodes(htbl) = 1 .. LastPlace(htbl)
         /\ huffsize(htbl)[p] \in 1 .. MaxLength /\ huffsize(htbl)[p] \in Nat
         /\ CodeNumber(htbl, p) \in Nat
         /\ CodeNumber(htbl, p) \in FirstCodes(htbl)[huffsize(htbl)[p]] .. FirstCodes(htbl)[huffsize(htbl)[p]] + htbl.bits[huffsize(htbl)[p]] - 1
         /\ CodeNumber(htbl, p) + 1 < 2 ^ huffsize(htbl)[p]
         /\ PlaceCodes(htbl)[p] = BitsOf(CodeNumber(htbl, p), huffsize(htbl)[p])
<1> DEFINE l == huffsize(htbl)[p]
           f == FirstCodes(htbl)[l]
           h == FirstPlaces(htbl)[l]
           b == htbl.bits[l]
           v == CodeNumber(htbl, p)
<1>1. /\ DOMAIN huffsize(htbl) = 1 .. LastPlace(htbl) /\ LastPlace(htbl) \in Nat
      /\ l \in 1 .. MaxLength
      /\ p \in h .. h + b - 1
  BY SizesFacts
<1>2. f \in Nat /\ h \in Nat /\ b \in Nat
  BY <1>1, FirstCodesFacts, FirstPlacesFacts DEF Bits
<1>3. v = f + p - h
  BY DEF CodeNumber
<1>4. l \in Nat /\ p \in Nat
  BY <1>1 DEF MaxLength
<1>5. b > 0 => f + b < 2 ^ l
  <2>1. 2 ^ l \in Nat
    BY <1>4, PowerStep
  <2>2. ~ (b > 0 /\ f + b >= 2 ^ l)
    BY <1>1 DEF BadTable
  <2> HIDE DEF f, b, l
  <2> QED
    BY <1>2, <2>1, <2>2
<1>6. DOMAIN PlaceCodes(htbl) = 1 .. LastPlace(htbl) /\ PlaceCodes(htbl)[p] = BitsOf(v, l)
  BY <1>1 DEF PlaceCodes, huffcode, CodeNumber
<1>7. 2 ^ l \in Nat
  BY <1>4, PowerStep
<1> HIDE DEF l, f, h, b, v
<1>8. v \in Nat /\ v \in f .. f + b - 1 /\ v + 1 < 2 ^ l
  BY <1>1, <1>2, <1>3, <1>4, <1>5, <1>7
<1> QED
  BY <1>1, <1>4, <1>6, <1>8 DEF l, f, h, b, v

\* A code is not among the first bits of another one: it is before the other one's
\* first bits.
LEMMA PrefixesAreGreater ==
  ASSUME NEW htbl, htbl.bits \in Bits, NEW l \in 1 .. MaxLength, NEW m \in 1 .. MaxLength, l < m,
         NEW w \in Nat, w >= FirstCodes(htbl)[m]
  PROVE  w \div 2 ^ (m - l) >= FirstCodes(htbl)[l] + htbl.bits[l]
<1> DEFINE e == FirstCodes(htbl)[l] + htbl.bits[l]
           P == 2 ^ (m - l)
           f == FirstCodes(htbl)[m]
           q == w \div P
<1>1. e \in Nat /\ f \in Nat
  <2>1. FirstCodes(htbl)[l] \in Nat /\ f \in Nat
    BY FirstCodesFacts
  <2>2. htbl.bits[l] \in Nat
    BY DEF Bits
  <2> QED
    BY <2>1, <2>2
<1>2. P \in Nat /\ P > 0
  <2>1. m - l \in Nat
    OBVIOUS
  <2> QED
    BY <2>1, PowerStep
<1>3. P * e <= w
  <2>1. P * e <= f
    BY CodesInOrder
  <2>2. f <= w
    OBVIOUS
  <2> HIDE DEF P, e, f
  <2>3. P * e \in Nat
    BY <1>1, <1>2
  <2> QED
    BY <1>1, <2>1, <2>2, <2>3
<1> HIDE DEF P, e
<1>4. q \in Nat /\ w % P \in 0 .. P - 1 /\ w = (P * q) + (w % P)
  BY <1>2, DivMod
<1>5. q >= e
  <2> HIDE DEF q
  <2> SUFFICES ASSUME q + 1 <= e PROVE FALSE
    BY <1>1, <1>4
  <2>1. (q + 1) * P <= e * P
    BY <1>1, <1>2, <1>4, ProductMonotone
  <2>2. (q + 1) * P = q * P + P /\ q * P \in Nat
    BY <1>2, <1>4, StepProduct
  <2>3. e * P = P * e /\ q * P = P * q
    BY <1>1, <1>2, <1>4
  <2> HIDE DEF e
  <2>4. P * q + P <= w
    BY <1>1, <1>2, <1>3, <1>4, <2>1, <2>2, <2>3
  <2> QED
    BY <1>2, <1>4, <2>2, <2>3, <2>4
<1> QED
  BY <1>5 DEF q, P, e

LEMMA NoCodeStartsAnother ==
  ASSUME NEW htbl, htbl.bits \in Bits, ~ BadTable(htbl, FALSE),
         NEW p \in 1 .. LastPlace(htbl), NEW q \in 1 .. LastPlace(htbl), p # q
  PROVE  ~ IsPrefix(PlaceCodes(htbl)[p], PlaceCodes(htbl)[q])
<1> DEFINE l == huffsize(htbl)[p]
           m == huffsize(htbl)[q]
           v == CodeNumber(htbl, p)
           w == CodeNumber(htbl, q)
<1> SUFFICES ASSUME IsPrefix(PlaceCodes(htbl)[p], PlaceCodes(htbl)[q]) PROVE FALSE
  OBVIOUS
<1>1. /\ l \in 1 .. MaxLength /\ l \in Nat /\ m \in 1 .. MaxLength /\ m \in Nat
      /\ v \in Nat /\ v \in FirstCodes(htbl)[l] .. FirstCodes(htbl)[l] + htbl.bits[l] - 1 /\ v + 1 < 2 ^ l
      /\ w \in Nat /\ w \in FirstCodes(htbl)[m] .. FirstCodes(htbl)[m] + htbl.bits[m] - 1 /\ w + 1 < 2 ^ m
      /\ PlaceCodes(htbl)[p] = BitsOf(v, l) /\ PlaceCodes(htbl)[q] = BitsOf(w, m)
  BY CodeFacts
<1>2. 2 ^ l \in Nat /\ 2 ^ m \in Nat
  BY <1>1, PowerStep
<1>3. v < 2 ^ l /\ w < 2 ^ m /\ IsPrefix(BitsOf(v, l), BitsOf(w, m))
  BY <1>1, <1>2
<1>4. l <= m /\ v = w \div 2 ^ (m - l)
  <2> HIDE DEF l, m, v, w
  <2>1. l \in Nat /\ m \in Nat /\ v \in Nat /\ w \in Nat
    BY <1>1
  <2> QED
    BY ONLY <1>3, <2>1, PrefixOfBits
<1>5. /\ FirstCodes(htbl)[l] \in Nat /\ htbl.bits[l] \in Nat /\ FirstCodes(htbl)[m] \in Nat
      /\ FirstPlaces(htbl)[l] \in Nat
  BY <1>1, FirstCodesFacts, FirstPlacesFacts DEF Bits
<1>6. CASE l = m
  <2>1. m - l = 0
    <3> HIDE DEF l, m
    <3> QED
      BY <1>1, <1>6
  <2>2. v = w
    BY <1>1, <1>4, <2>1, WholeNumber
  <2>3. v = FirstCodes(htbl)[l] + p - FirstPlaces(htbl)[l] /\ w = FirstCodes(htbl)[l] + q - FirstPlaces(htbl)[l]
    BY <1>6 DEF CodeNumber
  <2>4. p \in Int /\ q \in Int
    BY SizesFacts
  <2> DEFINE f == FirstCodes(htbl)[l]
             h == FirstPlaces(htbl)[l]
  <2>5. f \in Nat /\ h \in Nat /\ v = f + p - h /\ w = f + q - h
    BY <1>5, <2>3
  <2> HIDE DEF l, m, v, w, f, h
  <2>6. f + p - h = f + q - h
    BY <2>2, <2>5
  <2>7. p = q
    BY <2>4, <2>5, <2>6
  <2> QED
    BY <2>7
<1>7. CASE l # m
  <2> HIDE DEF l, m, v, w
  <2>1. l < m /\ w >= FirstCodes(htbl)[m]
    BY <1>1, <1>4, <1>5, <1>7
  <2>2. w \div 2 ^ (m - l) >= FirstCodes(htbl)[l] + htbl.bits[l]
    BY <1>1, <2>1, PrefixesAreGreater
  <2>3. v <= FirstCodes(htbl)[l] + htbl.bits[l] - 1
    BY <1>1, <1>5
  <2> QED
    BY <1>1, <1>4, <1>5, <2>2, <2>3
<1> QED
  BY <1>6, <1>7

LEMMA SomeBitIsZero ==
  ASSUME NEW htbl, htbl.bits \in Bits, ~ BadTable(htbl, FALSE), NEW p \in 1 .. LastPlace(htbl)
  PROVE  \E i \in DOMAIN PlaceCodes(htbl)[p] : PlaceCodes(htbl)[p][i] = 0
<1> DEFINE l == huffsize(htbl)[p]
           v == CodeNumber(htbl, p)
<1>1. l \in Nat /\ v \in Nat /\ v + 1 < 2 ^ l /\ PlaceCodes(htbl)[p] = BitsOf(v, l)
  BY CodeFacts
<1> HIDE DEF l, v
<1>2. 2 ^ l \in Nat
  BY <1>1, PowerStep
<1>3. v < 2 ^ l /\ v # 2 ^ l - 1
  BY <1>1, <1>2
<1>4. \E i \in 1 .. l : BitsOf(v, l)[i] = 0
  BY <1>1, <1>3, OnesAreGreatest
<1> QED
  BY <1>1, <1>4, BitFacts

\* Whatever lengths a table has, if jpeg_make_c_derived_tbl does not refuse it, no
\* code of it starts another and none consists of ones: the decoder always knows
\* where a code ends, and the ones that fill the last byte are no code.
THEOREM CodesApart ==
  ASSUME NEW htbl, htbl.bits \in Bits, NEW V, htbl.huffval \in Seq(V), NEW isDC \in BOOLEAN,
         Len(huffsize(htbl)) = Len(htbl.huffval), ~ BadTable(htbl, isDC)
  PROVE  LET c == jpeg_make_c_derived_tbl(htbl)
         IN  DOMAIN c = Range(htbl.huffval) /\ PrefixFree(c) /\ NotAllOnes(c)
<1> DEFINE c == jpeg_make_c_derived_tbl(htbl)
           codes == PlaceCodes(htbl)
           vals == htbl.huffval
           N == LastPlace(htbl)
           Level(s) == CHOOSE p \in DOMAIN codes : vals[p] = s
<1>0. ~ BadTable(htbl, FALSE)
  BY DEF BadTable
<1>1. c = [s \in Range(vals) |-> codes[Level(s)]]
  BY DEF jpeg_make_c_derived_tbl, CodesOf, PlaceCodes
<1>2. N \in Nat /\ Len(vals) = N /\ DOMAIN vals = 1 .. N
  BY SizesFacts
<1>3. DOMAIN codes = 1 .. N
  <2>1. DOMAIN huffsize(htbl) = 1 .. N
    BY SizesFacts
  <2> QED
    BY <2>1 DEF PlaceCodes, huffcode
<1> HIDE DEF codes, vals, N
<1>4. ASSUME NEW s \in Range(vals) PROVE Level(s) \in 1 .. N /\ vals[Level(s)] = s
  <2>1. PICK p \in DOMAIN vals : vals[p] = s
    BY DEF Range
  <2> QED
    BY <1>2, <1>3, <2>1
<1> HIDE DEF Level
<1>5. DOMAIN c = Range(vals)
  BY <1>1
<1>6. ASSUME NEW s \in DOMAIN c, NEW t \in DOMAIN c, s # t PROVE ~ IsPrefix(c[s], c[t])
  <2>1. Level(s) \in 1 .. N /\ Level(t) \in 1 .. N /\ Level(s) # Level(t)
    BY <1>4, <1>5, <1>6
  <2>2. ~ IsPrefix(codes[Level(s)], codes[Level(t)])
    BY <1>0, <2>1, NoCodeStartsAnother DEF codes, N
  <2> QED
    BY <1>1, <1>5, <2>2
<1>7. ASSUME NEW s \in DOMAIN c PROVE \E i \in DOMAIN c[s] : c[s][i] = 0
  <2>1. Level(s) \in 1 .. N
    BY <1>4, <1>5
  <2>2. \E i \in DOMAIN codes[Level(s)] : codes[Level(s)][i] = 0
    BY <1>0, <2>1, SomeBitIsZero DEF codes, N
  <2> QED
    BY <1>1, <1>5, <2>2
<1> QED
  BY <1>5, <1>6, <1>7 DEF PrefixFree, NotAllOnes, vals

\* jpeg_huff_decode takes the bits of a code one by one, highest first, until the
\* number they make is at most maxcode of their count: for none of the shorter counts
\* is it, for the length of the code it is, and the place it then finds is that of
\* the code.  So the tables that encoder and decoder derive from one table belong
\* together.
THEOREM DecoderFindsCode ==
  ASSUME NEW htbl, htbl.bits \in Bits, NEW isDC \in BOOLEAN, ~ BadTable(htbl, isDC),
         NEW p \in 1 .. LastPlace(htbl), NEW value \in [0 .. huffsize(htbl)[p] -> Int], value[0] = 0,
         \A k \in 1 .. huffsize(htbl)[p] : value[k] = 2 * value[k - 1] + PlaceCodes(htbl)[p][k]
  PROVE  LET d == jpeg_make_d_derived_tbl(htbl)
             l == huffsize(htbl)[p]
         IN  /\ Len(PlaceCodes(htbl)[p]) = l
             /\ \A k \in 1 .. l - 1 : value[k] > d.maxcode[k]
             /\ value[l] <= d.maxcode[l]
             /\ value[l] + d.valoffset[l] = p
<1> DEFINE d == jpeg_make_d_derived_tbl(htbl)
           l == huffsize(htbl)[p]
           v == CodeNumber(htbl, p)
           f == FirstCodes(htbl)
           h == FirstPlaces(htbl)
           b == htbl.bits
           c == PlaceCodes(htbl)[p]
<1>0. ~ BadTable(htbl, FALSE)
  BY DEF BadTable
<1>1. /\ l \in 1 .. MaxLength /\ l \in Nat
      /\ v \in Nat /\ v \in f[l] .. f[l] + b[l] - 1 /\ v + 1 < 2 ^ l
      /\ c = BitsOf(v, l)
  BY <1>0, CodeFacts
<1>2. v = f[l] + p - h[l]
  BY DEF CodeNumber
<1>3. /\ d.maxcode = [k \in 1 .. MaxLength |-> IF b[k] > 0 THEN f[k] + b[k] - 1 ELSE -1]
      /\ d.valoffset = [k \in 1 .. MaxLength |-> h[k] - f[k]]
  BY DEF jpeg_make_d_derived_tbl, DecodingTable
<1>4. \A k \in 1 .. MaxLength : f[k] \in Nat /\ h[k] \in Nat /\ b[k] \in Nat
  BY FirstCodesFacts, FirstPlacesFacts DEF Bits
<1>5. p \in Int
  BY SizesFacts
<1>6. l = huffsize(htbl)[p]
  OBVIOUS
<1>7. /\ value \in [0 .. l -> Int] /\ value[0] = 0
      /\ \A k \in 1 .. l : value[k] = 2 * value[k - 1] + c[k]
  OBVIOUS
<1> HIDE DEF d, l, v, f, h, b, c
<1>8. v < 2 ^ l /\ 2 ^ l \in Nat
  <2>1. 2 ^ l \in Nat
    BY <1>1, PowerStep
  <2> QED
    BY <1>1, <2>1
<1>9. Len(c) = l /\ \A k \in 1 .. l : c[k] = (v \div 2 ^ (l - k)) % 2
  BY <1>1, BitFacts
<1>10. ASSUME NEW k \in 0 .. l PROVE value[k] = v \div 2 ^ (l - k)
  <2> DEFINE Good == {n \in Nat : n <= l => value[n] = v \div 2 ^ (l - n)}
  <2>1. 0 \in Good
    <3>1. l - 0 = l
      BY <1>1
    <3> QED
      BY <1>1, <1>7, <1>8, <3>1, NoneBefore
  <2>2. ASSUME NEW n \in Nat, n \in Good PROVE n + 1 \in Good
    <3> SUFFICES ASSUME n + 1 <= l PROVE value[n + 1] = v \div 2 ^ (l - (n + 1))
      OBVIOUS
    <3> DEFINE j == l - (n + 1)
    <3>1. j \in Nat /\ l - n = j + 1 /\ n + 1 \in 1 .. l /\ (n + 1) - 1 = n /\ n <= l
      BY <1>1
    <3>3. value[n + 1] = 2 * value[n] + ((v \div 2 ^ j) % 2)
      BY <1>7, <1>9, <3>1
    <3>6. value[n] = v \div 2 ^ (l - n)
      BY <2>2, <3>1
    <3> HIDE DEF j
    <3>2. value[n] = v \div 2 ^ (j + 1)
      BY <3>1, <3>6
    <3>4. v \div 2 ^ j = 2 * (v \div 2 ^ (j + 1)) + ((v \div 2 ^ j) % 2)
      BY <1>1, <3>1, Halved
    <3>5. value[n + 1] = v \div 2 ^ j
      BY <3>2, <3>3, <3>4
    <3> QED
      BY <3>5 DEF j
  <2>3. k \in Good
    <3>1. k \in Nat
      BY <1>1
    <3> HIDE DEF Good
    <3> QED
      BY <2>1, <2>2, <3>1, NumberInduction
  <2> QED
    BY <1>1, <2>3
<1>11. value[l] = v
  <2>1. l \in 0 .. l /\ l - l = 0
    BY <1>1
  <2> QED
    BY <1>1, <1>10, <2>1, WholeNumber
<1>12. ASSUME NEW k \in 1 .. l - 1 PROVE value[k] > d.maxcode[k]
  <2>0. l <= MaxLength /\ MaxLength \in Nat
    <3>1. l \in 1 .. MaxLength
      BY <1>1
    <3> QED
      BY ONLY <3>1 DEF MaxLength
  <2>1. k \in 1 .. MaxLength /\ k < l /\ k \in 0 .. l /\ l - k \in Nat
    BY <1>1, <2>0
  <2>2. v >= f[l]
    BY <1>1, <1>4
  <2>3. v \div 2 ^ (l - k) >= f[k] + b[k]
    BY <1>1, <2>1, <2>2, PrefixesAreGreater DEF f, b
  <2>4. value[k] = v \div 2 ^ (l - k) /\ value[k] \in Int
    BY <1>7, <1>10, <2>1
  <2>5. d.maxcode[k] < f[k] + b[k] /\ d.maxcode[k] \in Int /\ f[k] + b[k] \in Int
    BY <1>3, <1>4, <2>1
  <2> QED
    BY <2>3, <2>4, <2>5
<1>13. value[l] <= d.maxcode[l] /\ value[l] + d.valoffset[l] = p
  <2>1. f[l] \in Nat /\ b[l] \in Nat /\ h[l] \in Nat
    BY <1>1, <1>4
  <2>2. b[l] > 0 /\ v <= f[l] + b[l] - 1
    BY <1>1, <2>1
  <2>3. d.maxcode[l] = f[l] + b[l] - 1 /\ d.valoffset[l] = h[l] - f[l]
    BY <1>1, <1>3, <2>2
  <2> QED
    BY <1>2, <1>5, <1>11, <2>1, <2>2, <2>3
<1> QED
  BY <1>9, <1>12, <1>13 DEF d, l, c

\* Two sequences that start the same one: the shorter starts the longer.
LEMMA StartsOfOne ==
  ASSUME NEW V, NEW a \in Seq(V), NEW b \in Seq(V), NEW s \in Seq(V), IsPrefix(a, s), IsPrefix(b, s)
  PROVE  IsPrefix(a, b) \/ IsPrefix(b, a)
<1>1. /\ Len(a) \in Nat /\ Len(b) \in Nat /\ Len(s) \in Nat /\ Len(a) <= Len(s) /\ Len(b) <= Len(s)
      /\ SubSeq(a, 1, Len(a)) = SubSeq(s, 1, Len(a)) /\ SubSeq(b, 1, Len(b)) = SubSeq(s, 1, Len(b))
  BY DEF IsPrefix
<1>2. (\A i \in 1 .. Len(a) : a[i] = s[i]) /\ (\A i \in 1 .. Len(b) : b[i] = s[i])
  <2>1. \A i \in 1 .. Len(a) : SubSeq(a, 1, Len(a))[i] = a[i] /\ SubSeq(s, 1, Len(a))[i] = s[i]
    BY <1>1
  <2>2. \A i \in 1 .. Len(b) : SubSeq(b, 1, Len(b))[i] = b[i] /\ SubSeq(s, 1, Len(b))[i] = s[i]
    BY <1>1
  <2> QED
    BY <1>1, <2>1, <2>2
<1>3. CASE Len(a) <= Len(b)
  <2>1. SubSeq(a, 1, Len(a)) = SubSeq(b, 1, Len(a))
    BY <1>1, <1>2, <1>3
  <2> QED
    BY <1>3, <2>1 DEF IsPrefix
<1>4. CASE Len(b) <= Len(a)
  <2>1. SubSeq(b, 1, Len(b)) = SubSeq(a, 1, Len(b))
    BY <1>1, <1>2, <1>4
  <2> QED
    BY <1>4, <2>1 DEF IsPrefix
<1> QED
  BY <1>1, <1>3, <1>4

\* What is looked up by the first HUFF_LOOKAHEAD bits is the symbol of the code they
\* start with, whichever way it is then filled in: there is only one such code.
THEOREM LookaheadFindsCode ==
  ASSUME NEW htbl, htbl.bits \in Bits, NEW isDC \in BOOLEAN, ~ BadTable(htbl, isDC),
         NEW look \in 0 .. (2 ^ HUFF_LOOKAHEAD) - 1, NEW p \in 1 .. LastPlace(htbl),
         IsPrefix(PlaceCodes(htbl)[p], BitsOf(look, HUFF_LOOKAHEAD))
  PROVE  jpeg_make_d_derived_tbl(htbl).look[look] = [nbits |-> huffsize(htbl)[p], sym |-> htbl.huffval[p]]
<1> DEFINE codes == PlaceCodes(htbl)
           bits == BitsOf(look, HUFF_LOOKAHEAD)
           N == LastPlace(htbl)
           Starts(q) == IsPrefix(codes[q], bits)
           chosen == CHOOSE q \in DOMAIN codes : Starts(q)
<1>0. ~ BadTable(htbl, FALSE)
  BY DEF BadTable
<1>1. DOMAIN codes = 1 .. N
  BY <1>0, CodeFacts
<1>2. jpeg_make_d_derived_tbl(htbl).look[look] =
        IF \E q \in DOMAIN codes : Starts(q) THEN [nbits |-> Len(codes[chosen]), sym |-> htbl.huffval[chosen]]
        ELSE [nbits |-> 0, sym |-> 0]
  BY DEF jpeg_make_d_derived_tbl, DecodingTable, Lookahead, PlaceCodes
<1>3. p \in DOMAIN codes /\ Starts(p)
  BY <1>1
<1>4. chosen \in 1 .. N /\ Starts(chosen)
  <2> HIDE DEF Starts
  <2> QED
    BY <1>1, <1>3
<1>5. bits \in Seq(0 .. 1)
  <2>1. look \in Nat /\ HUFF_LOOKAHEAD \in Nat
    <3>1. HUFF_LOOKAHEAD \in Nat
      BY LookaheadAssumption
    <3>2. 2 ^ HUFF_LOOKAHEAD \in Nat
      BY <3>1, PowerStep
    <3> QED
      BY <3>1, <3>2
  <2> QED
    BY <2>1, BitFacts
<1>6. \A q \in 1 .. N : codes[q] \in Seq(0 .. 1) /\ Len(codes[q]) = huffsize(htbl)[q]
  <2> TAKE q \in 1 .. N
  <2>1. /\ huffsize(htbl)[q] \in Nat /\ CodeNumber(htbl, q) \in Nat
        /\ codes[q] = BitsOf(CodeNumber(htbl, q), huffsize(htbl)[q])
    BY <1>0, CodeFacts
  <2> QED
    BY <2>1, BitFacts
<1>7. IsPrefix(codes[p], codes[chosen]) \/ IsPrefix(codes[chosen], codes[p])
  <2> HIDE DEF codes, bits, chosen
  <2> QED
    BY <1>1, <1>3, <1>4, <1>5, <1>6, StartsOfOne
<1>8. chosen = p
  <2> HIDE DEF chosen
  <2> QED
    BY <1>0, <1>4, <1>7, NoCodeStartsAnother
<1> QED
  BY <1>2, <1>3, <1>6, <1>8

(***************************************************************************)
(* Lengths of codes                                                        *)
(***************************************************************************)

\* Max finds it.
LEMMA MaxIsIn ==
  ASSUME NEW S \in SUBSET Nat, NEW n \in Nat, \A x \in S : x <= n, S # {}
  PROVE  Max(S) \in S /\ \A x \in S : x <= Max(S)
<1>1. \E x \in S : \A y \in S : y <= x
  BY GreatestExists
<1>2. \E x \in S : \A y \in S : x >= y
  BY <1>1
<1> QED
  BY <1>2 DEF Max

\* bits are the numbers of leaves in each depth of a binary tree with n leaves: E are
\* those of the nodes that have branches, C those of the leaves so far.
IsTree(bits, E, C, n) ==
  /\ bits \in [1 .. MAX_CLEN -> Nat] /\ E \in [0 .. MAX_CLEN -> Nat] /\ C \in [0 .. MAX_CLEN -> Nat]
  /\ E[0] = 1 /\ E[MAX_CLEN] = 0
  /\ \A l \in 1 .. MAX_CLEN : E[l] + bits[l] = 2 * E[l - 1]
  /\ C[0] = 0 /\ C[MAX_CLEN] = n
  /\ \A l \in 1 .. MAX_CLEN : C[l] = C[l - 1] + bits[l]
EmptyFrom(bits, i) == \A l \in 1 .. MAX_CLEN : l >= i => bits[l] = 0

\* Below the deepest leaves there is nothing that branches.
LEMMA NothingDeeper ==
  ASSUME NEW bits, NEW E, NEW C, NEW n, IsTree(bits, E, C, n), NEW i \in 0 .. MAX_CLEN, EmptyFrom(bits, i + 1)
  PROVE  E[i] = 0
<1> DEFINE Good == {k \in Nat : k <= MAX_CLEN - i => E[MAX_CLEN - k] = 0}
<1>1. 0 \in Good
  BY DEF IsTree, MAX_CLEN
<1>2. ASSUME NEW k \in Nat, k \in Good PROVE k + 1 \in Good
  <2> SUFFICES ASSUME k + 1 <= MAX_CLEN - i PROVE E[MAX_CLEN - (k + 1)] = 0
    OBVIOUS
  <2> DEFINE l == MAX_CLEN - k
  <2>1. /\ l \in 1 .. MAX_CLEN /\ l - 1 \in 0 .. MAX_CLEN /\ l >= i + 1 /\ l - 1 = MAX_CLEN - (k + 1)
        /\ k <= MAX_CLEN - i
    BY DEF MAX_CLEN
  <2>2. E[l] = 0
    BY <1>2, <2>1
  <2> HIDE DEF l
  <2>3. bits[l] = 0
    BY <2>1 DEF EmptyFrom
  <2>4. E[l - 1] \in Nat /\ E[l] + bits[l] = 2 * E[l - 1]
    BY <2>1 DEF IsTree
  <2> QED
    BY <2>1, <2>2, <2>3, <2>4
<1>3. MAX_CLEN - i \in Good
  <2>1. MAX_CLEN - i \in Nat
    BY DEF MAX_CLEN
  <2> HIDE DEF Good
  <2> QED
    BY <1>1, <1>2, <2>1, NumberInduction
<1>4. MAX_CLEN - (MAX_CLEN - i) = i
  BY DEF MAX_CLEN
<1> QED
  BY <1>3, <1>4 DEF MAX_CLEN

\* Where nothing branches there are no leaves deeper.
LEMMA NoBranchesNoLeaves ==
  ASSUME NEW bits, NEW E, NEW C, NEW n, IsTree(bits, E, C, n), NEW l \in 0 .. MAX_CLEN, E[l] = 0,
         NEW m \in 0 .. MAX_CLEN, l < m
  PROVE  bits[m] = 0
<1> DEFINE Good == {k \in Nat : l + k + 1 <= MAX_CLEN => E[l + k + 1] = 0 /\ bits[l + k + 1] = 0}
<1>0. ASSUME NEW k \in 1 .. MAX_CLEN, E[k - 1] = 0 PROVE E[k] = 0 /\ bits[k] = 0
  <2>1. E[k] + bits[k] = 2 * E[k - 1] /\ E[k] \in Nat /\ bits[k] \in Nat
    BY DEF IsTree, MAX_CLEN
  <2> QED
    BY <1>0, <2>1
<1>1. 0 \in Good
  <2> SUFFICES ASSUME l + 1 <= MAX_CLEN PROVE E[l + 1] = 0 /\ bits[l + 1] = 0
    OBVIOUS
  <2>1. l + 1 \in 1 .. MAX_CLEN /\ (l + 1) - 1 = l
    BY DEF MAX_CLEN
  <2> QED
    BY <1>0, <2>1
<1>2. ASSUME NEW k \in Nat, k \in Good PROVE k + 1 \in Good
  <2> DEFINE d == l + k + 2
  <2> SUFFICES ASSUME d <= MAX_CLEN PROVE E[d] = 0 /\ bits[d] = 0
    OBVIOUS
  <2>1. d \in 1 .. MAX_CLEN /\ d - 1 = l + k + 1 /\ l + k + 1 <= MAX_CLEN
    BY DEF MAX_CLEN
  <2>2. E[d - 1] = 0
    BY <1>2, <2>1
  <2> HIDE DEF d
  <2> QED
    BY <1>0, <2>1, <2>2
<1>3. m - (l + 1) \in Good
  <2>1. m - (l + 1) \in Nat
    BY DEF MAX_CLEN
  <2> HIDE DEF Good
  <2> QED
    BY <1>1, <1>2, <2>1, NumberInduction
<1>4. l + (m - (l + 1)) + 1 = m
  BY DEF MAX_CLEN
<1> QED
  BY <1>3, <1>4 DEF MAX_CLEN

\* The leaves of some depths are not more than those of all.
LEMMA LeavesOfAll ==
  ASSUME NEW bits, NEW E, NEW C, NEW n, IsTree(bits, E, C, n), NEW l \in 0 .. MAX_CLEN
  PROVE  C[l] <= n /\ n \in Nat
<1> DEFINE Good == {k \in Nat : l + k <= MAX_CLEN => C[l] <= C[l + k]}
<1>1. 0 \in Good
  BY DEF IsTree, MAX_CLEN
<1>2. ASSUME NEW k \in Nat, k \in Good PROVE k + 1 \in Good
  <2> DEFINE d == l + k + 1
  <2> SUFFICES ASSUME d <= MAX_CLEN PROVE C[l] <= C[d]
    OBVIOUS
  <2>1. d \in 1 .. MAX_CLEN /\ d - 1 \in 0 .. MAX_CLEN /\ d - 1 = l + k /\ l + k <= MAX_CLEN /\ d \in 0 .. MAX_CLEN
    BY DEF MAX_CLEN
  <2>2. C[l] <= C[d - 1]
    BY <1>2, <2>1
  <2> HIDE DEF d
  <2>3. C[d] = C[d - 1] + bits[d] /\ C[d - 1] \in Nat /\ bits[d] \in Nat /\ C[l] \in Nat
    BY <2>1 DEF IsTree
  <2> QED
    BY <2>2, <2>3
<1>3. MAX_CLEN - l \in Good
  <2>1. MAX_CLEN - l \in Nat
    BY DEF MAX_CLEN
  <2> HIDE DEF Good
  <2> QED
    BY <1>1, <1>2, <2>1, NumberInduction
<1>4. l + (MAX_CLEN - l) = MAX_CLEN /\ MAX_CLEN <= MAX_CLEN
  BY DEF MAX_CLEN
<1>5. C[MAX_CLEN] = n /\ C[MAX_CLEN] \in Nat
  BY DEF IsTree, MAX_CLEN
<1> QED
  BY <1>3, <1>4, <1>5

\* With so few codes some are short.
LEMMA SomeAreShorter ==
  ASSUME NEW bits, NEW E, NEW C, NEW n, IsTree(bits, E, C, n), n <= 257,
         NEW i \in MaxLength + 1 .. MAX_CLEN, bits[i] > 0, EmptyFrom(bits, i + 1)
  PROVE  \E l \in 1 .. i - 2 : bits[l] > 0
<1> SUFFICES ASSUME \A l \in 1 .. i - 2 : ~ (bits[l] > 0) PROVE FALSE
  OBVIOUS
<1>1. /\ \A l \in 0 .. MAX_CLEN : E[l] \in Nat /\ C[l] \in Nat
      /\ \A l \in 1 .. MAX_CLEN : bits[l] \in Nat /\ E[l] + bits[l] = 2 * E[l - 1] /\ C[l] = C[l - 1] + bits[l]
      /\ E[0] = 1
  BY DEF IsTree
<1>2. i \in 17 .. 32 /\ i \in Nat
  BY DEF MaxLength, MAX_CLEN
<1>3. \A l \in 1 .. i - 2 : E[l] = 2 * E[l - 1]
  <2> TAKE l \in 1 .. i - 2
  <2>1. l \in 1 .. MAX_CLEN
    BY <1>2 DEF MAX_CLEN
  <2>2. bits[l] = 0
    BY <1>1, <2>1
  <2> QED
    BY <1>1, <2>1, <2>2 DEF MAX_CLEN
<1>4. E[8] = 256
  <2>1. E[1] = 2 * E[0] /\ E[2] = 2 * E[1] /\ E[3] = 2 * E[2] /\ E[4] = 2 * E[3]
    BY <1>2, <1>3
  <2>2. E[5] = 2 * E[4] /\ E[6] = 2 * E[5] /\ E[7] = 2 * E[6] /\ E[8] = 2 * E[7]
    BY <1>2, <1>3
  <2> QED
    BY <1>1, <2>1, <2>2
<1>5. E[i - 2] >= 256
  <2> DEFINE Good == {k \in Nat : k + 8 <= i - 2 => E[k + 8] >= 256}
  <2>1. 0 \in Good
    BY <1>4
  <2>2. ASSUME NEW k \in Nat, k \in Good PROVE k + 1 \in Good
    <3> DEFINE d == k + 9
    <3> SUFFICES ASSUME d <= i - 2 PROVE E[d] >= 256
      OBVIOUS
    <3>1. d \in 1 .. i - 2 /\ d - 1 = k + 8 /\ k + 8 <= i - 2
      BY <1>2
    <3>2. E[k + 8] >= 256
      BY <2>2, <3>1
    <3>3. k + 8 \in 0 .. MAX_CLEN
      BY <1>2, <3>1 DEF MAX_CLEN
    <3> HIDE DEF d
    <3>4. E[d] = 2 * E[k + 8] /\ E[k + 8] \in Nat
      BY <1>1, <1>3, <3>1, <3>3
    <3> QED
      BY <3>2, <3>4
  <2>3. i - 10 \in Good
    <3>1. i - 10 \in Nat
      BY <1>2
    <3> HIDE DEF Good
    <3> QED
      BY <2>1, <2>2, <3>1, NumberInduction
  <2> QED
    BY <1>2, <2>3
<1>6. E[i] = 0
  <2>1. i \in 0 .. MAX_CLEN
    BY <1>2 DEF MAX_CLEN
  <2> QED
    BY <2>1, NothingDeeper
<1>7. /\ i \in 1 .. MAX_CLEN /\ i - 1 \in 1 .. MAX_CLEN /\ i - 2 \in 0 .. MAX_CLEN /\ (i - 1) - 1 = i - 2
      /\ i \in 0 .. MAX_CLEN /\ i - 1 \in 0 .. MAX_CLEN
  BY <1>2 DEF MAX_CLEN
<1>8. /\ E[i] + bits[i] = 2 * E[i - 1] /\ E[i - 1] + bits[i - 1] = 2 * E[i - 2]
      /\ C[i] = C[i - 1] + bits[i] /\ C[i - 1] = C[i - 2] + bits[i - 1]
      /\ E[i - 1] \in Nat /\ E[i - 2] \in Nat /\ bits[i] \in Nat /\ bits[i - 1] \in Nat
      /\ C[i] \in Nat /\ C[i - 1] \in Nat /\ C[i - 2] \in Nat
  BY <1>1, <1>7
<1>9. C[i] <= n /\ n \in Nat
  BY <1>7, LeavesOfAll
<1> HIDE DEF IsTree
<1> QED
  BY <1>5, <1>6, <1>8, <1>9

LEMMA MovePairType == ASSUME NEW bits \in [1 .. MAX_CLEN -> Int], NEW i PROVE MovePair(bits, i) \in [1 .. MAX_CLEN -> Int]
  BY DEF MovePair

\* One round of the loop takes two leaves from depth i and leaves a tree with as many
\* leaves: their parent becomes a leaf, and one leaf in depth j gets two children.
LEMMA MoveKeepsTree ==
  ASSUME NEW bits, NEW E, NEW C, NEW n, IsTree(bits, E, C, n), n <= 257,
         NEW i \in MaxLength + 1 .. MAX_CLEN, bits[i] > 0, EmptyFrom(bits, i + 1)
  PROVE  /\ \E E1, C1 : IsTree(MovePair(bits, i), E1, C1, n)
         /\ EmptyFrom(MovePair(bits, i), i + 1)
         /\ MovePair(bits, i)[i] = bits[i] - 2
<1> DEFINE S == {l \in 1 .. i - 2 : bits[l] > 0}
           j == Max(S)
           after == MovePair(bits, i)
           Change(l) == (IF l = i THEN -2 ELSE 0) + (IF l = i - 1 THEN 1 ELSE 0)
                          + (IF l = j + 1 THEN 2 ELSE 0) + (IF l = j THEN -1 ELSE 0)
           E1 == [l \in 0 .. MAX_CLEN |-> E[l] + (IF l = j THEN 1 ELSE 0) + (IF l = i - 1 THEN -1 ELSE 0)]
           C1 == [l \in 0 .. MAX_CLEN |-> C[l] + (IF l >= j THEN -1 ELSE 0) + (IF l >= j + 1 THEN 2 ELSE 0)
                                            + (IF l >= i - 1 THEN 1 ELSE 0) + (IF l >= i THEN -2 ELSE 0)]
<1>1. /\ \A l \in 0 .. MAX_CLEN : E[l] \in Nat /\ C[l] \in Nat
      /\ \A l \in 1 .. MAX_CLEN : bits[l] \in Nat /\ E[l] + bits[l] = 2 * E[l - 1] /\ C[l] = C[l - 1] + bits[l]
      /\ E[0] = 1 /\ E[MAX_CLEN] = 0 /\ C[0] = 0 /\ C[MAX_CLEN] = n
      /\ bits \in [1 .. MAX_CLEN -> Nat]
  BY DEF IsTree
<1>2. i \in 17 .. 32 /\ i \in Nat
  BY DEF MaxLength, MAX_CLEN
<1>3. j \in 1 .. i - 2 /\ bits[j] > 0
  <2>1. S # {}
    BY SomeAreShorter
  <2>2. S \in SUBSET Nat /\ i - 2 \in Nat /\ \A x \in S : x <= i - 2
    BY <1>2
  <2>3. j \in S
    <3> HIDE DEF S
    <3> QED
      BY <2>1, <2>2, MaxIsIn
  <2> QED
    BY <2>3
<1>4. after = [l \in 1 .. MAX_CLEN |-> bits[l] + Change(l)]
  <2>1. DOMAIN bits = 1 .. MAX_CLEN
    BY <1>1
  <2> QED
    BY <2>1 DEF MovePair
<1> HIDE DEF j, after
<1>5. /\ i \in 1 .. MAX_CLEN /\ i - 1 \in 1 .. MAX_CLEN /\ i \in 0 .. MAX_CLEN /\ i - 1 \in 0 .. MAX_CLEN
      /\ j \in Nat /\ j >= 1 /\ j + 1 <= i - 1
  BY <1>2, <1>3 DEF MAX_CLEN
<1>6. E[i] = 0
  BY <1>5, NothingDeeper
<1>7. E[i - 1] >= 1 /\ bits[i] = 2 * E[i - 1] /\ bits[i] >= 2
  <2>1. E[i] + bits[i] = 2 * E[i - 1] /\ E[i - 1] \in Nat /\ bits[i] \in Nat
    BY <1>1, <1>5
  <2> QED
    BY <1>6, <2>1
<1>8. after \in [1 .. MAX_CLEN -> Nat]
  <2>1. ASSUME NEW l \in 1 .. MAX_CLEN PROVE bits[l] + Change(l) \in Nat
    <3>1. bits[l] \in Nat /\ l \in Nat
      BY <1>1
    <3>2. CASE l = i
      <4>1. Change(l) = -2
        BY <1>5, <3>1, <3>2
      <4> QED
        BY <1>7, <3>1, <3>2, <4>1
    <3>3. CASE l = j
      <4>1. Change(l) = -1
        BY <1>2, <1>5, <3>1, <3>3
      <4> QED
        BY <1>3, <3>1, <3>3, <4>1
    <3>4. CASE l # i /\ l # j
      <4>1. Change(l) \in Nat
        BY <3>4
      <4> HIDE DEF Change
      <4> QED
        BY <3>1, <4>1
    <3> QED
      BY <3>2, <3>3, <3>4
  <2> HIDE DEF Change
  <2> QED
    BY <1>4, <2>1
<1>9. E1 \in [0 .. MAX_CLEN -> Nat]
  <2>1. ASSUME NEW l \in 0 .. MAX_CLEN PROVE E[l] + (IF l = j THEN 1 ELSE 0) + (IF l = i - 1 THEN -1 ELSE 0) \in Nat
    BY <1>1, <1>7
  <2> QED
    BY <2>1
<1>10. E1[0] = 1 /\ E1[MAX_CLEN] = 0
  BY <1>1, <1>2, <1>5 DEF MAX_CLEN
<1>11. ASSUME NEW l \in 1 .. MAX_CLEN PROVE E1[l] + after[l] = 2 * E1[l - 1]
  <2>1. /\ l \in 0 .. MAX_CLEN /\ l - 1 \in 0 .. MAX_CLEN /\ l \in Nat
        /\ E[l] + bits[l] = 2 * E[l - 1] /\ E[l] \in Nat /\ E[l - 1] \in Nat /\ bits[l] \in Nat
    BY <1>1 DEF MAX_CLEN
  <2>2. /\ E1[l] = E[l] + (IF l = j THEN 1 ELSE 0) + (IF l = i - 1 THEN -1 ELSE 0)
        /\ E1[l - 1] = E[l - 1] + (IF l - 1 = j THEN 1 ELSE 0) + (IF l - 1 = i - 1 THEN -1 ELSE 0)
        /\ after[l] = bits[l] + Change(l)
    BY <1>4, <2>1
  <2> HIDE DEF E1, C1
  <2>3. CASE l < j
    BY <1>2, <1>5, <2>1, <2>2, <2>3
  <2>4. CASE l = j
    BY <1>2, <1>5, <2>1, <2>2, <2>4
  <2>5. CASE l > j /\ l < i
    BY <1>2, <1>5, <2>1, <2>2, <2>5
  <2>6. CASE l = i
    BY <1>2, <1>5, <2>1, <2>2, <2>6
  <2>7. CASE l > i
    BY <1>2, <1>5, <2>1, <2>2, <2>7
  <2> QED
    BY <1>2, <1>5, <2>1, <2>3, <2>4, <2>5, <2>6, <2>7
<1>12. ASSUME NEW l \in 1 .. MAX_CLEN PROVE C1[l] = C1[l - 1] + after[l]
  <2>1. /\ l \in 0 .. MAX_CLEN /\ l - 1 \in 0 .. MAX_CLEN /\ l \in Nat
        /\ C[l] = C[l - 1] + bits[l] /\ C[l] \in Nat /\ C[l - 1] \in Nat /\ bits[l] \in Nat
    BY <1>1 DEF MAX_CLEN
  <2>2. /\ C1[l] = C[l] + (IF l >= j THEN -1 ELSE 0) + (IF l >= j + 1 THEN 2 ELSE 0)
                     + (IF l >= i - 1 THEN 1 ELSE 0) + (IF l >= i THEN -2 ELSE 0)
        /\ C1[l - 1] = C[l - 1] + (IF l - 1 >= j THEN -1 ELSE 0) + (IF l - 1 >= j + 1 THEN 2 ELSE 0)
                         + (IF l - 1 >= i - 1 THEN 1 ELSE 0) + (IF l - 1 >= i THEN -2 ELSE 0)
        /\ after[l] = bits[l] + Change(l)
    BY <1>4, <2>1
  <2> HIDE DEF E1, C1
  <2>3. CASE l < j
    BY <1>2, <1>5, <2>1, <2>2, <2>3
  <2>4. CASE l = j
    BY <1>2, <1>5, <2>1, <2>2, <2>4
  <2>5. CASE l > j /\ l < i
    BY <1>2, <1>5, <2>1, <2>2, <2>5
  <2>6. CASE l = i
    BY <1>2, <1>5, <2>1, <2>2, <2>6
  <2>7. CASE l > i
    BY <1>2, <1>5, <2>1, <2>2, <2>7
  <2> QED
    BY <1>2, <1>5, <2>1, <2>3, <2>4, <2>5, <2>6, <2>7
<1>13. C1[0] = 0 /\ C1[MAX_CLEN] = n
  <2>1. 0 \in 0 .. MAX_CLEN /\ MAX_CLEN \in 0 .. MAX_CLEN /\ MAX_CLEN >= i /\ MAX_CLEN \in Nat
    BY <1>2 DEF MAX_CLEN
  <2>2. C[MAX_CLEN] \in Nat
    BY <1>1, <2>1
  <2>3. C1[0] = C[0]
    <3>1. ~ (0 >= j) /\ ~ (0 >= j + 1) /\ ~ (0 >= i - 1) /\ ~ (0 >= i)
      BY <1>2, <1>5
    <3>2. C1[0] = C[0] + 0 + 0 + 0 + 0
      BY <2>1, <3>1
    <3> QED
      BY <1>1, <3>2
  <2>4. MAX_CLEN >= j /\ MAX_CLEN >= j + 1 /\ MAX_CLEN >= i - 1
    BY <1>2, <1>5, <2>1
  <2>5. C1[MAX_CLEN] = C[MAX_CLEN] + (-1) + 2 + 1 + (-2)
    BY <2>1, <2>4
  <2>6. C1[MAX_CLEN] = C[MAX_CLEN]
    BY <2>2, <2>5
  <2> QED
    BY <1>1, <2>3, <2>6
<1>14. C1 \in [0 .. MAX_CLEN -> Nat]
  <2>1. ASSUME NEW l \in 0 .. MAX_CLEN PROVE C1[l] \in Int
    <3>1. C[l] \in Int
      BY <1>1
    <3> QED
      BY <3>1
  <2>2. C1 = [l \in 0 .. MAX_CLEN |-> C1[l]]
    OBVIOUS
  <2> DEFINE Good == {k \in Nat : k <= MAX_CLEN => C1[k] \in Nat}
  <2>3. 0 \in Good
    BY <1>13
  <2>4. ASSUME NEW k \in Nat, k \in Good PROVE k + 1 \in Good
    <3> SUFFICES ASSUME k + 1 <= MAX_CLEN PROVE C1[k + 1] \in Nat
      OBVIOUS
    <3> HIDE DEF C1
    <3>1. k + 1 \in 1 .. MAX_CLEN /\ (k + 1) - 1 = k /\ k <= MAX_CLEN
      BY DEF MAX_CLEN
    <3>2. C1[k + 1] = C1[k] + after[k + 1] /\ C1[k] \in Nat
      BY <1>12, <2>4, <3>1
    <3>3. after[k + 1] \in Nat
      BY <1>8, <3>1
    <3> QED
      BY <3>2, <3>3
  <2>5. \A k \in Nat : k \in Good
    <3> HIDE DEF Good
    <3> QED
      BY <2>3, <2>4, NumberInduction
  <2>6. \A l \in 0 .. MAX_CLEN : C1[l] \in Nat
    <3> HIDE DEF C1
    <3> QED
      BY <2>5 DEF MAX_CLEN
  <2> HIDE DEF C1
  <2> QED
    BY <2>2, <2>6
<1> HIDE DEF E1, C1
<1>15. IsTree(after, E1, C1, n)
  BY <1>8, <1>9, <1>10, <1>11, <1>12, <1>13, <1>14 DEF IsTree
<1>16. after[i] = bits[i] - 2
  <2>1. Change(i) = -2
    BY <1>2, <1>5
  <2> HIDE DEF Change
  <2> QED
    BY <1>1, <1>4, <1>5, <2>1
<1>17. EmptyFrom(after, i + 1)
  <2> SUFFICES ASSUME NEW l \in 1 .. MAX_CLEN, l >= i + 1 PROVE after[l] = 0
    BY DEF EmptyFrom
  <2>1. bits[l] = 0
    BY DEF EmptyFrom
  <2>2. Change(l) = 0
    BY <1>2, <1>5
  <2> HIDE DEF Change
  <2> QED
    BY <1>4, <2>1, <2>2
<1> QED
  BY <1>15, <1>16, <1>17 DEF after

\* The numbers of leaves of the trees with n leaves, none of them in depth i or deeper.
Trees(n, i) == {b \in [1 .. MAX_CLEN -> Nat] : (\E E, C : IsTree(b, E, C, n)) /\ EmptyFrom(b, i)}

LEMMA EmptyKeepsTree ==
  ASSUME NEW n \in Nat, n <= 257, NEW i \in MaxLength + 1 .. MAX_CLEN, NEW bits \in Trees(n, i + 1)
  PROVE  EmptyLength(bits, i) \in Trees(n, i)
<1> DEFINE N == (bits[i] + 1) \div 2
           S == [1 .. MAX_CLEN -> Int]
           Eq(f) == f = [k \in 0 .. N |-> IF k = 0 THEN bits ELSE MovePair(f[k - 1], i)]
           moved == CHOOSE f : Eq(f)
<1>1. EmptyLength(bits, i) = moved[N]
  BY DEF EmptyLength
<1>2. N \in Nat /\ bits[i] = 2 * N /\ bits \in S
  <2>1. PICK E, C : IsTree(bits, E, C, n)
    BY DEF Trees
  <2>2. i \in 1 .. MAX_CLEN /\ i - 1 \in 0 .. MAX_CLEN /\ i \in 0 .. MAX_CLEN
    BY DEF MAX_CLEN, MaxLength
  <2>3. E[i] + bits[i] = 2 * E[i - 1] /\ E[i - 1] \in Nat /\ bits[i] \in Nat /\ bits \in S
    BY <2>1, <2>2 DEF IsTree
  <2>4. E[i] = 0
    BY <2>1, <2>2, NothingDeeper DEF Trees
  <2> DEFINE b == bits[i]
             e == E[i - 1]
  <2>5. b = 2 * e /\ e \in Nat
    BY <2>3, <2>4
  <2>6. N = (b + 1) \div 2
    OBVIOUS
  <2> HIDE DEF b, e, N, Eq, moved
  <2>7. N = e
    BY <2>5, <2>6
  <2> QED
    BY <2>3, <2>5, <2>7 DEF b
<1> HIDE DEF N
<1>3. Eq(moved)
  <2> DEFINE step == [k \in 1 .. N |-> [b \in S |-> MovePair(b, i)]]
  <2>1. step \in [1 .. N -> [S -> S]]
    BY MovePairType
  <2>2. \A k \in 1 .. N : \A b \in S : step[k][b] = MovePair(b, i)
    OBVIOUS
  <2> HIDE DEF step, S
  <2>3. PICK f \in [0 .. N -> S] : f[0] = bits /\ \A k \in 1 .. N : f[k] = step[k][f[k - 1]]
    BY <1>2, <2>1, Recursion
  <2>4. ASSUME NEW k \in 0 .. N PROVE f[k] = IF k = 0 THEN bits ELSE MovePair(f[k - 1], i)
    <3>1. k # 0 => k \in 1 .. N /\ f[k - 1] \in S
      BY <1>2, <2>3
    <3> QED
      BY <2>2, <2>3, <3>1
  <2>5. f = [k \in 0 .. N |-> f[k]]
    BY <2>3
  <2>6. Eq(f)
    BY <2>4, <2>5
  <2> HIDE DEF Eq
  <2> QED
    BY <2>6
<1> HIDE DEF moved
<1>4. moved[0] = bits /\ \A k \in 1 .. N : moved[k] = MovePair(moved[k - 1], i)
  BY <1>2, <1>3
<1> DEFINE Good == {k \in Nat : k <= N => moved[k] \in Trees(n, i + 1) /\ moved[k][i] = 2 * (N - k)}
<1>5. 0 \in Good
  <2>1. moved[0] \in Trees(n, i + 1) /\ moved[0][i] = 2 * (N - 0)
    BY <1>2, <1>4
  <2> QED
    BY <2>1
<1>6. ASSUME NEW k \in Nat, k \in Good PROVE k + 1 \in Good
  <2> SUFFICES ASSUME k + 1 <= N
               PROVE  moved[k + 1] \in Trees(n, i + 1) /\ moved[k + 1][i] = 2 * (N - (k + 1))
    OBVIOUS
  <2> DEFINE b == moved[k]
  <2>1. b \in Trees(n, i + 1) /\ b[i] = 2 * (N - k) /\ b[i] > 0
    BY <1>2, <1>6
  <2>2. moved[k + 1] = MovePair(b, i)
    BY <1>2, <1>4
  <2> HIDE DEF b
  <2>3. PICK E, C : IsTree(b, E, C, n)
    BY <2>1 DEF Trees
  <2>4. EmptyFrom(b, i + 1)
    BY <2>1 DEF Trees
  <2>5. /\ \E E1, C1 : IsTree(MovePair(b, i), E1, C1, n)
        /\ EmptyFrom(MovePair(b, i), i + 1)
        /\ MovePair(b, i)[i] = b[i] - 2
    BY <2>1, <2>3, <2>4, MoveKeepsTree
  <2>6. MovePair(b, i) \in Trees(n, i + 1)
    BY <2>5 DEF Trees, IsTree
  <2>7. b[i] - 2 = 2 * (N - (k + 1))
    BY <1>2, <2>1
  <2> QED
    BY <2>2, <2>5, <2>6, <2>7
<1>7. N \in Good
  <2> HIDE DEF Good
  <2> QED
    BY <1>2, <1>5, <1>6, NumberInduction
<1>8. moved[N] \in Trees(n, i + 1) /\ moved[N][i] = 0
  BY <1>2, <1>7
<1>9. ASSUME NEW l \in 1 .. MAX_CLEN, l >= i PROVE moved[N][l] = 0
  <2>1. l = i \/ l >= i + 1
    BY <1>9 DEF MAX_CLEN, MaxLength
  <2> QED
    BY <1>8, <2>1 DEF Trees, EmptyFrom
<1> QED
  BY <1>1, <1>8, <1>9 DEF Trees, EmptyFrom

\* The loop over the lengths from 32 down to 17 leaves none of them in use.
LEMMA CutIsTree ==
  ASSUME NEW n \in Nat, n <= 257, NEW cut, cut[0] \in Trees(n, MAX_CLEN + 1),
         \A k \in 1 .. MAX_CLEN - MaxLength :
           cut[k - 1] \in Trees(n, MAX_CLEN + 1 - (k - 1)) => cut[k] = EmptyLength(cut[k - 1], MAX_CLEN + 1 - k)
  PROVE  \A k \in 0 .. MAX_CLEN - MaxLength : cut[k] \in Trees(n, MAX_CLEN + 1 - k)
<1> DEFINE Good == {k \in Nat : k <= MAX_CLEN - MaxLength => cut[k] \in Trees(n, MAX_CLEN + 1 - k)}
<1>1. 0 \in Good
  BY DEF MAX_CLEN, MaxLength
<1>2. ASSUME NEW k \in Nat, k \in Good PROVE k + 1 \in Good
  <2> SUFFICES ASSUME k + 1 <= MAX_CLEN - MaxLength PROVE cut[k + 1] \in Trees(n, MAX_CLEN + 1 - (k + 1))
    OBVIOUS
  <2> DEFINE i == MAX_CLEN + 1 - (k + 1)
  <2>1. /\ i \in MaxLength + 1 .. MAX_CLEN /\ MAX_CLEN + 1 - k = i + 1
        /\ k + 1 \in 1 .. MAX_CLEN - MaxLength /\ (k + 1) - 1 = k /\ k <= MAX_CLEN - MaxLength
    BY DEF MAX_CLEN, MaxLength
  <2>2. cut[k] \in Trees(n, MAX_CLEN + 1 - k)
    BY <1>2, <2>1
  <2>3. cut[k + 1] = EmptyLength(cut[k], i)
    BY <2>1, <2>2
  <2> HIDE DEF i
  <2>4. EmptyLength(cut[k], i) \in Trees(n, i)
    BY <2>1, <2>2, EmptyKeepsTree
  <2> QED
    BY <2>3, <2>4 DEF i
<1> HIDE DEF Good
<1>3. \A k \in Nat : k \in Good
  BY <1>1, <1>2, NumberInduction
<1> QED
  BY <1>3 DEF Good, MAX_CLEN, MaxLength

\* However deep the tree was, up to MAX_CLEN: its codes are shortened to 16 bits and
\* remain those of a tree with as many leaves.
LEMMA ShortenKeepsTree ==
  ASSUME NEW n \in Nat, n <= 257, NEW bits \in Trees(n, MAX_CLEN + 1)
  PROVE  Shorten(bits) \in Trees(n, MaxLength + 1)
<1> DEFINE N == MAX_CLEN - MaxLength
           S == [1 .. MAX_CLEN -> Nat]
           Eq(f) == f = [k \in 0 .. N |-> IF k = 0 THEN bits ELSE EmptyLength(f[k - 1], MAX_CLEN + 1 - k)]
           cut == CHOOSE f : Eq(f)
<1>1. Shorten(bits) = cut[N]
  BY DEF Shorten
<1>2. N \in Nat /\ bits \in S /\ \A k \in Nat : Trees(n, k) \subseteq S
  BY DEF MAX_CLEN, MaxLength, Trees
<1>3. Eq(cut)
  <2> DEFINE After(b, k) == EmptyLength(b, MAX_CLEN + 1 - k)
             step == [k \in 1 .. N |-> [b \in S |-> IF After(b, k) \in S THEN After(b, k) ELSE b]]
  <2>1. step \in [1 .. N -> [S -> S]]
    <3> HIDE DEF After, S
    <3> QED
      OBVIOUS
  <2>2. \A k \in 1 .. N : \A b \in S : After(b, k) \in S => step[k][b] = After(b, k)
    <3> HIDE DEF After, S
    <3> QED
      OBVIOUS
  <2>3. PICK f \in [0 .. N -> S] : f[0] = bits /\ \A k \in 1 .. N : f[k] = step[k][f[k - 1]]
    <3> HIDE DEF step, S, N
    <3> QED
      BY <1>2, <2>1, Recursion
  <2>4. ASSUME NEW k \in 1 .. N, f[k - 1] \in Trees(n, MAX_CLEN + 1 - (k - 1))
        PROVE  f[k] = EmptyLength(f[k - 1], MAX_CLEN + 1 - k)
    <3>1. MAX_CLEN + 1 - k \in MaxLength + 1 .. MAX_CLEN /\ MAX_CLEN + 1 - (k - 1) = (MAX_CLEN + 1 - k) + 1
      BY DEF MAX_CLEN, MaxLength
    <3>2. After(f[k - 1], k) \in Trees(n, MAX_CLEN + 1 - k)
      BY <2>4, <3>1, EmptyKeepsTree
    <3>3. After(f[k - 1], k) \in S /\ f[k - 1] \in S
      BY <2>4, <3>2 DEF Trees
    <3> HIDE DEF S, step
    <3> QED
      BY <2>2, <2>3, <3>3
  <2>5. \A k \in 0 .. N : f[k] \in Trees(n, MAX_CLEN + 1 - k)
    <3>1. f[0] \in Trees(n, MAX_CLEN + 1)
      BY <2>3
    <3> QED
      BY <2>4, <3>1, CutIsTree
  <2>6. ASSUME NEW k \in 0 .. N PROVE f[k] = IF k = 0 THEN bits ELSE EmptyLength(f[k - 1], MAX_CLEN + 1 - k)
    <3>1. CASE k = 0
      BY <2>3, <3>1
    <3>2. CASE k # 0
      <4>1. k \in 1 .. N /\ k - 1 \in 0 .. N
        BY <3>2 DEF MAX_CLEN, MaxLength
      <4> HIDE DEF N
      <4> QED
        BY <2>4, <2>5, <3>2, <4>1
    <3> QED
      BY <3>1, <3>2
  <2>7. f = [k \in 0 .. N |-> f[k]]
    BY <2>3
  <2>8. Eq(f)
    BY <2>6, <2>7
  <2> HIDE DEF Eq
  <2> QED
    BY <2>8
<1> HIDE DEF cut
<1>4. cut[0] = bits /\ \A k \in 1 .. N : cut[k] = EmptyLength(cut[k - 1], MAX_CLEN + 1 - k)
  <2> HIDE DEF N
  <2> QED
    BY <1>2, <1>3
<1>5. \A k \in 0 .. N : cut[k] \in Trees(n, MAX_CLEN + 1 - k)
  BY <1>4, CutIsTree
<1>6. MAX_CLEN + 1 - N = MaxLength + 1 /\ N \in 0 .. N
  BY DEF MAX_CLEN, MaxLength
<1> QED
  BY <1>1, <1>5, <1>6

\* With the deepest leaves all are counted.
LEMMA AllCounted ==
  ASSUME NEW bits, NEW E, NEW C, NEW n, IsTree(bits, E, C, n), NEW l \in 0 .. MAX_CLEN, EmptyFrom(bits, l + 1)
  PROVE  C[l] = n
<1> DEFINE Good == {k \in Nat : l + k <= MAX_CLEN => C[l] = C[l + k]}
<1>1. 0 \in Good
  OBVIOUS
<1>2. ASSUME NEW k \in Nat, k \in Good PROVE k + 1 \in Good
  <2> DEFINE d == l + k + 1
  <2> SUFFICES ASSUME d <= MAX_CLEN PROVE C[l] = C[d]
    OBVIOUS
  <2>1. d \in 1 .. MAX_CLEN /\ d - 1 \in 0 .. MAX_CLEN /\ d - 1 = l + k /\ l + k <= MAX_CLEN /\ d >= l + 1
    BY DEF MAX_CLEN
  <2>2. C[l] = C[d - 1]
    BY <1>2, <2>1
  <2> HIDE DEF d
  <2>3. C[d] = C[d - 1] + bits[d] /\ C[d - 1] \in Nat /\ bits[d] = 0
    BY <2>1 DEF IsTree, EmptyFrom
  <2> QED
    BY <2>2, <2>3
<1>3. MAX_CLEN - l \in Good
  <2>1. MAX_CLEN - l \in Nat
    BY DEF MAX_CLEN
  <2> HIDE DEF Good
  <2> QED
    BY <1>1, <1>2, <2>1, NumberInduction
<1>4. l + (MAX_CLEN - l) = MAX_CLEN /\ MAX_CLEN <= MAX_CLEN
  BY DEF MAX_CLEN
<1> QED
  BY <1>3, <1>4 DEF IsTree

\* Without one of the longest codes the lengths of a tree make a table whose codes all
\* fit and leave the one of all ones.
LEMMA LimitedTable ==
  ASSUME NEW n \in Nat, NEW bits \in Trees(n, MaxLength + 1), NEW htbl, htbl.bits = LimitedBits(bits)
  PROVE  /\ htbl.bits \in Bits
         /\ LastPlace(htbl) = n - 1
         /\ \A l \in 1 .. MaxLength : htbl.bits[l] > 0 => FirstCodes(htbl)[l] + htbl.bits[l] < 2 ^ l
<1> DEFINE L == LongestInUse(bits)
           b == htbl.bits
           F == FirstCodes(htbl)
           H == FirstPlaces(htbl)
<1>1. PICK E, C : IsTree(bits, E, C, n)
  BY DEF Trees
<1>2. EmptyFrom(bits, MaxLength + 1)
  BY DEF Trees
<1>3. /\ \A l \in 0 .. MAX_CLEN : E[l] \in Nat /\ C[l] \in Nat
      /\ \A l \in 1 .. MAX_CLEN : bits[l] \in Nat /\ E[l] + bits[l] = 2 * E[l - 1] /\ C[l] = C[l - 1] + bits[l]
      /\ E[0] = 1 /\ C[0] = 0 /\ DOMAIN bits = 1 .. MAX_CLEN
  BY <1>1 DEF IsTree
<1>4. L \in 1 .. MaxLength /\ bits[L] > 0 /\ EmptyFrom(bits, L + 1)
  <2> DEFINE S == {l \in DOMAIN bits : bits[l] > 0}
  <2>1. S # {}
    <3>1. SUFFICES ASSUME S = {} PROVE FALSE
      OBVIOUS
    <3>2. \A l \in 1 .. MAX_CLEN : bits[l] = 0
      BY <1>3, <3>1
    <3>3. EmptyFrom(bits, 0 + 1) /\ 0 \in 0 .. MAX_CLEN
      BY <3>2 DEF EmptyFrom, MAX_CLEN
    <3>4. E[0] = 0
      BY <1>1, <3>3, NothingDeeper
    <3> QED
      BY <1>3, <3>4
  <2>2. S \in SUBSET Nat /\ MAX_CLEN \in Nat /\ \A x \in S : x <= MAX_CLEN
    BY <1>3 DEF MAX_CLEN
  <2>3. L \in S /\ \A x \in S : x <= L
    <3> HIDE DEF S
    <3>1. Max(S) \in S /\ \A x \in S : x <= Max(S)
      BY <2>1, <2>2, MaxIsIn
    <3> QED
      BY <3>1 DEF LongestInUse, S
  <2> HIDE DEF L
  <2>4. L \in 1 .. MAX_CLEN /\ bits[L] > 0
    BY <1>3, <2>3
  <2>5. ~ (L >= MaxLength + 1)
    BY <1>2, <2>4 DEF EmptyFrom
  <2>6. ASSUME NEW l \in 1 .. MAX_CLEN, l >= L + 1 PROVE bits[l] = 0
    <3>1. ~ (l <= L)
      BY <2>4, <2>6 DEF MAX_CLEN
    <3>2. l \notin S
      BY <2>3, <3>1
    <3>3. bits[l] \in Nat /\ ~ (bits[l] > 0)
      BY <1>3, <3>2
    <3> QED
      BY <3>3
  <2> QED
    BY <2>4, <2>5, <2>6 DEF EmptyFrom, MaxLength, MAX_CLEN
<1>5. b = [l \in 1 .. MaxLength |-> IF l = L THEN bits[l] - 1 ELSE bits[l]]
  BY DEF LimitedBits, DropPseudo
<1> HIDE DEF L, b
<1>6. b \in Bits
  <2>1. \A l \in 1 .. MaxLength : (IF l = L THEN bits[l] - 1 ELSE bits[l]) \in Nat
    BY <1>3, <1>4 DEF MaxLength, MAX_CLEN
  <2> QED
    BY <1>5, <2>1 DEF Bits
<1>7. /\ F[1] = 0 /\ \A l \in 2 .. MaxLength : F[l] = 2 * (F[l - 1] + b[l - 1])
      /\ H[1] = 1 /\ \A l \in 2 .. MaxLength : H[l] = H[l - 1] + b[l - 1]
      /\ \A l \in 1 .. MaxLength : F[l] \in Nat /\ H[l] \in Nat /\ b[l] \in Nat
  BY <1>6, FirstCodesFacts, FirstPlacesFacts DEF b, Bits
<1> HIDE DEF F, H
<1>8. L \in 0 .. MAX_CLEN /\ L \in Nat
  BY <1>4 DEF MaxLength, MAX_CLEN
<1>9. E[L] = 0
  BY <1>1, <1>4, <1>8, NothingDeeper
<1>10. ASSUME NEW l \in 0 .. MAX_CLEN, l < L PROVE E[l] >= 1
  <2>1. E[l] # 0
    BY <1>1, <1>4, <1>8, <1>10, NoBranchesNoLeaves
  <2> QED
    BY <1>3, <2>1
<1> DEFINE One(l) == IF l = L THEN 1 ELSE 0
           Upto(l) == IF l >= L THEN 1 ELSE 0
<1>11. \A l \in 1 .. MaxLength : /\ b[l] = bits[l] - One(l) /\ bits[l] \in Nat
                                 /\ E[l] + bits[l] = 2 * E[l - 1] /\ C[l] = C[l - 1] + bits[l]
                                 /\ E[l] \in Nat /\ E[l - 1] \in Nat /\ C[l] \in Nat /\ C[l - 1] \in Nat
  <2> TAKE l \in 1 .. MaxLength
  <2>1. l \in 1 .. MAX_CLEN /\ l \in 0 .. MAX_CLEN /\ l - 1 \in 0 .. MAX_CLEN
    BY DEF MaxLength, MAX_CLEN
  <2>2. b[l] = bits[l] - One(l)
    BY <1>3, <1>5, <2>1
  <2> QED
    BY <1>3, <2>1, <2>2
<1> DEFINE Full == {k \in Nat : k + 1 <= L => F[k + 1] + b[k + 1] = 2 ^ (k + 1) - E[k + 1] - One(k + 1)}
           Counted == {k \in Nat : k + 1 <= MaxLength => H[k + 1] + b[k + 1] - 1 = C[k + 1] - Upto(k + 1)}
<1>12. 0 \in Full /\ 0 \in Counted
  <2>1. 1 \in 1 .. MaxLength /\ 2 ^ 1 = 2 /\ 1 - 1 = 0
    BY PowerStep, PowerZero DEF MaxLength
  <2>2. b[1] = bits[1] - One(1) /\ bits[1] \in Nat /\ E[1] + bits[1] = 2 /\ C[1] = bits[1] /\ E[1] \in Nat
    BY <1>3, <1>11, <2>1
  <2>3. Upto(1) = One(1) /\ One(1) \in 0 .. 1
    BY <1>4, <1>8
  <2> HIDE DEF Upto, One
  <2>4. F[1] + b[1] = 2 ^ 1 - E[1] - One(1)
    BY <1>7, <2>1, <2>2, <2>3
  <2>5. H[1] + b[1] - 1 = C[1] - Upto(1)
    BY <1>7, <2>1, <2>2, <2>3
  <2> QED
    BY <2>4, <2>5
<1>13. ASSUME NEW k \in Nat, k \in Full PROVE k + 1 \in Full
  <2> DEFINE l == k + 2
             P == 2 ^ (k + 1)
  <2> SUFFICES ASSUME l <= L PROVE F[l] + b[l] = 2 ^ l - E[l] - One(l)
    OBVIOUS
  <2>1. l \in 1 .. MaxLength /\ l \in 2 .. MaxLength /\ l - 1 = k + 1 /\ k + 1 <= L /\ k + 1 # L /\ k + 1 \in 1 .. MaxLength
    BY <1>4 DEF MaxLength
  <2>2. F[k + 1] + b[k + 1] = P - E[k + 1] - One(k + 1) /\ One(k + 1) = 0
    BY <1>13, <2>1
  <2>3. P \in Nat /\ 2 ^ l = 2 * P
    <3>1. 2 ^ ((k + 1) + 1) = 2 * P /\ (k + 1) + 1 = k + 2 /\ P \in Nat
      BY PowerStep
    <3> QED
      BY <3>1
  <2>4. One(l) \in 0 .. 1
    OBVIOUS
  <2> HIDE DEF l, P, One
  <2>5. F[l] = 2 * (F[k + 1] + b[k + 1])
    BY <1>7, <2>1
  <2>6. /\ b[l] = bits[l] - One(l) /\ E[l] + bits[l] = 2 * E[k + 1] /\ bits[l] \in Nat /\ E[l] \in Nat
        /\ E[k + 1] \in Nat
    BY <1>11, <2>1
  <2>7. F[k + 1] \in Nat /\ b[k + 1] \in Nat
    BY <1>7, <2>1
  <2> QED
    BY <2>2, <2>3, <2>4, <2>5, <2>6, <2>7
<1>14. ASSUME NEW k \in Nat, k \in Counted PROVE k + 1 \in Counted
  <2> DEFINE l == k + 2
  <2> SUFFICES ASSUME l <= MaxLength PROVE H[l] + b[l] - 1 = C[l] - Upto(l)
    OBVIOUS
  <2>1. l \in 1 .. MaxLength /\ l \in 2 .. MaxLength /\ l - 1 = k + 1 /\ k + 1 <= MaxLength /\ k + 1 \in 1 .. MaxLength
    BY DEF MaxLength
  <2>2. H[k + 1] + b[k + 1] - 1 = C[k + 1] - Upto(k + 1)
    BY <1>14, <2>1
  <2>3. Upto(l) = Upto(k + 1) + One(l) /\ One(l) \in 0 .. 1 /\ Upto(k + 1) \in 0 .. 1
    BY <1>8
  <2> HIDE DEF l, One, Upto
  <2>4. H[l] = H[k + 1] + b[k + 1]
    BY <1>7, <2>1
  <2>5. b[l] = bits[l] - One(l) /\ C[l] = C[k + 1] + bits[l] /\ bits[l] \in Nat /\ C[k + 1] \in Nat
    BY <1>11, <2>1
  <2>6. H[k + 1] \in Nat /\ b[k + 1] \in Nat
    BY <1>7, <2>1
  <2> QED
    BY <2>2, <2>3, <2>4, <2>5, <2>6
<1>15. \A k \in Nat : k \in Full /\ k \in Counted
  <2> HIDE DEF Full, Counted
  <2> QED
    BY <1>12, <1>13, <1>14, NumberInduction
<1>16. LastPlace(htbl) = n - 1
  <2>1. MaxLength - 1 \in Counted /\ (MaxLength - 1) + 1 = MaxLength
    BY <1>15 DEF MaxLength
  <2>2. Upto(MaxLength) = 1
    BY <1>4 DEF MaxLength
  <2> HIDE DEF Upto
  <2>3. H[MaxLength] + b[MaxLength] - 1 = C[MaxLength] - 1
    BY <2>1, <2>2 DEF MaxLength
  <2>4. C[MaxLength] = n
    <3>1. MaxLength \in 0 .. MAX_CLEN
      BY DEF MaxLength, MAX_CLEN
    <3> QED
      BY <1>1, <1>2, <3>1, AllCounted
  <2> QED
    BY <2>3, <2>4 DEF LastPlace, H, b
<1>17. ASSUME NEW l \in 1 .. MaxLength, b[l] > 0 PROVE F[l] + b[l] < 2 ^ l
  <2>1. l <= L
    <3>1. CASE l >= L + 1
      <4>1. bits[l] = 0
        BY <1>4, <3>1 DEF EmptyFrom, MaxLength, MAX_CLEN
      <4>2. One(l) \in Nat
        OBVIOUS
      <4> HIDE DEF One
      <4> QED
        BY <1>11, <1>17, <4>1, <4>2
    <3> QED
      BY <1>8, <3>1 DEF MaxLength
  <2>2. l - 1 \in Full /\ (l - 1) + 1 = l
    BY <1>15
  <2>3. F[l] + b[l] = 2 ^ l - E[l] - One(l)
    BY <2>1, <2>2
  <2>4. 2 ^ l \in Nat
    BY PowerStep
  <2>5. E[l] + One(l) >= 1 /\ E[l] \in Nat /\ One(l) \in Nat
    <3>1. l \in 0 .. MAX_CLEN
      BY DEF MaxLength, MAX_CLEN
    <3>2. CASE l = L
      BY <1>9, <3>2
    <3>3. CASE l # L
      <4>1. l < L /\ One(l) = 0
        BY <1>8, <2>1, <3>3
      <4>2. E[l] >= 1 /\ E[l] \in Nat
        BY <1>3, <1>10, <3>1, <4>1
      <4> QED
        BY <4>1, <4>2
    <3> QED
      BY <3>2, <3>3
  <2> HIDE DEF One
  <2> QED
    BY <2>3, <2>4, <2>5
<1> QED
  BY <1>6, <1>16, <1>17 DEF b, F

(***************************************************************************)
(* The trees that are merged                                               *)
(***************************************************************************)

LEMMA SmallestExists ==
  ASSUME NEW S \in SUBSET (0 .. Pseudo), S # {}, NEW freq, \A s \in S : freq[s] \in Nat
  PROVE  Smallest(freq, S) \in S
<1> DEFINE Least(c) == \A d \in S : freq[c] <= freq[d]
           Good == {k \in Nat : (\E c \in S : freq[c] <= k) => \E c \in S : Least(c)}
<1>1. 0 \in Good
  OBVIOUS
<1>2. ASSUME NEW k \in Nat, k \in Good PROVE k + 1 \in Good
  <2> SUFFICES ASSUME NEW c \in S, freq[c] <= k + 1 PROVE \E e \in S : Least(e)
    OBVIOUS
  <2>1. CASE \E e \in S : freq[e] <= k
    BY <1>2, <2>1
  <2>2. CASE ~ \E e \in S : freq[e] <= k
    <3>1. Least(c)
      BY <2>2
    <3> QED
      BY <3>1
  <2> QED
    BY <2>1, <2>2
<1>3. \A k \in Nat : k \in Good
  <2> HIDE DEF Good
  <2> QED
    BY <1>1, <1>2, NumberInduction
<1>4. PICK c \in S : Least(c)
  <2>1. PICK e \in S : TRUE
    OBVIOUS
  <2>2. freq[e] \in Good /\ freq[e] <= freq[e]
    BY <1>3
  <2> QED
    BY <2>2
<1> DEFINE T == {e \in S : freq[e] = freq[c]}
           m == Max(T)
<1>5. m \in T /\ \A e \in T : e <= m
  <2> HIDE DEF Least, Good, m
  <2>1. \A x \in T : x \in Nat /\ x <= Pseudo
    BY DEF Pseudo
  <2>2. T \in SUBSET Nat
    BY <2>1
  <2>3. Pseudo \in Nat
    BY DEF Pseudo
  <2>4. c \in T
    OBVIOUS
  <2> HIDE DEF T
  <2> QED
    BY <2>1, <2>2, <2>3, <2>4, MaxIsIn DEF m
<1> HIDE DEF m
<1>6. m \in S /\ \A d \in S : freq[m] < freq[d] \/ (freq[m] = freq[d] /\ m >= d)
  <2> HIDE DEF Least
  <2>1. m \in S /\ freq[m] = freq[c]
    BY <1>5
  <2>2. ASSUME NEW d \in S PROVE freq[m] < freq[d] \/ (freq[m] = freq[d] /\ m >= d)
    <3>1. freq[m] <= freq[d] /\ freq[m] \in Nat /\ freq[d] \in Nat
      BY <1>4, <2>1 DEF Least
    <3>2. CASE freq[d] = freq[m]
      <4>1. d \in T
        BY <2>1, <3>2
      <4>2. d <= m /\ d \in Nat /\ m \in Nat
        BY <1>5, <4>1 DEF Pseudo
      <4> QED
        BY <3>2, <4>2
    <3> QED
      BY <3>1, <3>2
  <2> QED
    BY <2>1, <2>2
<1> QED
  BY <1>6 DEF Smallest

\* The symbols in S whose codes have l bits.
OfSize(S, z, l) == {s \in S : z[s] = l}

\* E are the numbers of the nodes that branch, in each depth of a tree with the
\* symbols of S in the depths z.
IsBranch(S, z, E) ==
  /\ E \in [Nat -> Nat]
  /\ E[0] + Cardinality(OfSize(S, z, 0)) = 1
  /\ \A l \in Nat : E[l + 1] + Cardinality(OfSize(S, z, l + 1)) = 2 * E[l]
  /\ \A l \in Nat : (\A s \in S : z[s] <= l) => E[l] = 0

\* A symbol alone.
LEMMA LeafIsBranch == ASSUME NEW s, NEW z, z[s] = 0 PROVE \E E : IsBranch({s}, z, E)
<1> DEFINE E == [l \in Nat |-> 0]
<1>1. OfSize({s}, z, 0) = {s} /\ \A l \in Nat : OfSize({s}, z, l + 1) = {}
  BY DEF OfSize
<1>2. Cardinality({s}) = 1 /\ Cardinality({}) = 0
  BY FS_Singleton, FS_EmptySet
<1>3. E \in [Nat -> Nat] /\ \A l \in Nat : E[l] = 0 /\ l + 1 \in Nat
  OBVIOUS
<1> HIDE DEF E
<1>4. IsBranch({s}, z, E)
  <2>1. E[0] + Cardinality(OfSize({s}, z, 0)) = 1
    BY <1>1, <1>2, <1>3
  <2>2. ASSUME NEW l \in Nat PROVE E[l + 1] + Cardinality(OfSize({s}, z, l + 1)) = 2 * E[l]
    <3>1. E[l] = 0 /\ E[l + 1] = 0
      BY <1>3
    <3>2. Cardinality(OfSize({s}, z, l + 1)) = 0
      BY <1>1, <1>2
    <3> QED
      BY <3>1, <3>2
  <2> QED
    BY <1>3, <2>1, <2>2 DEF IsBranch
<1> QED
  BY <1>4

\* Two trees under one node: their symbols are one bit deeper.
LEMMA MergedBranch ==
  ASSUME NEW S, IsFiniteSet(S), NEW T, IsFiniteSet(T), S \cap T = {}, S # {}, NEW z, NEW y,
         \A s \in S \union T : z[s] \in Nat /\ y[s] = z[s] + 1,
         NEW E, IsBranch(S, z, E), NEW F, IsBranch(T, z, F)
  PROVE  \E G : IsBranch(S \union T, y, G)
<1> DEFINE G == [l \in Nat |-> IF l = 0 THEN 1 ELSE E[l - 1] + F[l - 1]]
           U == S \union T
<1>1. E \in [Nat -> Nat] /\ F \in [Nat -> Nat]
  BY DEF IsBranch
<1>2. /\ G \in [Nat -> Nat] /\ G[0] = 1
      /\ \A l \in Nat : G[l + 1] = E[l] + F[l] /\ E[l] \in Nat /\ F[l] \in Nat
  <2>1. \A l \in Nat : (IF l = 0 THEN 1 ELSE E[l - 1] + F[l - 1]) \in Nat
    BY <1>1
  <2>2. G \in [Nat -> Nat] /\ G[0] = 1
    BY <2>1
  <2>3. ASSUME NEW l \in Nat PROVE G[l + 1] = E[l] + F[l] /\ E[l] \in Nat /\ F[l] \in Nat
    <3>1. l + 1 \in Nat /\ l + 1 # 0 /\ (l + 1) - 1 = l
      OBVIOUS
    <3> QED
      BY <1>1, <3>1
  <2> QED
    BY <2>2, <2>3
<1> HIDE DEF G
<1>3. Cardinality(OfSize(U, y, 0)) = 0
  <2>1. OfSize(U, y, 0) = {}
    BY DEF OfSize
  <2> QED
    BY <2>1, FS_EmptySet
<1>4. ASSUME NEW l \in Nat
      PROVE  /\ Cardinality(OfSize(U, y, l + 1)) = Cardinality(OfSize(S, z, l)) + Cardinality(OfSize(T, z, l))
             /\ Cardinality(OfSize(S, z, l)) \in Nat /\ Cardinality(OfSize(T, z, l)) \in Nat
  <2>1. OfSize(U, y, l + 1) = OfSize(S, z, l) \union OfSize(T, z, l)
    BY DEF OfSize
  <2>2. OfSize(S, z, l) \in SUBSET S /\ OfSize(T, z, l) \in SUBSET T
    BY DEF OfSize
  <2>3. IsFiniteSet(OfSize(S, z, l)) /\ IsFiniteSet(OfSize(T, z, l)) /\ OfSize(S, z, l) \cap OfSize(T, z, l) = {}
    BY <2>2, FS_Subset
  <2>4. Cardinality({}) = 0
    BY FS_EmptySet
  <2> DEFINE A == OfSize(S, z, l)
             B == OfSize(T, z, l)
  <2>5. IsFiniteSet(A) /\ IsFiniteSet(B) /\ Cardinality(A \cap B) = 0
    BY <2>3, <2>4
  <2> HIDE DEF A, B
  <2>6. /\ Cardinality(A \union B) = Cardinality(A) + Cardinality(B) - Cardinality(A \cap B)
        /\ Cardinality(A) \in Nat /\ Cardinality(B) \in Nat
    BY <2>5, FS_Union, FS_CardinalityType
  <2>7. Cardinality(A \union B) = Cardinality(A) + Cardinality(B)
    BY <2>5, <2>6
  <2> QED
    BY <2>1, <2>6, <2>7 DEF A, B
<1>5. /\ E[0] + Cardinality(OfSize(S, z, 0)) = 1 /\ F[0] + Cardinality(OfSize(T, z, 0)) = 1
      /\ \A l \in Nat : /\ E[l + 1] + Cardinality(OfSize(S, z, l + 1)) = 2 * E[l]
                        /\ F[l + 1] + Cardinality(OfSize(T, z, l + 1)) = 2 * F[l]
      /\ \A l \in Nat : /\ (\A s \in S : z[s] <= l) => E[l] = 0
                        /\ (\A s \in T : z[s] <= l) => F[l] = 0
  BY DEF IsBranch
<1>6. ASSUME NEW l \in Nat PROVE G[l + 1] + Cardinality(OfSize(U, y, l + 1)) = 2 * G[l]
  <2> DEFINE a == Cardinality(OfSize(S, z, l))
             b == Cardinality(OfSize(T, z, l))
             both == Cardinality(OfSize(U, y, l + 1))
  <2>0. both = a + b /\ a \in Nat /\ b \in Nat
    BY <1>4
  <2>1. CASE l = 0
    <3>1. E[0] + a = 1 /\ F[0] + b = 1 /\ E[0] \in Nat /\ F[0] \in Nat /\ G[0] = 1 /\ G[l + 1] = E[0] + F[0]
      BY <1>2, <1>5, <2>1
    <3> HIDE DEF a, b, both
    <3>2. G[l + 1] + both = 2 * G[0]
      BY <2>0, <3>1
    <3> QED
      BY <2>1, <3>2 DEF both
  <2>2. CASE l # 0
    <3> DEFINE m == l - 1
    <3>1. m \in Nat /\ l = m + 1
      BY <2>2
    <3> HIDE DEF m
    <3>2. /\ G[l + 1] = E[l] + F[l] /\ G[l] = E[m] + F[m]
          /\ E[l] \in Nat /\ F[l] \in Nat /\ E[m] \in Nat /\ F[m] \in Nat
      BY <1>2, <3>1
    <3>3. E[l] + a = 2 * E[m] /\ F[l] + b = 2 * F[m]
      BY <1>5, <3>1
    <3> HIDE DEF a, b, both
    <3>4. G[l + 1] + both = 2 * G[l]
      BY <2>0, <3>2, <3>3
    <3> QED
      BY <3>4 DEF both
  <2> QED
    BY <2>1, <2>2
<1>7. ASSUME NEW l \in Nat, \A s \in U : y[s] <= l PROVE G[l] = 0
  <2>1. PICK s \in S : TRUE
    OBVIOUS
  <2>2. z[s] \in Nat /\ z[s] + 1 <= l
    BY <1>7, <2>1
  <2> DEFINE m == l - 1
  <2>3. m \in Nat /\ l = m + 1
    BY <2>2
  <2> HIDE DEF m
  <2>4. \A t \in S \union T : z[t] <= m
    BY <1>7, <2>3
  <2>5. E[m] = 0 /\ F[m] = 0
    BY <1>5, <2>3, <2>4
  <2> QED
    BY <1>2, <2>3, <2>5
<1>8. IsBranch(U, y, G)
  <2>1. G[0] + Cardinality(OfSize(U, y, 0)) = 1
    BY <1>2, <1>3
  <2> HIDE DEF U
  <2> QED
    BY <1>2, <1>6, <1>7, <2>1 DEF IsBranch
<1> QED
  BY <1>8

\* The trees with the symbols of S: each in one of them, its code so far as long as it
\* is deep there.
Forest(S) == [freq     : UNION {[A -> Nat] : A \in SUBSET S},
              branch   : UNION {[A -> SUBSET S] : A \in SUBSET S},
              codesize : [S -> Nat]]
TreesOf(t, S) ==
  /\ t \in Forest(S) /\ DOMAIN t.freq = DOMAIN t.branch
  /\ \A c \in DOMAIN t.branch : t.branch[c] # {}
  /\ \A c, d \in DOMAIN t.branch : c # d => t.branch[c] \cap t.branch[d] = {}
  /\ \A s \in S : \E c \in DOMAIN t.branch : s \in t.branch[c]
  /\ \A c \in DOMAIN t.branch : \E E : IsBranch(t.branch[c], t.codesize, E)
  /\ \A c \in DOMAIN t.branch : \A s \in t.branch[c] : t.codesize[s] = 0 => t.branch[c] = {s}

LEMMA ForestFacts ==
  ASSUME NEW S, NEW t
  PROVE  t \in Forest(S) <=>
           /\ t = [freq |-> t.freq, branch |-> t.branch, codesize |-> t.codesize]
           /\ DOMAIN t.freq \in SUBSET S /\ t.freq \in [DOMAIN t.freq -> Nat]
           /\ DOMAIN t.branch \in SUBSET S /\ t.branch \in [DOMAIN t.branch -> SUBSET S]
           /\ t.codesize \in [S -> Nat]
<1> DEFINE Freqs == UNION {[A -> Nat] : A \in SUBSET S}
           Branches == UNION {[A -> SUBSET S] : A \in SUBSET S}
<1>1. \A f : f \in Freqs <=> DOMAIN f \in SUBSET S /\ f \in [DOMAIN f -> Nat]
  <2> TAKE f
  <2>1. ASSUME f \in Freqs PROVE DOMAIN f \in SUBSET S /\ f \in [DOMAIN f -> Nat]
    BY <2>1
  <2>2. ASSUME DOMAIN f \in SUBSET S, f \in [DOMAIN f -> Nat] PROVE f \in Freqs
    BY <2>2
  <2> QED
    BY <2>1, <2>2
<1>2. \A f : f \in Branches <=> DOMAIN f \in SUBSET S /\ f \in [DOMAIN f -> SUBSET S]
  <2> TAKE f
  <2>1. ASSUME f \in Branches PROVE DOMAIN f \in SUBSET S /\ f \in [DOMAIN f -> SUBSET S]
    BY <2>1
  <2>2. ASSUME DOMAIN f \in SUBSET S, f \in [DOMAIN f -> SUBSET S] PROVE f \in Branches
    BY <2>2
  <2> QED
    BY <2>1, <2>2
<1>3. Forest(S) = [freq : Freqs, branch : Branches, codesize : [S -> Nat]]
  BY DEF Forest
<1> HIDE DEF Freqs, Branches
<1>4. t \in Forest(S) <=>
        /\ t = [freq |-> t.freq, branch |-> t.branch, codesize |-> t.codesize]
        /\ t.freq \in Freqs /\ t.branch \in Branches /\ t.codesize \in [S -> Nat]
  BY <1>3
<1> QED
  BY <1>1, <1>2, <1>4

\* Each symbol alone.
LEMMA FirstTrees ==
  ASSUME NEW freq, \A s \in DOMAIN freq : freq[s] \in Nat
  PROVE  /\ TreesOf(WithPseudo(freq), DOMAIN freq \union {Pseudo})
         /\ DOMAIN WithPseudo(freq).freq = DOMAIN freq \union {Pseudo}
<1> DEFINE S == DOMAIN freq \union {Pseudo}
           t == WithPseudo(freq)
           count == [s \in S |-> IF s = Pseudo THEN 1 ELSE freq[s]]
           alone == [s \in S |-> {s}]
           zero == [s \in S |-> 0]
<1>1. t = [freq |-> count, branch |-> alone, codesize |-> zero]
  BY DEF WithPseudo
<1>2. count \in [S -> Nat] /\ alone \in [S -> SUBSET S] /\ zero \in [S -> Nat]
  <2>1. \A s \in S : (IF s = Pseudo THEN 1 ELSE freq[s]) \in Nat /\ {s} \in SUBSET S
    OBVIOUS
  <2> QED
    BY <2>1
<1>3. \A s \in S : alone[s] = {s} /\ zero[s] = 0
  OBVIOUS
<1> HIDE DEF S, count, alone, zero, t
<1>4. t.freq = count /\ t.branch = alone /\ t.codesize = zero
  BY <1>1
<1>5. DOMAIN count = S /\ DOMAIN alone = S /\ S \in SUBSET S
  BY <1>2
<1>6. t \in Forest(S)
  BY <1>1, <1>2, <1>4, <1>5, ForestFacts
<1>7. \A c \in S : \E E : IsBranch(alone[c], zero, E)
  BY <1>3, LeafIsBranch
<1> QED
  BY <1>3, <1>4, <1>5, <1>6, <1>7 DEF TreesOf, S, t

\* A round of the loop makes one of two trees.
LEMMA MergeKeepsTrees ==
  ASSUME NEW S, IsFiniteSet(S), NEW t, TreesOf(t, S), NEW c1 \in DOMAIN t.freq, NEW c2 \in DOMAIN t.freq, c1 # c2
  PROVE  TreesOf(Merge(t, c1, c2), S) /\ DOMAIN Merge(t, c1, c2).freq = DOMAIN t.freq \ {c2}
<1> DEFINE both == t.branch[c1] \union t.branch[c2]
           Left == DOMAIN t.freq \ {c2}
           freq == [s \in Left |-> IF s = c1 THEN t.freq[c1] + t.freq[c2] ELSE t.freq[s]]
           branch == [s \in Left |-> IF s = c1 THEN both ELSE t.branch[s]]
           size == [s \in S |-> t.codesize[s] + (IF s \in both THEN 1 ELSE 0)]
           m == Merge(t, c1, c2)
<1>1. /\ DOMAIN t.freq \in SUBSET S /\ t.freq \in [DOMAIN t.freq -> Nat]
      /\ t.branch \in [DOMAIN t.freq -> SUBSET S] /\ t.codesize \in [S -> Nat]
      /\ DOMAIN t.branch = DOMAIN t.freq
  BY ForestFacts DEF TreesOf
<1>2. m = [freq |-> freq, branch |-> branch, codesize |-> size]
  <2>1. DOMAIN t.codesize = S
    BY <1>1
  <2> QED
    BY <2>1 DEF Merge
<1>3. freq \in [Left -> Nat] /\ branch \in [Left -> SUBSET S] /\ size \in [S -> Nat] /\ Left \in SUBSET S
  <2>1. \A s \in Left : (IF s = c1 THEN t.freq[c1] + t.freq[c2] ELSE t.freq[s]) \in Nat
    BY <1>1
  <2>2. \A s \in Left : (IF s = c1 THEN both ELSE t.branch[s]) \in SUBSET S
    BY <1>1
  <2>3. \A s \in S : t.codesize[s] + (IF s \in both THEN 1 ELSE 0) \in Nat
    BY <1>1
  <2> QED
    BY <1>1, <2>1, <2>2, <2>3
<1>4. /\ \A s \in S : size[s] = IF s \in both THEN t.codesize[s] + 1 ELSE t.codesize[s]
      /\ branch[c1] = both /\ c1 \in Left
      /\ \A c \in Left : c # c1 => branch[c] = t.branch[c]
  BY <1>1
<1> HIDE DEF freq, branch, size, m
<1>5. m.freq = freq /\ m.branch = branch /\ m.codesize = size /\ DOMAIN freq = Left /\ DOMAIN branch = Left
  BY <1>2, <1>3
<1>6. m \in Forest(S)
  BY <1>2, <1>3, <1>5, ForestFacts
<1>7. /\ \A c \in DOMAIN t.freq : t.branch[c] # {}
      /\ \A c, d \in DOMAIN t.freq : c # d => t.branch[c] \cap t.branch[d] = {}
      /\ \A s \in S : \E c \in DOMAIN t.freq : s \in t.branch[c]
      /\ \A c \in DOMAIN t.freq : \E E : IsBranch(t.branch[c], t.codesize, E)
      /\ \A c \in DOMAIN t.freq : \A s \in t.branch[c] : t.codesize[s] = 0 => t.branch[c] = {s}
  BY <1>1 DEF TreesOf
<1>8. \A c \in Left : branch[c] # {}
  BY <1>4, <1>7
<1>9. \A c, d \in Left : c # d => branch[c] \cap branch[d] = {}
  BY <1>4, <1>7
<1>10. \A s \in S : \E c \in Left : s \in branch[c]
  <2> TAKE s \in S
  <2>1. PICK c \in DOMAIN t.freq : s \in t.branch[c]
    BY <1>7
  <2>2. CASE c \in {c1, c2}
    BY <1>4, <2>1, <2>2
  <2>3. CASE c \notin {c1, c2}
    BY <1>4, <2>1, <2>3
  <2> QED
    BY <2>2, <2>3
<1>11. ASSUME NEW c \in Left PROVE \E E : IsBranch(branch[c], size, E)
  <2>1. CASE c = c1
    <3>1. PICK E : IsBranch(t.branch[c1], t.codesize, E)
      BY <1>7
    <3>2. PICK F : IsBranch(t.branch[c2], t.codesize, F)
      BY <1>7
    <3>3. t.branch[c1] \in SUBSET S /\ t.branch[c2] \in SUBSET S
      BY <1>1
    <3>4. IsFiniteSet(t.branch[c1]) /\ IsFiniteSet(t.branch[c2])
      BY <3>3, FS_Subset
    <3>5. \A s \in both : t.codesize[s] \in Nat /\ size[s] = t.codesize[s] + 1
      BY <1>1, <1>4, <3>3
    <3>6. t.branch[c1] \cap t.branch[c2] = {} /\ t.branch[c1] # {}
      BY <1>7
    <3>7. \E G : IsBranch(both, size, G)
      BY <3>1, <3>2, <3>4, <3>5, <3>6, MergedBranch
    <3> QED
      BY <1>4, <2>1, <3>7
  <2>2. CASE c # c1
    <3>1. branch[c] = t.branch[c] /\ branch[c] \in SUBSET S /\ branch[c] \cap both = {}
      BY <1>1, <1>4, <1>7, <2>2
    <3>2. PICK E : IsBranch(t.branch[c], t.codesize, E)
      BY <1>7
    <3>3. \A s \in branch[c] : size[s] = t.codesize[s]
      BY <1>4, <3>1
    <3>4. \A l \in Nat : OfSize(branch[c], size, l) = OfSize(t.branch[c], t.codesize, l)
      BY <3>1, <3>3 DEF OfSize
    <3>5. IsBranch(branch[c], size, E)
      <4>1. \A l \in Nat : (\A s \in branch[c] : size[s] <= l) => \A s \in t.branch[c] : t.codesize[s] <= l
        BY <3>1, <3>3
      <4>2. 0 \in Nat /\ \A l \in Nat : l + 1 \in Nat
        OBVIOUS
      <4>3. Cardinality(OfSize(branch[c], size, 0)) = Cardinality(OfSize(t.branch[c], t.codesize, 0))
        BY <3>4, <4>2
      <4>4. \A l \in Nat : Cardinality(OfSize(branch[c], size, l + 1)) = Cardinality(OfSize(t.branch[c], t.codesize, l + 1))
        BY <3>4, <4>2
      <4> QED
        BY <3>2, <4>1, <4>3, <4>4 DEF IsBranch
    <3> QED
      BY <3>5
  <2> QED
    BY <2>1, <2>2
<1>12. ASSUME NEW c \in Left, NEW s \in branch[c], size[s] = 0 PROVE branch[c] = {s}
  <2>1. s \in S /\ t.codesize[s] \in Nat
    BY <1>1, <1>3
  <2>2. s \notin both /\ t.codesize[s] = 0
    BY <1>4, <1>12, <2>1
  <2>3. c # c1
    BY <1>4, <1>12, <2>2
  <2> QED
    BY <1>4, <1>7, <1>12, <2>2, <2>3
<1> QED
  BY <1>5, <1>6, <1>8, <1>9, <1>10, <1>11, <1>12 DEF TreesOf, m

LEMMA MergeTwoKeepsTrees ==
  ASSUME NEW S \in SUBSET (0 .. Pseudo), IsFiniteSet(S), NEW t, TreesOf(t, S),
         Cardinality(DOMAIN t.freq) >= 2
  PROVE  /\ TreesOf(MergeTwo(t), S)
         /\ Cardinality(DOMAIN MergeTwo(t).freq) = Cardinality(DOMAIN t.freq) - 1
<1> DEFINE T == DOMAIN t.freq
           c1 == Smallest(t.freq, T)
           c2 == Smallest(t.freq, T \ {c1})
<1>1. MergeTwo(t) = Merge(t, c1, c2)
  BY DEF MergeTwo
<1>2. T \in SUBSET S /\ t.freq \in [T -> Nat]
  BY ForestFacts DEF TreesOf
<1>3. IsFiniteSet(T) /\ T \in SUBSET (0 .. Pseudo) /\ \A s \in T : t.freq[s] \in Nat
  BY <1>2, FS_Subset
<1>4. Cardinality(T) \in Nat /\ Cardinality(T) >= 2
  BY <1>3, FS_CardinalityType
<1> HIDE DEF T
<1>5. T # {} /\ c1 \in T
  <2>1. T # {}
    BY <1>4, FS_EmptySet
  <2> QED
    BY <1>3, <2>1, SmallestExists
<1> HIDE DEF c1
<1>6. IsFiniteSet(T \ {c1}) /\ Cardinality(T \ {c1}) = Cardinality(T) - 1
  BY <1>3, <1>5, FS_RemoveElement
<1>7. T \ {c1} # {}
  BY <1>4, <1>6, FS_EmptySet
<1>8. c2 \in T \ {c1}
  <2>1. T \ {c1} \in SUBSET (0 .. Pseudo) /\ \A s \in T \ {c1} : t.freq[s] \in Nat
    BY <1>3
  <2> QED
    BY <1>7, <2>1, SmallestExists
<1> HIDE DEF c2
<1>9. TreesOf(Merge(t, c1, c2), S) /\ DOMAIN Merge(t, c1, c2).freq = T \ {c2}
  BY <1>5, <1>8, MergeKeepsTrees DEF T
<1>10. Cardinality(T \ {c2}) = Cardinality(T) - 1
  BY <1>3, <1>8, FS_RemoveElement
<1> QED
  BY <1>1, <1>9, <1>10 DEF T

LEMMA MergingTrees ==
  ASSUME NEW S \in SUBSET (0 .. Pseudo), IsFiniteSet(S), NEW N \in Nat, NEW trees,
         TreesOf(trees[0], S), Cardinality(DOMAIN trees[0].freq) = N + 1,
         \A n \in 1 .. N : TreesOf(trees[n - 1], S) /\ Cardinality(DOMAIN trees[n - 1].freq) >= 2
                             => trees[n] = MergeTwo(trees[n - 1])
  PROVE  \A n \in 0 .. N : TreesOf(trees[n], S) /\ Cardinality(DOMAIN trees[n].freq) = N + 1 - n
<1> DEFINE Good == {n \in Nat : n <= N => TreesOf(trees[n], S) /\ Cardinality(DOMAIN trees[n].freq) = N + 1 - n}
<1>1. 0 \in Good
  <2>1. N + 1 - 0 = N + 1
    OBVIOUS
  <2> QED
    BY <2>1
<1>2. ASSUME NEW n \in Nat, n \in Good PROVE n + 1 \in Good
  <2> SUFFICES ASSUME n + 1 <= N
               PROVE  TreesOf(trees[n + 1], S) /\ Cardinality(DOMAIN trees[n + 1].freq) = N + 1 - (n + 1)
    OBVIOUS
  <2> DEFINE t == trees[n]
             K == Cardinality(DOMAIN t.freq)
  <2>1. TreesOf(t, S) /\ K = N + 1 - n
    BY <1>2
  <2>2. n + 1 \in 1 .. N /\ (n + 1) - 1 = n /\ K >= 2 /\ K - 1 = N + 1 - (n + 1)
    BY <2>1
  <2>3. trees[n + 1] = MergeTwo(t)
    BY <2>1, <2>2
  <2> HIDE DEF t
  <2> QED
    BY <2>1, <2>2, <2>3, MergeTwoKeepsTrees
<1>3. \A n \in Nat : n \in Good
  <2> HIDE DEF Good
  <2> QED
    BY <1>1, <1>2, NumberInduction
<1> QED
  BY <1>3

\* What the loop leaves is one tree with all symbols and the pseudo-symbol.
LEMMA CodeSizesFacts ==
  ASSUME NEW freq, DOMAIN freq \in SUBSET (0 .. Pseudo - 1), DOMAIN freq # {}, \A s \in DOMAIN freq : freq[s] \in Nat
  PROVE  LET S == DOMAIN freq \union {Pseudo}
             z == CodeSizes(freq)
         IN  /\ IsFiniteSet(S) /\ Cardinality(S) = Cardinality(DOMAIN freq) + 1
             /\ IsFiniteSet(DOMAIN freq) /\ Cardinality(DOMAIN freq) \in 1 .. Pseudo
             /\ z \in [S -> Nat \ {0}]
             /\ \E E : IsBranch(S, z, E)
<1> DEFINE D == DOMAIN freq
           S == D \union {Pseudo}
           N == Cardinality(D)
           first == WithPseudo(freq)
           Eq(f) == f = [n \in 0 .. N |-> IF n = 0 THEN first ELSE MergeTwo(f[n - 1])]
           trees == CHOOSE f : Eq(f)
           X == Forest(S)
           z == CodeSizes(freq)
<1>1. z = trees[N].codesize
  BY DEF CodeSizes
<1>2. IsFiniteSet(D) /\ IsFiniteSet(S) /\ N \in 1 .. Pseudo /\ Cardinality(S) = N + 1 /\ S \in SUBSET (0 .. Pseudo)
  <2>1. IsFiniteSet(0 .. Pseudo - 1) /\ Cardinality(0 .. Pseudo - 1) = Pseudo
    <3> DEFINE a == 0
               b == Pseudo - 1
    <3>1. a \in Int /\ b \in Int /\ ~ (a > b) /\ b - a + 1 = Pseudo
      BY DEF Pseudo
    <3> HIDE DEF a, b
    <3>2. IsFiniteSet(a .. b) /\ Cardinality(a .. b) = Pseudo
      BY <3>1, FS_Interval
    <3> QED
      BY <3>2 DEF a, b
  <2>2. IsFiniteSet(D) /\ N <= Pseudo
    <3> DEFINE T == 0 .. Pseudo - 1
    <3>1. IsFiniteSet(T) /\ Cardinality(T) = Pseudo /\ D \in SUBSET T
      BY <2>1
    <3> HIDE DEF T, D
    <3>2. IsFiniteSet(D) /\ Cardinality(D) <= Pseudo
      BY ONLY <3>1, FS_Subset
    <3> QED
      BY <3>2
  <2>3. N \in Nat /\ N # 0
    BY <2>2, FS_CardinalityType, FS_EmptySet
  <2>4. Pseudo \notin D /\ S \in SUBSET (0 .. Pseudo)
    BY DEF Pseudo
  <2>5. IsFiniteSet(S) /\ Cardinality(S) = N + 1
    BY <2>2, <2>4, FS_AddElement
  <2> QED
    BY <2>2, <2>3, <2>4, <2>5 DEF Pseudo
<1>3. TreesOf(first, S) /\ DOMAIN first.freq = S /\ first \in X
  BY FirstTrees DEF TreesOf
<1>4. N \in Nat
  BY <1>2
<1>5. \A t : TreesOf(t, S) => t \in X
  BY DEF TreesOf
<1> HIDE DEF S, N, X, first, z
<1>6. Eq(trees)
  <2> DEFINE step == [n \in 1 .. N |-> [t \in X |-> IF MergeTwo(t) \in X THEN MergeTwo(t) ELSE t]]
  <2>1. step \in [1 .. N -> [X -> X]]
    OBVIOUS
  <2>2. \A n \in 1 .. N : \A t \in X : MergeTwo(t) \in X => step[n][t] = MergeTwo(t)
    OBVIOUS
  <2> HIDE DEF step
  <2>3. PICK f \in [0 .. N -> X] : f[0] = first /\ \A n \in 1 .. N : f[n] = step[n][f[n - 1]]
    <3>1. first \in X
      BY <1>3
    <3> HIDE DEF Eq, trees
    <3>2. \E f \in [0 .. N -> X] : f[0] = first /\ \A n \in 1 .. N : f[n] = step[n][f[n - 1]]
      BY ONLY <1>4, <2>1, <3>1, Recursion
    <3> QED
      BY <3>2
  <2>4. ASSUME NEW n \in 1 .. N, TreesOf(f[n - 1], S), Cardinality(DOMAIN f[n - 1].freq) >= 2
        PROVE  f[n] = MergeTwo(f[n - 1])
    <3> DEFINE t == f[n - 1]
    <3>1. t \in X /\ f[n] = step[n][t]
      BY <1>5, <2>3, <2>4
    <3>2. MergeTwo(t) \in X
      <4> HIDE DEF t
      <4>1. TreesOf(t, S) /\ Cardinality(DOMAIN t.freq) >= 2
        BY <2>4 DEF t
      <4> QED
        BY <1>2, <1>5, <4>1, MergeTwoKeepsTrees
    <3> QED
      BY <2>2, <3>1, <3>2
  <2>5. \A n \in 0 .. N : TreesOf(f[n], S) /\ Cardinality(DOMAIN f[n].freq) = N + 1 - n
    <3>1. TreesOf(f[0], S) /\ Cardinality(DOMAIN f[0].freq) = N + 1
      BY <1>2, <1>3, <2>3
    <3> QED
      BY <1>2, <1>4, <2>4, <3>1, MergingTrees
  <2>6. ASSUME NEW n \in 0 .. N PROVE f[n] = IF n = 0 THEN first ELSE MergeTwo(f[n - 1])
    <3>1. CASE n = 0
      BY <2>3, <3>1
    <3>2. CASE n # 0
      <4>1. n \in 1 .. N /\ n - 1 \in 0 .. N /\ N + 1 - (n - 1) >= 2
        BY <1>4, <3>2
      <4>2. TreesOf(f[n - 1], S) /\ Cardinality(DOMAIN f[n - 1].freq) >= 2
        BY <2>5, <4>1
      <4> QED
        BY <2>4, <3>2, <4>1, <4>2
    <3> QED
      BY <3>1, <3>2
  <2>7. f = [n \in 0 .. N |-> f[n]]
    BY <2>3
  <2>8. Eq(f)
    BY <2>6, <2>7
  <2> HIDE DEF Eq
  <2> QED
    BY <2>8
<1> HIDE DEF trees
<1>7. trees[0] = first /\ \A n \in 1 .. N : trees[n] = MergeTwo(trees[n - 1])
  BY <1>4, <1>6
<1>8. TreesOf(trees[N], S) /\ Cardinality(DOMAIN trees[N].freq) = 1
  <2>1. TreesOf(trees[0], S) /\ Cardinality(DOMAIN trees[0].freq) = N + 1
    BY <1>2, <1>3, <1>7
  <2>2. \A n \in 0 .. N : TreesOf(trees[n], S) /\ Cardinality(DOMAIN trees[n].freq) = N + 1 - n
    BY <1>2, <1>4, <1>7, <2>1, MergingTrees
  <2>3. N \in 0 .. N /\ N + 1 - N = 1
    BY <1>4
  <2> QED
    BY <2>2, <2>3
<1> DEFINE t == trees[N]
<1>9. t.codesize = z /\ TreesOf(t, S) /\ Cardinality(DOMAIN t.freq) = 1
  BY <1>1, <1>8
<1> HIDE DEF t
<1>10. /\ DOMAIN t.freq \in SUBSET S /\ t.branch \in [DOMAIN t.freq -> SUBSET S] /\ z \in [S -> Nat]
       /\ DOMAIN t.branch = DOMAIN t.freq
  BY <1>9, ForestFacts DEF TreesOf
<1>11. PICK c : DOMAIN t.freq = {c}
  <2>1. IsFiniteSet(DOMAIN t.freq)
    BY <1>2, <1>10, FS_Subset
  <2> QED
    BY <1>9, <2>1, FS_Singleton
<1>12. t.branch[c] = S
  <2>1. \A s \in S : s \in t.branch[c]
    BY <1>9, <1>10, <1>11 DEF TreesOf
  <2>2. t.branch[c] \in SUBSET S
    BY <1>10, <1>11
  <2> QED
    BY <2>1, <2>2
<1>13. \E E : IsBranch(S, z, E)
  BY <1>9, <1>10, <1>11, <1>12 DEF TreesOf
<1>14. ASSUME NEW s \in S, z[s] = 0 PROVE FALSE
  <2>1. S = {s}
    BY <1>9, <1>10, <1>11, <1>12, <1>14 DEF TreesOf
  <2>2. Cardinality(S) = 1
    BY <2>1, FS_Singleton
  <2> QED
    BY <1>2, <2>2 DEF Pseudo
<1>15. z \in [S -> Nat \ {0}]
  BY <1>10, <1>14
<1> QED
  BY <1>2, <1>13, <1>15 DEF S, N, z

(***************************************************************************)
(* The best table                                                          *)
(***************************************************************************)

\* huffval holds each symbol once, the pseudo-symbol left out.
LEMMA SymbolsFacts ==
  ASSUME NEW z, DOMAIN z \ {Pseudo} \in SUBSET (0 .. Pseudo - 1), IsFiniteSet(DOMAIN z \ {Pseudo}),
         \A s \in DOMAIN z \ {Pseudo} : z[s] \in Nat
  PROVE  LET D == DOMAIN z \ {Pseudo}
         IN  /\ SymbolsBySize(z) \in Seq(D)
             /\ Len(SymbolsBySize(z)) = Cardinality(D)
             /\ Range(SymbolsBySize(z)) = D
<1> DEFINE D == DOMAIN z \ {Pseudo}
           K == Cardinality(D)
           Before(s) == {r \in D : z[r] < z[s] \/ (z[r] = z[s] /\ r < s)}
           v == SymbolsBySize(z)
           rank == [s \in D |-> Cardinality(Before(s))]
<1>1. v = [p \in 1 .. K |-> CHOOSE s \in D : Cardinality(Before(s)) = p - 1]
  BY DEF SymbolsBySize
<1>0. IsFiniteSet(D) /\ D \in SUBSET (0 .. Pseudo - 1) /\ \A s \in D : z[s] \in Nat
  OBVIOUS
<1> HIDE DEF D
<1>2. K \in Nat
  BY <1>0, FS_CardinalityType
<1>3. \A s \in D : Before(s) \in SUBSET D /\ s \notin Before(s)
  BY <1>0 DEF Pseudo
<1>4. ASSUME NEW s \in D, NEW t \in D, s \in Before(t) PROVE Before(s) \union {s} \in SUBSET Before(t)
  <2>1. ASSUME NEW r \in Before(s) PROVE r \in Before(t)
    <3>1. r \in D /\ z[r] \in Nat /\ z[s] \in Nat /\ z[t] \in Nat /\ r \in Nat /\ s \in Nat /\ t \in Nat
      BY <1>0 DEF Pseudo
    <3>2. z[r] < z[s] \/ (z[r] = z[s] /\ r < s)
      BY <2>1
    <3>3. z[s] < z[t] \/ (z[s] = z[t] /\ s < t)
      BY <1>4
    <3> QED
      BY <3>1, <3>2, <3>3
  <2> QED
    BY <1>4, <2>1
<1>5. ASSUME NEW s \in D, NEW t \in D, s # t PROVE s \in Before(t) \/ t \in Before(s)
  <2>1. z[s] \in Nat /\ z[t] \in Nat /\ s \in Nat /\ t \in Nat
    BY <1>0 DEF Pseudo
  <2> QED
    BY <1>5, <2>1
<1> HIDE DEF Before, v, K
<1>6. \A s \in D : IsFiniteSet(Before(s)) /\ Cardinality(Before(s)) \in Nat
  BY <1>0, <1>3, FS_Subset, FS_CardinalityType
<1>7. ASSUME NEW s \in D PROVE Cardinality(Before(s)) \in 0 .. K - 1
  <2>1. Before(s) \in SUBSET (D \ {s})
    BY <1>3
  <2>2. IsFiniteSet(D \ {s}) /\ Cardinality(D \ {s}) = K - 1
    BY <1>0, FS_RemoveElement DEF K
  <2>3. Cardinality(Before(s)) <= K - 1
    BY <2>1, <2>2, FS_Subset
  <2> QED
    BY <1>2, <1>6, <2>3
<1>8. ASSUME NEW s \in D, NEW t \in D, s \in Before(t) PROVE Cardinality(Before(s)) < Cardinality(Before(t))
  <2>1. Cardinality(Before(s) \union {s}) = Cardinality(Before(s)) + 1
    BY <1>3, <1>6, FS_AddElement
  <2>2. Cardinality(Before(s) \union {s}) <= Cardinality(Before(t))
    BY <1>4, <1>6, <1>8, FS_Subset
  <2> QED
    BY <1>6, <2>1, <2>2
<1>9. ASSUME NEW s \in D, NEW t \in D, Cardinality(Before(s)) = Cardinality(Before(t)) PROVE s = t
  <2> SUFFICES ASSUME s # t PROVE FALSE
    OBVIOUS
  <2>1. Cardinality(Before(s)) \in Nat
    BY <1>6
  <2> QED
    BY <1>5, <1>8, <1>9, <2>1
<1>10. \A s \in D : rank[s] = Cardinality(Before(s))
  OBVIOUS
<1>11. rank \in Surjection(D, 0 .. K - 1)
  <2> DEFINE T == 0 .. K - 1
             zero == 0
             last == K - 1
  <2>1. rank \in [D -> T]
    BY <1>7
  <2>2. rank \in Injection(D, T)
    BY <1>9, <1>10, <2>1 DEF Injection, IsInjective
  <2>3. IsFiniteSet(zero .. last) /\ Cardinality(zero .. last) = IF zero > last THEN 0 ELSE last - zero + 1
    <3>1. zero \in Int /\ last \in Int
      BY <1>2
    <3> HIDE DEF zero, last
    <3> QED
      BY <3>1, FS_Interval
  <2>4. IsFiniteSet(T) /\ Cardinality(T) = K
    BY <1>2, <2>3
  <2> HIDE DEF T, rank
  <2>5. rank \in Surjection(D, T)
    BY <2>2, <2>4, FS_Injection DEF K
  <2> QED
    BY <2>5 DEF T
<1>12. ASSUME NEW p \in 1 .. K PROVE v[p] \in D /\ Cardinality(Before(v[p])) = p - 1
  <2>1. p - 1 \in 0 .. K - 1
    BY <1>2
  <2>2. \E s \in D : rank[s] = p - 1
    BY <1>11, <2>1 DEF Surjection
  <2>3. \E s \in D : Cardinality(Before(s)) = p - 1
    BY <1>10, <2>2
  <2>4. v[p] = CHOOSE s \in D : Cardinality(Before(s)) = p - 1
    BY <1>1
  <2> QED
    BY <2>3, <2>4
<1> HIDE DEF rank
<1>13. v \in [1 .. K -> D]
  <2>1. v = [p \in 1 .. K |-> v[p]]
    BY <1>1
  <2> QED
    BY <1>12, <2>1
<1>14. v \in Seq(D) /\ Len(v) = K
  BY <1>2, <1>13, SeqDef, LenProperties
<1>15. \A s \in D : \E p \in 1 .. K : v[p] = s
  <2> TAKE s \in D
  <2> DEFINE p == Cardinality(Before(s)) + 1
  <2>1. p \in 1 .. K /\ p - 1 = Cardinality(Before(s))
    BY <1>2, <1>7
  <2>2. v[p] = s
    BY <1>9, <1>12, <2>1
  <2> QED
    BY <2>1, <2>2
<1>16. Range(v) = D
  <2>1. Range(v) = {v[p] : p \in 1 .. K}
    BY <1>13 DEF Range
  <2> QED
    BY <1>12, <1>15, <2>1
<1> QED
  BY <1>14, <1>16 DEF v, K, D

\* The numbers of codes of each length, before any are shortened, are those of a tree.
LEMMA SizesMakeTree ==
  ASSUME NEW S, IsFiniteSet(S), NEW z \in [S -> 1 .. MAX_CLEN], NEW E, IsBranch(S, z, E)
  PROVE  [l \in 1 .. MAX_CLEN |-> Cardinality(OfSize(S, z, l))] \in Trees(Cardinality(S), MAX_CLEN + 1)
<1> DEFINE bits == [l \in 1 .. MAX_CLEN |-> Cardinality(OfSize(S, z, l))]
           Short(l) == {s \in S : z[s] <= l}
           F == [l \in 0 .. MAX_CLEN |-> E[l]]
           C == [l \in 0 .. MAX_CLEN |-> Cardinality(Short(l))]
           n == Cardinality(S)
<1>1. \A l \in Nat : /\ OfSize(S, z, l) \in SUBSET S /\ Short(l) \in SUBSET S
                     /\ IsFiniteSet(OfSize(S, z, l)) /\ Cardinality(OfSize(S, z, l)) \in Nat
                     /\ IsFiniteSet(Short(l)) /\ Cardinality(Short(l)) \in Nat
  <2> TAKE l \in Nat
  <2>1. OfSize(S, z, l) \in SUBSET S /\ Short(l) \in SUBSET S
    BY DEF OfSize
  <2> HIDE DEF Short
  <2>2. IsFiniteSet(OfSize(S, z, l)) /\ IsFiniteSet(Short(l))
    BY <2>1, FS_Subset
  <2> QED
    BY <2>1, <2>2, FS_CardinalityType
<1>2. \A s \in S : z[s] \in Nat /\ z[s] >= 1 /\ z[s] <= MAX_CLEN
  BY DEF MAX_CLEN
<1>3. OfSize(S, z, 0) = {} /\ Short(0) = {} /\ Short(MAX_CLEN) = S
  BY <1>2 DEF OfSize
<1>4. Cardinality({}) = 0
  BY FS_EmptySet
<1>5. /\ E \in [Nat -> Nat] /\ E[0] + 0 = 1
      /\ \A l \in Nat : E[l + 1] + Cardinality(OfSize(S, z, l + 1)) = 2 * E[l]
      /\ E[MAX_CLEN] = 0
  <2>1. MAX_CLEN \in Nat
    BY DEF MAX_CLEN
  <2> QED
    BY <1>2, <1>3, <1>4, <2>1 DEF IsBranch
<1>6. ASSUME NEW l \in Nat
      PROVE  Cardinality(Short(l + 1)) = Cardinality(Short(l)) + Cardinality(OfSize(S, z, l + 1))
  <2> DEFINE A == Short(l)
             B == OfSize(S, z, l + 1)
  <2>1. Short(l + 1) = A \union B /\ A \cap B = {} /\ l + 1 \in Nat
    BY <1>2 DEF OfSize
  <2> HIDE DEF Short
  <2>2. IsFiniteSet(A) /\ IsFiniteSet(B) /\ Cardinality(A \cap B) = 0 /\ Cardinality(A) \in Nat /\ Cardinality(B) \in Nat
    BY <1>1, <1>4, <2>1
  <2> HIDE DEF A, B
  <2>3. Cardinality(A \union B) = Cardinality(A) + Cardinality(B) - Cardinality(A \cap B)
    BY <2>2, FS_Union
  <2>4. Cardinality(A \union B) = Cardinality(A) + Cardinality(B)
    BY <2>2, <2>3
  <2> QED
    BY <2>1, <2>4 DEF A, B
<1> HIDE DEF Short
<1>7. bits \in [1 .. MAX_CLEN -> Nat] /\ F \in [0 .. MAX_CLEN -> Nat] /\ C \in [0 .. MAX_CLEN -> Nat]
  <2>1. \A l \in 1 .. MAX_CLEN : Cardinality(OfSize(S, z, l)) \in Nat
    BY <1>1 DEF MAX_CLEN
  <2>2. \A l \in 0 .. MAX_CLEN : E[l] \in Nat /\ Cardinality(Short(l)) \in Nat
    <3> TAKE l \in 0 .. MAX_CLEN
    <3>1. l \in Nat
      BY DEF MAX_CLEN
    <3> QED
      BY <1>1, <1>5, <3>1
  <2> QED
    BY <2>1, <2>2
<1>8. F[0] = 1 /\ F[MAX_CLEN] = 0 /\ C[0] = 0 /\ C[MAX_CLEN] = n
  <2>1. 0 \in 0 .. MAX_CLEN /\ MAX_CLEN \in 0 .. MAX_CLEN /\ E[0] \in Nat
    BY <1>5 DEF MAX_CLEN
  <2>2. F[0] = E[0] /\ F[MAX_CLEN] = E[MAX_CLEN]
    BY <2>1
  <2>3. C[0] = Cardinality(Short(0)) /\ C[MAX_CLEN] = Cardinality(Short(MAX_CLEN))
    BY <2>1
  <2> HIDE DEF F, C
  <2>4. F[0] = 1 /\ F[MAX_CLEN] = 0
    BY <1>5, <2>1, <2>2
  <2>5. C[0] = 0 /\ C[MAX_CLEN] = n
    BY <1>3, <1>4, <2>3
  <2> QED
    BY <2>4, <2>5
<1>9. ASSUME NEW l \in 1 .. MAX_CLEN PROVE F[l] + bits[l] = 2 * F[l - 1] /\ C[l] = C[l - 1] + bits[l]
  <2> DEFINE k == l - 1
  <2>1. k \in Nat /\ l = k + 1 /\ k \in 0 .. MAX_CLEN /\ l \in 0 .. MAX_CLEN
    BY DEF MAX_CLEN
  <2>2. /\ F[l] = E[l] /\ F[l - 1] = E[k] /\ C[l] = Cardinality(Short(l)) /\ C[l - 1] = Cardinality(Short(k))
        /\ bits[l] = Cardinality(OfSize(S, z, l))
    BY <2>1
  <2> HIDE DEF k, F, C, bits
  <2> QED
    BY <1>5, <1>6, <2>1, <2>2
<1>10. IsTree(bits, F, C, n)
  <2> HIDE DEF bits, F, C, n
  <2> QED
    BY <1>7, <1>8, <1>9 DEF IsTree
<1>11. EmptyFrom(bits, MAX_CLEN + 1)
  BY DEF EmptyFrom, MAX_CLEN
<1> HIDE DEF bits, F, C, n
<1>12. bits \in Trees(n, MAX_CLEN + 1)
  BY <1>7, <1>10, <1>11 DEF Trees
<1> QED
  BY <1>12 DEF bits, n

\* The table that jpeg_gen_optimal_table makes for any counts, unless it gives up, is
\* one that jpeg_make_c_derived_tbl takes: there is a code for each symbol that occurs
\* and for no other, all fit into the bits of their length, none starts another and
\* none is all ones.  The lengths are shortened only while they are those of a tree,
\* and the pseudo-symbol leaves one of the longest codes free.
THEOREM OptimalTableUsable ==
  ASSUME NEW freq, DOMAIN freq \in SUBSET (0 .. Pseudo - 1), DOMAIN freq # {}, \A s \in DOMAIN freq : freq[s] \in Nat,
         ~ clen_overflow(freq)
  PROVE  LET h == jpeg_gen_optimal_table(freq)
         IN  UsableTable(h, freq, jpeg_make_c_derived_tbl(h))
<1> DEFINE D == DOMAIN freq
           z == CodeSizes(freq)
           S == DOMAIN z
           bits == [l \in 1 .. MAX_CLEN |-> Cardinality(OfSize(S, z, l))]
           n == Cardinality(S)
           h == jpeg_gen_optimal_table(freq)
           c == jpeg_make_c_derived_tbl(h)
<1>1. /\ IsFiniteSet(S) /\ n = Cardinality(D) + 1 /\ IsFiniteSet(D) /\ Cardinality(D) \in 1 .. Pseudo
      /\ z \in [S -> Nat \ {0}] /\ S = D \union {Pseudo}
      /\ \E E : IsBranch(S, z, E)
  <2> DEFINE T == D \union {Pseudo}
  <2>1. /\ IsFiniteSet(T) /\ Cardinality(T) = Cardinality(D) + 1
        /\ IsFiniteSet(D) /\ Cardinality(D) \in 1 .. Pseudo
        /\ z \in [T -> Nat \ {0}]
        /\ \E E : IsBranch(T, z, E)
    BY CodeSizesFacts
  <2>2. S = T
    BY <2>1
  <2> HIDE DEF D, z, S
  <2> QED
    BY <2>1, <2>2
<1>2. S \ {Pseudo} = D /\ D \in SUBSET (0 .. Pseudo - 1)
  <2>1. Pseudo \notin D
    BY DEF Pseudo
  <2>2. S = D \union {Pseudo}
    BY <1>1
  <2> HIDE DEF S
  <2> QED
    BY <2>1, <2>2
<1>3. z \in [S -> 1 .. MAX_CLEN]
  <2>1. ASSUME NEW s \in S PROVE z[s] \in 1 .. MAX_CLEN
    <3>1. z[s] \in Range(z)
      BY DEF Range
    <3>2. ~ (z[s] > MAX_CLEN)
      BY <3>1 DEF clen_overflow
    <3>3. z[s] \in Nat \ {0}
      BY <1>1
    <3> QED
      BY <3>2, <3>3 DEF MAX_CLEN
  <2> HIDE DEF z
  <2> QED
    BY <1>1, <2>1
<1>4. h = [bits |-> LimitedBits(Shorten(bits)), huffval |-> SymbolsBySize(z)]
  BY DEF jpeg_gen_optimal_table, TableOf, OfSize
<1>5. n \in Nat /\ n <= 257
  BY <1>1 DEF Pseudo
<1> HIDE DEF z, h
<1>6. bits \in Trees(n, MAX_CLEN + 1)
  BY <1>1, <1>3, SizesMakeTree
<1> HIDE DEF bits
<1>7. Shorten(bits) \in Trees(n, MaxLength + 1)
  <2> HIDE DEF n
  <2> QED
    BY <1>5, <1>6, ShortenKeepsTree
<1>8. /\ h.bits \in Bits /\ LastPlace(h) = n - 1
      /\ \A l \in 1 .. MaxLength : h.bits[l] > 0 => FirstCodes(h)[l] + h.bits[l] < 2 ^ l
  <2>1. h.bits = LimitedBits(Shorten(bits))
    BY <1>4
  <2> HIDE DEF n
  <2> QED
    BY <1>5, <1>7, <2>1, LimitedTable
<1>9. h.huffval \in Seq(D) /\ Len(h.huffval) = Cardinality(D) /\ Range(h.huffval) = D
  <2>1. /\ SymbolsBySize(z) \in Seq(S \ {Pseudo})
        /\ Len(SymbolsBySize(z)) = Cardinality(S \ {Pseudo})
        /\ Range(SymbolsBySize(z)) = S \ {Pseudo}
    <3>1. \A s \in S \ {Pseudo} : z[s] \in Nat
      BY <1>1
    <3> QED
      BY <1>1, <1>2, <3>1, SymbolsFacts
  <2> QED
    BY <1>2, <1>4, <2>1
<1>10. Len(huffsize(h)) = Len(h.huffval) /\ ~ (Len(huffsize(h)) > 256)
  <2>1. Len(huffsize(h)) = LastPlace(h)
    BY <1>8, SizesFacts
  <2>2. n = Cardinality(D) + 1 /\ Cardinality(D) \in 1 .. 256
    BY <1>1 DEF Pseudo
  <2>3. Len(huffsize(h)) = n - 1
    BY <1>8, <2>1
  <2>4. Len(huffsize(h)) = Cardinality(D) /\ ~ (Cardinality(D) > 256)
    <3> DEFINE k == Cardinality(D)
               places == Len(huffsize(h))
    <3>1. n = k + 1 /\ k \in 1 .. 256 /\ places = n - 1
      BY <2>2, <2>3
    <3> HIDE DEF k, n, places
    <3>2. places = k /\ ~ (k > 256)
      BY <3>1
    <3> QED
      BY <3>2 DEF k, places
  <2>5. Len(h.huffval) = Cardinality(D)
    BY <1>9
  <2> QED
    BY <2>4, <2>5
<1>11. ~ BadTable(h, FALSE)
  <2>1. ASSUME NEW l \in 1 .. MaxLength, h.bits[l] > 0, FirstCodes(h)[l] + h.bits[l] >= 2 ^ l PROVE FALSE
    <3>1. FirstCodes(h)[l] \in Nat /\ h.bits[l] \in Nat
      BY <1>8, FirstCodesFacts DEF Bits
    <3>2. l \in Nat
      BY DEF MaxLength
    <3>3. 2 ^ l \in Nat
      BY <3>2, PowerStep
    <3> QED
      BY <1>8, <2>1, <3>1, <3>3
  <2> QED
    BY <1>10, <2>1 DEF BadTable
<1>12. ~ Duplicates(h)
  <2>1. Cardinality(D) \in Nat
    BY <1>1
  <2> QED
    BY <1>9, <2>1 DEF Duplicates
<1>13. DOMAIN c = D /\ PrefixFree(c) /\ NotAllOnes(c)
  <2>1. FALSE \in BOOLEAN
    OBVIOUS
  <2>2. DOMAIN c = Range(h.huffval) /\ PrefixFree(c) /\ NotAllOnes(c)
    BY <1>8, <1>9, <1>10, <1>11, <2>1, CodesApart
  <2> QED
    BY <1>9, <2>2
<1> QED
  BY <1>10, <1>11, <1>12, <1>13 DEF UsableTable, h
==============================================================================
