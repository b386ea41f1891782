----------------------------- MODULE InverseDCT -----------------------------
(***************************************************************************)
(* From quantized coefficients back to samples (jddctmgr.c): the accurate  *)
(* inverse DCT (jidctint.c), the fast one (jidctfst.c), and those that     *)
(* make a block of 4, 2 or 1 samples a side (jidctred.c).  The code does   *)
(* not calculate columns and rows that are zero but for the first value;   *)
(* what it does for them is what the calculation gives: no case here.      *)
(***************************************************************************)
EXTENDS ForwardDCT

\* Where the k-th coefficient in zigzag order lies: before it are those of
\* shorter diagonals, and those its own diagonal passes first.
Earlier(i, j) ==
  LET d == (i \div 8) + (i % 8)
      e == (j \div 8) + (j % 8)
  IN  e < d \/ (e = d /\ IF d % 2 = 1 THEN j < i ELSE j > i)
jpeg_natural_order ==
  [k \in 0 .. 63 |-> CHOOSE i \in 0 .. 63 : Cardinality({j \in 0 .. 63 : Earlier(i, j)}) = k]
Zigzag(block) == [k \in 0 .. 63 |-> block[jpeg_natural_order[k] + 1]]
Natural(coefs) == [k \in 1 .. 64 |-> coefs[CHOOSE z \in 0 .. 63 : jpeg_natural_order[z] = k - 1]]

\* IDCT_range_limit: 10 bits of a result, of which 0 stands for CENTERJSAMPLE,
\* limited to a sample.
range_limit(x) == sample_range_limit[CENTERJSAMPLE + (x % 1024)]

Dequantized(coefs, table) == FlattenSeq([k \in 1 .. 64 |-> <<coefs[k] * table[k]>>])
Samples(x) == [k \in DOMAIN x |-> range_limit(x[k])]
\* The first n rows of what comes out column by column.
ColumnsToRows(x, n) == FlattenSeq([r \in 1 .. n |-> [c \in 1 .. 8 |-> x[(n * (c - 1)) + r]]])

(***************************************************************************)
(* The accurate method (jpeg_idct_islow)                                   *)
(***************************************************************************)

EvenIn(y) ==
  LET z1 == 4433 * (y[3] + y[7])
      tmp2 == z1 - (15137 * y[7])
      tmp3 == z1 + (6270 * y[3])
      tmp0 == (2 ^ CONST_BITS) * (y[1] + y[5])
      tmp1 == (2 ^ CONST_BITS) * (y[1] - y[5])
  IN  <<tmp0 + tmp3, tmp1 + tmp2, tmp1 - tmp2, tmp0 - tmp3>>
\* even are tmp10 .. tmp13, odd tmp3 .. tmp0.
Spread(even, odd, n) ==
  <<DESCALE(even[1] + odd[4], n), DESCALE(even[2] + odd[3], n), DESCALE(even[3] + odd[2], n), DESCALE(even[4] + odd[1], n),
    DESCALE(even[4] - odd[1], n), DESCALE(even[3] - odd[2], n), DESCALE(even[2] - odd[3], n), DESCALE(even[1] - odd[4], n)>>
idct_islow_1d(y, n) == Spread(EvenIn(y), OddPart(y[8], y[6], y[4], y[2]), n)

IdctColumns(x) == FlattenSeq([c \in 1 .. 8 |-> idct_islow_1d(ColumnOf(x, c), CONST_BITS - PASS1_BITS)])
IdctRows(x) == FlattenSeq([r \in 1 .. 8 |-> idct_islow_1d(RowOf(x, r), CONST_BITS + PASS1_BITS + 3)])
jpeg_idct_islow(coefs, dct_table) ==
  Samples(IdctRows(ColumnsToRows(IdctColumns(Dequantized(coefs, dct_table)), 8)))

(***************************************************************************)
(* The fast method (jpeg_idct_ifast)                                       *)
(***************************************************************************)

FastEvenIn(y) ==
  LET tmp13 == y[3] + y[7]
      tmp12 == MULTIPLY(y[3] - y[7], 362) - tmp13
  IN  <<y[1] + y[5] + tmp13, y[1] - y[5] + tmp12, y[1] - y[5] - tmp12, y[1] + y[5] - tmp13>>
FastSteps(tmp7, tmp10, tmp11, tmp12) ==
  <<tmp7, tmp12 - tmp7, tmp11 - tmp12 + tmp7, tmp10 + tmp11 - tmp12 + tmp7>>
FastOddIn(y) ==
  LET z13 == y[6] + y[4]
      z10 == y[6] - y[4]
      z11 == y[2] + y[8]
      z12 == y[2] - y[8]
      z5 == MULTIPLY(z10 + z12, 473)
  IN  FastSteps(z11 + z13, MULTIPLY(z12, 277) - z5, MULTIPLY(z11 - z13, 362), MULTIPLY(z10, -669) + z5)
\* even are tmp0 .. tmp3, odd tmp7 .. tmp4.
FastSpread(even, odd) ==
  <<even[1] + odd[1], even[2] + odd[2], even[3] + odd[3], even[4] - odd[4],
    even[4] + odd[4], even[3] - odd[3], even[2] - odd[2], even[1] - odd[1]>>
idct_ifast_1d(y) == FastSpread(FastEvenIn(y), FastOddIn(y))

FastIdctColumns(x) == FlattenSeq([c \in 1 .. 8 |-> idct_ifast_1d(ColumnOf(x, c))])
FastIdctRows(x) == FlattenSeq([r \in 1 .. 8 |-> idct_ifast_1d(RowOf(x, r))])
FastDescaled(x) == [k \in 1 .. 64 |-> RIGHT_SHIFT(x[k], PASS1_BITS + 3)]
jpeg_idct_ifast(coefs, dct_table) ==
  Samples(FastDescaled(FastIdctRows(ColumnsToRows(FastIdctColumns(Dequantized(coefs, dct_table)), 8))))

(***************************************************************************)
(* Reduced blocks: averages of 2 or 4 neighbours a side (jidctred.c)       *)
(***************************************************************************)

FourOut(tmp10, tmp12, tmp0, tmp2, n) ==
  <<DESCALE(tmp10 + tmp2, n), DESCALE(tmp12 + tmp0, n), DESCALE(tmp12 - tmp0, n), DESCALE(tmp10 - tmp2, n)>>
idct_4_1d(y, n) ==
  LET tmp0 == (2 ^ (CONST_BITS + 1)) * y[1]
      tmp2 == (15137 * y[3]) - (6270 * y[7])
  IN  FourOut(tmp0 + tmp2, tmp0 - tmp2,
              (-1730 * y[8]) + (11893 * y[6]) - (17799 * y[4]) + (8697 * y[2]),
              (-4176 * y[8]) - (4926 * y[6]) + (7373 * y[4]) + (20995 * y[2]), n)

TwoOut(tmp10, tmp0, n) == <<DESCALE(tmp10 + tmp0, n), DESCALE(tmp10 - tmp0, n)>>
idct_2_1d(y, n) ==
  TwoOut((2 ^ (CONST_BITS + 2)) * y[1], (-5906 * y[8]) + (6967 * y[6]) - (10426 * y[4]) + (29692 * y[2]), n)

FourColumns(x) == FlattenSeq([c \in 1 .. 8 |-> idct_4_1d(ColumnOf(x, c), CONST_BITS - PASS1_BITS + 1)])
FourRows(x) == FlattenSeq([r \in 1 .. 4 |-> idct_4_1d(RowOf(x, r), CONST_BITS + PASS1_BITS + 3 + 1)])
jpeg_idct_4x4(coefs, dct_table) == Samples(FourRows(ColumnsToRows(FourColumns(Dequantized(coefs, dct_table)), 4)))

TwoColumns(x) == FlattenSeq([c \in 1 .. 8 |-> idct_2_1d(ColumnOf(x, c), CONST_BITS - PASS1_BITS + 2)])
TwoRows(x) == FlattenSeq([r \in 1 .. 2 |-> idct_2_1d(RowOf(x, r), CONST_BITS + PASS1_BITS + 3 + 2)])
jpeg_idct_2x2(coefs, dct_table) == Samples(TwoRows(ColumnsToRows(TwoColumns(Dequantized(coefs, dct_table)), 2)))

jpeg_idct_1x1(coefs, dct_table) == <<range_limit(DESCALE(coefs[1] * dct_table[1], 3))>>

(***************************************************************************)
(* The choice of a method (start_pass in jddctmgr.c)                       *)
(***************************************************************************)

IFAST_SCALE_BITS == 2
\* Reduced blocks use the table of the accurate method.
dct_table(quantval, method, size) ==
  IF size = 8 /\ method = "ifast"
  THEN [k \in 1 .. 64 |-> DESCALE(quantval[k] * aanscales[k], 14 - IFAST_SCALE_BITS)]
  ELSE quantval

inverse_DCT(coefs, quantval, method, size) ==
  CASE size = 1 -> jpeg_idct_1x1(coefs, dct_table(quantval, method, size))
    [] size = 2 -> jpeg_idct_2x2(coefs, dct_table(quantval, method, size))
    [] size = 4 -> jpeg_idct_4x4(coefs, dct_table(quantval, method, size))
    [] size = 8 /\ method = "islow" -> jpeg_idct_islow(coefs, dct_table(quantval, method, size))
    [] size = 8 /\ method = "ifast" -> jpeg_idct_ifast(coefs, dct_table(quantval, method, size))
=============================================================================
