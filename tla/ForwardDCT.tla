----------------------------- MODULE ForwardDCT -----------------------------
(***************************************************************************)
(* From samples to quantized coefficients (jcdctmgr.c): the two integer    *)
(* DCTs of libjpeg, the accurate one (jfdctint.c) and the fast one         *)
(* (jfdctfst.c), and quantization.  A block is a sequence of 64 numbers,   *)
(* row by row, a row or column one of 8.                                   *)
(***************************************************************************)
EXTENDS PixelValues, SequencesExt

\* Rounding, and without it; a shift to the right is a division here.
DESCALE(x, n) == (x + (2 ^ (n - 1))) \div (2 ^ n)
RIGHT_SHIFT(x, n) == x \div (2 ^ n)

CONST_BITS == 13
PASS1_BITS == 2

RowOf(x, r) == SubSeq(x, (8 * r) - 7, 8 * r)
ColumnOf(x, c) == [i \in 1 .. 8 |-> x[(8 * (i - 1)) + c]]
\* What is done with columns comes out one after the other.
FromColumns(x) == [k \in 1 .. 64 |-> x[(8 * ((k - 1) % 8)) + ((k - 1) \div 8) + 1]]

\* Sums and differences of samples that lie opposite.
Sums(d) == [i \in 1 .. 4 |-> d[i] + d[9 - i]]
Differences(d) == [i \in 1 .. 4 |-> d[i] - d[9 - i]]

(***************************************************************************)
(* The accurate method (jpeg_fdct_islow)                                   *)
(***************************************************************************)

\* Four values turned by the odd part of the DCT, which is its own transpose and
\* serves forward and inverse.
OddPart(a, b, c, d) ==
  LET z1 == -7373 * (a + d)
      z2 == -20995 * (b + c)
      z5 == 9633 * (a + b + c + d)
      z3 == (-16069 * (a + c)) + z5
      z4 == (-3196 * (b + d)) + z5
  IN  <<(2446 * a) + z1 + z3, (16819 * b) + z2 + z4, (25172 * c) + z2 + z3, (12299 * d) + z1 + z4>>

\* s are the sums tmp0 .. tmp3.  The first and third value, which the code shifts
\* instead, are scaled as the others.
EvenPart(s) ==
  LET tmp12 == s[2] - s[3]
      tmp13 == s[1] - s[4]
      z1 == 4433 * (tmp12 + tmp13)
  IN  <<(2 ^ CONST_BITS) * (s[1] + s[4] + s[2] + s[3]), z1 + (6270 * tmp13),
        (2 ^ CONST_BITS) * (s[1] + s[4] - s[2] - s[3]), z1 - (15137 * tmp12)>>

Woven(even, odd, n) ==
  <<DESCALE(even[1], n), DESCALE(odd[4], n), DESCALE(even[2], n), DESCALE(odd[3], n),
    DESCALE(even[3], n), DESCALE(odd[2], n), DESCALE(even[4], n), DESCALE(odd[1], n)>>
\* The differences are tmp7, tmp6, tmp5, tmp4.
Odd(t) == OddPart(t[4], t[3], t[2], t[1])
fdct_islow_1d(d, n) == Woven(EvenPart(Sums(d)), Odd(Differences(d)), n)

IslowRows(x) == FlattenSeq([r \in 1 .. 8 |-> fdct_islow_1d(RowOf(x, r), CONST_BITS - PASS1_BITS)])
IslowColumns(x) == FlattenSeq([c \in 1 .. 8 |-> fdct_islow_1d(ColumnOf(x, c), CONST_BITS + PASS1_BITS)])
jpeg_fdct_islow(x) == FromColumns(IslowColumns(IslowRows(x)))

(***************************************************************************)
(* The fast method (jpeg_fdct_ifast): 8 bits of fraction, never rounded    *)
(***************************************************************************)

MULTIPLY(x, const) == RIGHT_SHIFT(x * const, 8)

FastEven(s) ==
  LET tmp13 == s[1] - s[4]
      z1 == MULTIPLY(s[2] - s[3] + tmp13, 181)
  IN  <<s[1] + s[4] + s[2] + s[3], tmp13 + z1, s[1] + s[4] - s[2] - s[3], tmp13 - z1>>

\* The last of t[1] .. t[4], tmp7 .. tmp4, is added to the one before, and so on.
FastOdd(t) ==
  LET tmp10 == t[4] + t[3]
      tmp12 == t[2] + t[1]
      z5 == MULTIPLY(tmp10 - tmp12, 98)
      z2 == MULTIPLY(tmp10, 139) + z5
      z4 == MULTIPLY(tmp12, 334) + z5
      z3 == MULTIPLY(t[3] + t[2], 181)
  IN  <<t[1] + z3 + z4, t[1] - z3 - z2, t[1] - z3 + z2, t[1] + z3 - z4>>

FastWoven(even, odd) == <<even[1], odd[1], even[2], odd[2], even[3], odd[3], even[4], odd[4]>>
fdct_ifast_1d(d) == FastWoven(FastEven(Sums(d)), FastOdd(Differences(d)))

IfastRows(x) == FlattenSeq([r \in 1 .. 8 |-> fdct_ifast_1d(RowOf(x, r))])
IfastColumns(x) == FlattenSeq([c \in 1 .. 8 |-> fdct_ifast_1d(ColumnOf(x, c))])
jpeg_fdct_ifast(x) == FromColumns(IfastColumns(IfastRows(x)))

(***************************************************************************)
(* Quantization                                                            *)
(***************************************************************************)

\* What the fast method leaves to the divisors, 14 bits of fraction.
aanscales ==
  <<16384, 22725, 21407, 19266, 16384, 12873,  8867, 4520>> \o
  <<22725, 31521, 29692, 26722, 22725, 17855, 12299, 6270>> \o
  <<21407, 29692, 27969, 25172, 21407, 16819, 11585, 5906>> \o
  <<19266, 26722, 25172, 22654, 19266, 15137, 10426, 5315>> \o
  <<16384, 22725, 21407, 19266, 16384, 12873,  8867, 4520>> \o
  <<12873, 17855, 16819, 15137, 12873, 10114,  6967, 3552>> \o
  << 8867, 12299, 11585, 10426,  8867,  6967,  4799, 2446>> \o
  << 4520,  6270,  5906,  5315,  4520,  3552,  2446, 1247>>

Divisor(quantval, method, k) ==
  IF method = "islow" THEN 8 * quantval[k] ELSE DESCALE(quantval[k] * aanscales[k], 14 - 3)

Quantized(temp, qval) ==
  IF temp < 0 THEN -((-temp + (qval \div 2)) \div qval) ELSE (temp + (qval \div 2)) \div qval

Centered(samples) == FlattenSeq([k \in 1 .. 64 |-> <<samples[k] - CENTERJSAMPLE>>])
do_dct(x, method) == IF method = "islow" THEN jpeg_fdct_islow(x) ELSE jpeg_fdct_ifast(x)
QuantizedBlock(x, quantval, method) == [k \in 1 .. 64 |-> Quantized(x[k], Divisor(quantval, method, k))]
forward_DCT(samples, quantval, method) == QuantizedBlock(do_dct(Centered(samples), method), quantval, method)
=============================================================================
