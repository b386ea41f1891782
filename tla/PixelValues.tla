---------------------------- MODULE PixelValues ----------------------------
(***************************************************************************)
(* The values of samples between the pixels of an application and the      *)
(* DCTs: colour conversion on both sides (jccolor.c, jdcolor.c),           *)
(* downsampling with and without smoothing (jcsample.c), upsampling        *)
(* (jdsample.c) and both at once (jdmerge.c), and the table that limits    *)
(* values to the range of samples (jdmaster.c).  Which rows the routines   *)
(* are given, and when, is the matter of CompressPipeline and RowPipeline. *)
(*                                                                         *)
(* A pixel and a row are sequences: of the components, of the samples.     *)
(***************************************************************************)
EXTENDS Integers, Sequences, Functions, FiniteSetsExt

MAXJSAMPLE == 255
CENTERJSAMPLE == 128
JSAMPLE == 0 .. MAXJSAMPLE

\* A fraction of 2^16 without its fraction, rounded down.
SCALE == 65536
ONE_HALF == 32768
Descaled(x) == x \div SCALE

\* The table prepare_range_limit_table makes.  Some of it is for what comes out
\* of the inverse DCT only: that part begins at CENTERJSAMPLE and is 1024 long.
sample_range_limit ==
  [x \in (-(MAXJSAMPLE + 1)) .. (4 * (MAXJSAMPLE + 1)) + CENTERJSAMPLE - 1 |->
     CASE x < 0 -> 0
       [] x \in JSAMPLE -> x
       [] x > MAXJSAMPLE /\ x < CENTERJSAMPLE + (2 * (MAXJSAMPLE + 1)) -> MAXJSAMPLE
       [] x >= CENTERJSAMPLE + (2 * (MAXJSAMPLE + 1)) /\ x < 4 * (MAXJSAMPLE + 1) -> 0
       [] x >= 4 * (MAXJSAMPLE + 1) -> x - (4 * (MAXJSAMPLE + 1))]

(***************************************************************************)
(* Colours on their way in                                                 *)
(***************************************************************************)

\* What rgb_ycc_tab has for each component, added up.  Where 0.5 is added for
\* rounding, Cb and Cr add a little less.
CBCR_OFFSET == CENTERJSAMPLE * SCALE
Y_of(r, g, b) == Descaled((19595 * r) + (38470 * g) + (7471 * b) + ONE_HALF)
Cb_of(r, g, b) == Descaled((-11059 * r) - (21709 * g) + (32768 * b) + CBCR_OFFSET + ONE_HALF - 1)
Cr_of(r, g, b) == Descaled((32768 * r) - (27439 * g) - (5329 * b) + CBCR_OFFSET + ONE_HALF - 1)

rgb_ycc_convert(p) == <<Y_of(p[1], p[2], p[3]), Cb_of(p[1], p[2], p[3]), Cr_of(p[1], p[2], p[3])>>
rgb_gray_convert(p) == <<Y_of(p[1], p[2], p[3])>>
Complement(p) == [c \in 1 .. 3 |-> MAXJSAMPLE - p[c]]
cmyk_ycck_convert(p) == Append(rgb_ycc_convert(Complement(p)), p[4])

(***************************************************************************)
(* Colours on their way out                                                *)
(***************************************************************************)

\* The four tables of build_ycc_rgb_table.
Cr_r_tab(cr) == Descaled((91881 * (cr - CENTERJSAMPLE)) + ONE_HALF)
Cb_b_tab(cb) == Descaled((116130 * (cb - CENTERJSAMPLE)) + ONE_HALF)
Cr_g_tab(cr) == -46802 * (cr - CENTERJSAMPLE)
Cb_g_tab(cb) == (-22554 * (cb - CENTERJSAMPLE)) + ONE_HALF

\* What the chroma adds to y in red, green and blue.
Chroma(cb, cr) == <<Cr_r_tab(cr), Descaled(Cb_g_tab(cb) + Cr_g_tab(cr)), Cb_b_tab(cb)>>
ycc_rgb_convert(p) == [c \in 1 .. 3 |-> sample_range_limit[p[1] + Chroma(p[2], p[3])[c]]]
ycck_cmyk_convert(p) ==
  [c \in 1 .. 4 |-> IF c = 4 THEN p[4] ELSE sample_range_limit[MAXJSAMPLE - (p[1] + Chroma(p[2], p[3])[c])]]
gray_rgb_convert(p) == <<p[1], p[1], p[1]>>
grayscale_convert(p) == <<p[1]>>
null_convert(p) == p

\* Which routine is used between two colour spaces; there is none for others.
color_convert(in, jpeg, p) ==
  CASE jpeg = "grayscale" /\ in \in {"grayscale", "YCbCr"} -> grayscale_convert(p)
    [] jpeg = "grayscale" /\ in = "RGB" -> rgb_gray_convert(p)
    [] jpeg = "YCbCr" /\ in = "RGB" -> rgb_ycc_convert(p)
    [] jpeg = "YCCK" /\ in = "CMYK" -> cmyk_ycck_convert(p)
    [] jpeg # "grayscale" /\ jpeg = in -> null_convert(p)
color_deconvert(jpeg, out, p) ==
  CASE out = "grayscale" /\ jpeg \in {"grayscale", "YCbCr"} -> grayscale_convert(p)
    [] out = "RGB" /\ jpeg = "YCbCr" -> ycc_rgb_convert(p)
    [] out = "RGB" /\ jpeg = "grayscale" -> gray_rgb_convert(p)
    [] out = "CMYK" /\ jpeg = "YCCK" -> ycck_cmyk_convert(p)
    [] out # "grayscale" /\ out = jpeg -> null_convert(p)

(***************************************************************************)
(* Downsampling                                                            *)
(***************************************************************************)

\* A row with its last sample repeated: what lies beyond it is that sample.
expand_right_edge(row, cols) == [x \in 1 .. cols |-> IF x \in DOMAIN row THEN row[x] ELSE row[Len(row)]]
\* The first and last columns stand for those beside them.
At(row, x) == IF x \in DOMAIN row THEN row[x] ELSE IF x < 1 THEN row[1] ELSE row[Len(row)]

\* rows are those that become one row, of samples h_expand columns wide.
int_downsample(rows, h_expand) ==
  LET numpix == h_expand * Len(rows)
      Square(x) == {<<v, (h_expand * (x - 1)) + h>> : v \in 1 .. Len(rows), h \in 1 .. h_expand}
  IN  [x \in 1 .. Len(rows[1]) \div h_expand |->
         (MapThenSumSet(LAMBDA at : rows[at[1]][at[2]], Square(x)) + (numpix \div 2)) \div numpix]
\* The bias changes from sample to sample, so that halves go up and down.
h2v1_downsample(row) ==
  [x \in 1 .. Len(row) \div 2 |-> (row[(2 * x) - 1] + row[2 * x] + ((x - 1) % 2)) \div 2]
h2v2_downsample(row0, row1) ==
  [x \in 1 .. Len(row0) \div 2 |->
     (row0[(2 * x) - 1] + row0[2 * x] + row1[(2 * x) - 1] + row1[2 * x] + 1 + ((x - 1) % 2)) \div 4]

Smoothed(members, memberscale, neighbours, neighscale) ==
  Descaled((members * memberscale) + (neighbours * neighscale) + ONE_HALF)
\* Each of four members counts with (1 - 5 SF) / 4, its neighbours at an edge with
\* SF / 2, at a corner with SF / 4, where SF is smoothing_factor / 1024.
h2v2_smooth_downsample(above, row0, row1, below, smoothing_factor) ==
  [x \in 1 .. Len(row0) \div 2 |->
     LET l == (2 * x) - 1
         r == 2 * x
         edges == above[l] + above[r] + below[l] + below[r] + At(row0, l - 1) + At(row0, r + 1) + At(row1, l - 1) + At(row1, r + 1)
         corners == At(above, l - 1) + At(above, r + 1) + At(below, l - 1) + At(below, r + 1)
     IN  Smoothed(row0[l] + row0[r] + row1[l] + row1[r], 16384 - (smoothing_factor * 80),
                  (2 * edges) + corners, smoothing_factor * 16)]
fullsize_smooth_downsample(above, row, below, smoothing_factor) ==
  [x \in 1 .. Len(row) |->
     LET Colsum(c) == At(above, c) + At(row, c) + At(below, c)
     IN  Smoothed(row[x], 65536 - (smoothing_factor * 512),
                  Colsum(x - 1) + (Colsum(x) - row[x]) + Colsum(x + 1), smoothing_factor * 64)]

(***************************************************************************)
(* Upsampling                                                              *)
(***************************************************************************)

int_upsample(row, h_expand) == [x \in 1 .. h_expand * Len(row) |-> row[((x - 1) \div h_expand) + 1]]
h2v1_upsample(row) == int_upsample(row, 2)

\* Interpolation between the centres of samples: 3/4 of the nearer one and 1/4 of
\* the further one.  The outermost samples stand for themselves.
Nearer(x) == (x + 1) \div 2
Further(x) == IF x % 2 = 1 THEN Nearer(x) - 1 ELSE Nearer(x) + 1
h2v1_fancy_upsample(row) ==
  [x \in 1 .. 2 * Len(row) |->
     IF Further(x) \in DOMAIN row THEN ((3 * row[Nearer(x)]) + row[Further(x)] + (IF x % 2 = 1 THEN 1 ELSE 2)) \div 4
     ELSE row[Nearer(x)]]
\* The same in both directions: near is the nearer row, next the one behind it.
h2v2_fancy_upsample(near, next) ==
  LET colsum == [x \in 1 .. Len(near) |-> (3 * near[x]) + next[x]]
      bias(x) == IF x % 2 = 1 THEN 8 ELSE 7
  IN  [x \in 1 .. 2 * Len(near) |->
         ((3 * colsum[Nearer(x)]) + At(colsum, Further(x)) + bias(x)) \div 16]

\* Two columns share their chroma, whether upsampled first or merged; the last
\* one of an odd number has it alone.
merged_upsample(y, cb, cr) ==
  [x \in 1 .. Len(y) |-> [c \in 1 .. 3 |-> sample_range_limit[y[x] + Chroma(cb[Nearer(x)], cr[Nearer(x)])[c]]]]
=============================================================================
