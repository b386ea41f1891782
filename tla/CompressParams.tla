--------------------------- MODULE CompressParams ---------------------------
(***************************************************************************)
(* The parameters of libjpeg's compressor (jcparam.c), what they must      *)
(* satisfy, and what jcmaster.c works out from them before a pass.         *)
(*                                                                         *)
(* p is what the application has chosen: the image, the colour spaces, the *)
(* sampling factors, the scans.  Components are numbered from 1.           *)
(***************************************************************************)
EXTENDS Integers, Sequences, FiniteSetsExt

DCTSIZE == 8
DCTSIZE2 == 64
MAX_COMPS_IN_SCAN == 4
C_MAX_BLOCKS_IN_MCU == 10
JPEG_MAX_DIMENSION == 65500
MAX_AH_AL == 10

CeilDiv(a, b) == (a + b - 1) \div b

(***************************************************************************)
(* jpeg_set_colorspace: luminance components use tables 0, chrominance     *)
(* components tables 1                                                     *)
(***************************************************************************)

SetComp(h, v, tbl) == [h |-> h, v |-> v, quant |-> tbl, dc |-> tbl, ac |-> tbl]
Luminance(h, v) == SetComp(h, v, 0)
Chrominance == SetComp(1, 1, 1)

jpeg_set_colorspace(p) ==
  CASE p.space = "gray" -> <<Luminance(1, 1)>>
    [] p.space = "rgb"  -> <<Luminance(1, 1), Luminance(1, 1), Luminance(1, 1)>>
    [] p.space = "ycc"  -> <<Luminance(2, 2), Chrominance, Chrominance>>
    [] p.space = "cmyk" -> [c \in 1 .. 4 |-> Luminance(1, 1)]
    [] p.space = "ycck" -> <<Luminance(2, 2), Chrominance, Chrominance, Luminance(2, 2)>>
    [] OTHER            -> [c \in 1 .. p.input_components |-> Luminance(1, 1)]

write_JFIF_header(p) == p.space \in {"gray", "ycc"}
write_Adobe_marker(p) == p.space \in {"rgb", "cmyk", "ycck"}

\* The colour space of the file that suits that of the image.
jpeg_default_colorspace(in_space) == IF in_space = "rgb" THEN "ycc" ELSE in_space

\* The application may change the sampling factors.
Comps(p) ==
  [c \in DOMAIN jpeg_set_colorspace(p) |->
     IF c \in DOMAIN p.factors
     THEN [jpeg_set_colorspace(p)[c] EXCEPT !.h = p.factors[c][1], !.v = p.factors[c][2]]
     ELSE jpeg_set_colorspace(p)[c]]
Components(p) == DOMAIN Comps(p)
H(p, c) == Comps(p)[c].h
V(p, c) == Comps(p)[c].v
MaxH(p) == Max({H(p, c) : c \in Components(p)})
MaxV(p) == Max({V(p, c) : c \in Components(p)})

\* jinit_color_converter: the conversions there are.
Channels(space, n) ==
  CASE space = "gray" -> n = 1 [] space \in {"rgb", "ycc"} -> n = 3
    [] space \in {"cmyk", "ycck"} -> n = 4 [] OTHER -> n >= 1
Conversions ==
  {<<"gray", "gray">>, <<"rgb", "gray">>, <<"ycc", "gray">>, <<"rgb", "rgb">>, <<"rgb", "ycc">>,
   <<"ycc", "ycc">>, <<"cmyk", "cmyk">>, <<"cmyk", "ycck">>, <<"ycck", "ycck">>, <<"unknown", "unknown">>}
color_convert_fails(p) ==
  \/ ~ Channels(p.in_space, p.input_components)
  \/ ~ Channels(p.space, Len(Comps(p)))
  \/ <<p.in_space, p.space>> \notin Conversions
  \/ p.space = "unknown" /\ Len(Comps(p)) # p.input_components

(***************************************************************************)
(* Quantization tables: the quality becomes a percentage of the basic      *)
(* table                                                                   *)
(***************************************************************************)

jpeg_quality_scaling(quality) ==
  LET q == IF quality <= 0 THEN 1 ELSE IF quality > 100 THEN 100 ELSE quality
  IN  IF q < 50 THEN 5000 \div q ELSE 200 - (q * 2)

quantval(basic, scale_factor, force_baseline) ==
  LET temp == ((basic * scale_factor) + 50) \div 100
      limit == IF force_baseline THEN 255 ELSE 32767
  IN  IF temp <= 0 THEN 1 ELSE IF temp > limit THEN limit ELSE temp

\* The largest entries of the basic tables decide on the precision.
LargestEntry == [tbl \in {0, 1} |-> IF tbl = 0 THEN 121 ELSE 99]

(***************************************************************************)
(* Scan scripts                                                            *)
(***************************************************************************)

Scan(comps, Ss, Se, Ah, Al) == [comps |-> comps, Ss |-> Ss, Se |-> Se, Ah |-> Ah, Al |-> Al]

fill_scans(n, Ss, Se, Ah, Al) == [c \in 1 .. n |-> Scan(<<c>>, Ss, Se, Ah, Al)]
All(n) == [c \in 1 .. n |-> c]
fill_dc_scans(n, Ah, Al) ==
  IF n <= MAX_COMPS_IN_SCAN THEN <<Scan(All(n), 0, 0, Ah, Al)>> ELSE fill_scans(n, 0, 0, Ah, Al)

YCbCrScript ==
  fill_dc_scans(3, 0, 1)
    \o <<Scan(<<1>>, 1, 5, 0, 2), Scan(<<3>>, 1, 63, 0, 1), Scan(<<2>>, 1, 63, 0, 1),
         Scan(<<1>>, 6, 63, 0, 2), Scan(<<1>>, 1, 63, 2, 1)>>
    \o fill_dc_scans(3, 1, 0)
    \o <<Scan(<<3>>, 1, 63, 1, 0), Scan(<<2>>, 1, 63, 1, 0), Scan(<<1>>, 1, 63, 1, 0)>>

\* (mutant) The low bit of the AC coefficients is forgotten.
FewerScans(p) ==
  LET n == Len(Comps(p))
  IN  IF n = 3 /\ p.space = "ycc" THEN SubSeq(YCbCrScript, 1, 9)
      ELSE fill_dc_scans(n, 0, 1) \o fill_scans(n, 1, 63, 0, 1) \o fill_dc_scans(n, 1, 0)

jpeg_simple_progression(p) ==
  LET n == Len(Comps(p))
  IN  IF n = 3 /\ p.space = "ycc" THEN YCbCrScript
      ELSE fill_dc_scans(n, 0, 1) \o fill_scans(n, 1, 5, 0, 2) \o fill_scans(n, 6, 63, 0, 2)
             \o fill_scans(n, 1, 63, 2, 1) \o fill_dc_scans(n, 1, 0) \o fill_scans(n, 1, 63, 1, 0)

\* The scans of an image: without a script one that holds all components.
Script(p) ==
  CASE p.script = "none"   -> <<Scan(All(Len(Comps(p))), 0, DCTSIZE2 - 1, 0, 0)>>
    [] p.script = "simple" -> jpeg_simple_progression(p)
    [] OTHER               -> p.scans

FullBand(s) == s.Ss = 0 /\ s.Se = DCTSIZE2 - 1
progressive_mode(p) == p.script # "none" /\ ~ FullBand(Script(p)[1])
\* A progressive file always has Huffman tables of its own.
optimize_coding(p) == p.optimize \/ progressive_mode(p)

\* The scans before number i that send coefficient k of component c.
Earlier(scans, i, c, k) ==
  {j \in 1 .. i - 1 : k \in scans[j].Ss .. scans[j].Se /\ \E x \in DOMAIN scans[j].comps : scans[j].comps[x] = c}

\* The script sends the bits of a coefficient from the top down, none twice.
BitsInOrder(scans, i, c, k) ==
  LET sent == Earlier(scans, i, c, k)
  IN  IF sent = {} THEN scans[i].Ah = 0
      ELSE scans[i].Ah = scans[Max(sent)].Al /\ scans[i].Al = scans[i].Ah - 1

ProgressiveScan(scans, i) ==
  LET s == scans[i]
  IN  /\ s.Ss \in 0 .. s.Se /\ s.Se < DCTSIZE2 /\ s.Ah \in 0 .. MAX_AH_AL /\ s.Al \in 0 .. MAX_AH_AL
      /\ IF s.Ss = 0 THEN s.Se = 0 ELSE Len(s.comps) = 1
      /\ \A x \in DOMAIN s.comps :
           /\ s.Ss # 0 => Earlier(scans, i, s.comps[x], 0) # {}
           /\ \A k \in s.Ss .. s.Se : BitsInOrder(scans, i, s.comps[x], k)

SequentialScan(scans, i) ==
  /\ FullBand(scans[i]) /\ scans[i].Ah = 0 /\ scans[i].Al = 0
  /\ \A x \in DOMAIN scans[i].comps : Earlier(scans, i, scans[i].comps[x], 0) = {}

ComponentsInOrder(s, n) ==
  /\ Len(s.comps) \in 1 .. MAX_COMPS_IN_SCAN
  /\ \A x \in DOMAIN s.comps : s.comps[x] \in 1 .. n /\ (x > 1 => s.comps[x] > s.comps[x - 1])

validate_script(scans, n) ==
  /\ scans # <<>>
  /\ \A i \in DOMAIN scans :
       /\ ComponentsInOrder(scans[i], n)
       /\ IF FullBand(scans[1]) THEN SequentialScan(scans, i) ELSE ProgressiveScan(scans, i)
  /\ \A c \in 1 .. n : Earlier(scans, Len(scans) + 1, c, 0) # {}

(***************************************************************************)
(* initial_setup and per_scan_setup                                        *)
(***************************************************************************)

initial_setup_fails(p) ==
  \/ p.height <= 0 \/ p.width <= 0 \/ p.height > JPEG_MAX_DIMENSION \/ p.width > JPEG_MAX_DIMENSION
  \/ \E c \in Components(p) : H(p, c) \notin 1 .. 4 \/ V(p, c) \notin 1 .. 4

width_in_blocks(p, c) == CeilDiv(p.width * H(p, c), MaxH(p) * DCTSIZE)
height_in_blocks(p, c) == CeilDiv(p.height * V(p, c), MaxV(p) * DCTSIZE)
downsampled_height(p, c) == CeilDiv(p.height * V(p, c), MaxV(p))
total_iMCU_rows(p) == CeilDiv(p.height, MaxV(p) * DCTSIZE)

\* What is left of n in the last part of m.
Rest(n, m) == IF n % m = 0 THEN m ELSE n % m

\* An MCU of a scan of one component is a block, otherwise it has the blocks of
\* the sampling factors.
per_scan_setup(p, scan) ==
  LET single == Len(scan.comps) = 1
      one    == scan.comps[1]
      MCUs   == IF single THEN width_in_blocks(p, one) ELSE CeilDiv(p.width, MaxH(p) * DCTSIZE)
  IN  [ comps       |-> scan.comps,
        MCUs_per_row |-> MCUs,
        MCU_width   |-> [x \in DOMAIN scan.comps |-> IF single THEN 1 ELSE H(p, scan.comps[x])],
        MCU_height  |-> [x \in DOMAIN scan.comps |-> IF single THEN 1 ELSE V(p, scan.comps[x])],
        last_col_width  |-> [x \in DOMAIN scan.comps |->
                               IF single THEN 1 ELSE Rest(width_in_blocks(p, scan.comps[x]), H(p, scan.comps[x]))],
        last_row_height |-> [x \in DOMAIN scan.comps |-> Rest(height_in_blocks(p, scan.comps[x]), V(p, scan.comps[x]))],
        restart_interval |-> IF p.restart_in_rows > 0 THEN Min({p.restart_in_rows * MCUs, 65535})
                             ELSE p.restart_interval ]

MCU_too_large(p, scan) ==
  Len(scan.comps) > 1
    /\ MapThenSumSet(LAMBDA x : H(p, scan.comps[x]) * V(p, scan.comps[x]), DOMAIN scan.comps) > C_MAX_BLOCKS_IN_MCU

(***************************************************************************)
(* jinit_downsampler: how the rows of a component are made of those of the *)
(* image                                                                   *)
(***************************************************************************)

method(p, c) ==
  CASE H(p, c) = MaxH(p) /\ V(p, c) = MaxV(p)         -> IF p.smoothing THEN "fullsize_smooth" ELSE "fullsize"
    [] H(p, c) * 2 = MaxH(p) /\ V(p, c) = MaxV(p)     -> "h2v1"
    [] H(p, c) * 2 = MaxH(p) /\ V(p, c) * 2 = MaxV(p) -> IF p.smoothing THEN "h2v2_smooth" ELSE "h2v2"
    [] MaxH(p) % H(p, c) = 0 /\ MaxV(p) % V(p, c) = 0 -> "int"
    [] OTHER                                          -> "none"
smooths(p, c) == method(p, c) \in {"fullsize_smooth", "h2v2_smooth"}
need_context_rows(p) == \E c \in Components(p) : smooths(p, c)

\* What jpeg_start_compress refuses.
StartFails(p) ==
  \/ initial_setup_fails(p)
  \/ p.script # "none" /\ ~ validate_script(Script(p), Len(Comps(p)))
  \/ p.script = "none" /\ Len(Comps(p)) > MAX_COMPS_IN_SCAN
  \/ ~ p.raw /\ ~ p.transcode /\ (color_convert_fails(p) \/ \E c \in Components(p) : method(p, c) = "none")
  \/ MCU_too_large(p, Script(p)[1])
=============================================================================
