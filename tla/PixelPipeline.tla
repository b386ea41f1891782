--------------------------- MODULE PixelPipeline ---------------------------
(***************************************************************************)
(* A picture on its way through libjpeg and back: its pixels become the    *)
(* blocks of samples that EntropyCoding codes and decodes, these become    *)
(* the pixels of the reader, in the size and the colours it asks for, and  *)
(* the reader may have them quantized (OnePassQuantizer), in as many       *)
(* passes as it likes, each of which it may give up.                       *)
(*                                                                         *)
(* A picture has                                                           *)
(*   pixels             rows of pixels                                     *)
(*   in_color_space, jpeg_color_space                                      *)
(*   sampling           the factors of each component in the file, <<h, v>> *)
(*   smoothing_factor                                                      *)
(*   roughness          how much neighbouring pixels may seem to differ    *)
(*                      more or less once samples stand for several pixels *)
(* and is of a size that leaves no MCU with dummy blocks: these are a      *)
(* matter of CompressController.                                           *)
(***************************************************************************)
EXTENDS EntropyCoding, OnePassQuantizer

CONSTANT MaxPasses   \* bound: the output passes of a reader

VARIABLES shown,     \* the rows of pixels that the reader gets, or <<>>
          reader,    \* out_color_space and do_fancy_upsampling
          row_out,   \* rows quantized in this pass
          passes

pipeline_vars == <<shown, reader, row_out, passes>>

CeilDiv(a, b) == (a + b - 1) \div b
Between(x, least, most) == IF x < least THEN least ELSE IF x > most THEN most ELSE x

(***************************************************************************)
(* From pixels to blocks                                                   *)
(***************************************************************************)

Height(p) == Len(p.pixels)
ImageWidth(p) == Len(p.pixels[1])
HFactor(p, c) == p.sampling[c][1]
VFactor(p, c) == p.sampling[c][2]
HExpand(p, c) == MaxFactor(p.sampling, 1) \div HFactor(p, c)
VExpand(p, c) == MaxFactor(p.sampling, 2) \div VFactor(p, c)
MCUsAcross(p) == CeilDiv(ImageWidth(p), 8 * MaxFactor(p.sampling, 1))
MCUsDown(p) == CeilDiv(Height(p), 8 * MaxFactor(p.sampling, 2))

\* The routine that is chosen for component c, and whether any needs rows around.
DownsampleMethod(p, c) ==
  LET ratio == <<HExpand(p, c), VExpand(p, c)>>
      smoothed == p.smoothing_factor # 0
  IN  CASE ratio = <<1, 1>> -> IF smoothed THEN "fullsize_smooth" ELSE "fullsize"
        [] ratio = <<2, 1>> -> "h2v1"
        [] ratio = <<2, 2>> -> IF smoothed THEN "h2v2_smooth" ELSE "h2v2"
        [] OTHER -> "int"
need_context_rows(p) == \E c \in DOMAIN p.sampling : DownsampleMethod(p, c) \in {"fullsize_smooth", "h2v2_smooth"}

\* Row y of component c after colour conversion and with its right edge expanded
\* as far as the blocks go.  Beyond top and bottom the first and last rows go on.
ConvertedRow(p, c, y) ==
  LET row == p.pixels[Between(y, 1, Height(p))]
  IN  expand_right_edge([x \in DOMAIN row |-> color_convert(p.in_color_space, p.jpeg_color_space, row[x])[c]],
                        MCUsAcross(p) * 8 * MaxFactor(p.sampling, 1))

\* Row y of what downsampling makes of component c.  Groups of rows below the
\* image are made from it only if there are context rows, else the last row that
\* was made is repeated.
DownsampledRow(p, c, y) ==
  LET last == CeilDiv(Height(p), MaxFactor(p.sampling, 2)) * VFactor(p, c)
      r == (((IF need_context_rows(p) \/ y < last THEN y ELSE last) - 1) * VExpand(p, c)) + 1
      Row(i) == ConvertedRow(p, c, r + i)
      method == DownsampleMethod(p, c)
  IN  CASE method = "fullsize" -> Row(0)
        [] method = "fullsize_smooth" -> fullsize_smooth_downsample(Row(-1), Row(0), Row(1), p.smoothing_factor)
        [] method = "h2v1" -> h2v1_downsample(Row(0))
        [] method = "h2v2" -> h2v2_downsample(Row(0), Row(1))
        [] method = "h2v2_smooth" -> h2v2_smooth_downsample(Row(-1), Row(0), Row(1), Row(2), p.smoothing_factor)
        [] method = "int" -> int_downsample([i \in 1 .. VExpand(p, c) |-> Row(i - 1)], HExpand(p, c))

\* Blocks come MCU after MCU, and in an MCU row after row.  A component has v rows
\* of h blocks in each.
BlocksOfMCU(p, c, samples, m) ==
  LET h == HFactor(p, c)
      across == MCUsAcross(p) * h
      BlockRow(b) == ((m \div MCUsAcross(p)) * VFactor(p, c)) + (b \div h)
      BlockColumn(b) == ((m % MCUsAcross(p)) * h) + (b % h)
      Start(b, i) == (8 * ((across * ((8 * BlockRow(b)) + i)) + BlockColumn(b))) + 1
  IN  [n \in 1 .. h * VFactor(p, c) |->
         FlattenSeq([i \in 1 .. 8 |-> SubSeq(samples, Start(n - 1, i - 1), Start(n - 1, i - 1) + 7)])]

Preprocessed(p) ==
  [c \in DOMAIN p.sampling |->
     LET samples == FlattenSeq([y \in 1 .. 8 * MCUsDown(p) * VFactor(p, c) |-> DownsampledRow(p, c, y)])
     IN  FlattenSeq([m \in 1 .. MCUsAcross(p) * MCUsDown(p) |-> BlocksOfMCU(p, c, samples, m - 1)])]

\* Of a picture, the samples of its job are what preprocessing makes of it.
ASSUME PicturesAssumption ==
  \A j \in Jobs : j.samples # <<>> =>
    /\ j.sampling = j.picture.sampling /\ j.samples = Preprocessed(j.picture)
    /\ \A c \in DOMAIN j.sampling :
         /\ MCUsAcross(j.picture) * HFactor(j.picture, c) = CeilDiv(ImageWidth(j.picture), 8 * HExpand(j.picture, c))
         /\ MCUsDown(j.picture) * VFactor(j.picture, c) = CeilDiv(Height(j.picture), 8 * VExpand(j.picture, c))

(***************************************************************************)
(* From blocks to pixels                                                   *)
(***************************************************************************)

picture == job.picture
Size(c) == DCT_scaled_size(job.sampling, c, output.size)
output_width == CeilDiv(ImageWidth(picture) * output.size, 8)
output_height == CeilDiv(Height(picture) * output.size, 8)
downsampled_width(c) == CeilDiv(ImageWidth(picture) * Size(c), 8 * HExpand(picture, c))
downsampled_height(c) == CeilDiv(Height(picture) * Size(c), 8 * VExpand(picture, c))

\* The number of the block in row i and column j, from 0, of component c.
BlockNumber(c, i, j) ==
  LET h == HFactor(picture, c)
      v == VFactor(picture, c)
      m == ((i \div v) * MCUsAcross(picture)) + (j \div h)
  IN  (m * h * v) + ((i % v) * h) + (j % h) + 1
SampleRow(c, y) ==
  [x \in 1 .. downsampled_width(c) |->
     LET block == BlockNumber(c, (y - 1) \div Size(c), (x - 1) \div Size(c))
     IN  output.samples[c][block][(((y - 1) % Size(c)) * Size(c)) + ((x - 1) % Size(c)) + 1]]

\* What is left to expand when the inverse DCT has made larger blocks.
\* (mutant) as if all components were made in blocks of one size
HLeftUnscaled(c) == HExpand(picture, c)
HLeft(c) == (HExpand(picture, c) * output.size) \div Size(c)
VLeft(c) == (VExpand(picture, c) * output.size) \div Size(c)
UpsampleMethod(c, fancy) ==
  LET do_fancy == fancy /\ output.size > 1 /\ downsampled_width(c) > 2
      left == <<HLeft(c), VLeft(c)>>
  IN  CASE left = <<1, 1>> -> "fullsize"
        [] left = <<2, 1>> /\ do_fancy -> "h2v1_fancy"
        [] left = <<2, 2>> /\ do_fancy -> "h2v2_fancy"
        [] OTHER -> "int"

\* Row y of the picture from the rows of a component it lies on, and next to.
UpsampledRow(c, y, fancy) ==
  LET near == ((y - 1) \div VLeft(c)) + 1
      next == Between(IF y % 2 = 1 THEN near - 1 ELSE near + 1, 1, downsampled_height(c))
      method == UpsampleMethod(c, fancy)
  IN  CASE method = "fullsize" -> SampleRow(c, y)
        [] method = "h2v1_fancy" -> h2v1_fancy_upsample(SampleRow(c, near))
        [] method = "h2v2_fancy" -> h2v2_fancy_upsample(SampleRow(c, near), SampleRow(c, next))
        [] method = "int" -> int_upsample(SampleRow(c, near), HLeft(c))

use_merged_upsample(space, fancy) ==
  /\ ~ fancy
  /\ picture.jpeg_color_space = "YCbCr" /\ space = "RGB"
  /\ job.sampling \in {<<<<2, v>>, <<1, 1>>, <<1, 1>>>> : v \in {1, 2}}
  /\ \A c \in DOMAIN job.sampling : Size(c) = output.size

PixelRow(y, space, fancy) ==
  IF use_merged_upsample(space, fancy)
  THEN LET chroma == ((y - 1) \div VLeft(2)) + 1
       IN  merged_upsample(SampleRow(1, y), SampleRow(2, chroma), SampleRow(3, chroma))
  ELSE LET rows == [c \in DOMAIN job.sampling |-> UpsampledRow(c, y, fancy)]
       IN  [x \in 1 .. output_width |->
              color_deconvert(picture.jpeg_color_space, space, [c \in DOMAIN rows |-> rows[c][x]])]

ColorSpaces == {"grayscale", "RGB", "YCbCr", "CMYK", "YCCK"}
Convertible(jpeg, out) ==
  out = jpeg \/ <<jpeg, out>> \in {<<"YCbCr", "grayscale">>, <<"YCbCr", "RGB">>, <<"grayscale", "RGB">>, <<"YCCK", "CMYK">>}

PipelineInit ==
  /\ Init /\ QuantizerInit
  /\ shown = <<>> /\ reader = <<>> /\ row_out = 0 /\ passes = 0

Code == Next /\ UNCHANGED pipeline_vars /\ UNCHANGED quantizer_vars

Show(space, fancy) ==
  /\ phase = "output" /\ shown = <<>>
  /\ Convertible(picture.jpeg_color_space, space)
  /\ shown' = [y \in 1 .. output_height |-> PixelRow(y, space, fancy)]
  /\ reader' = [out_color_space |-> space, do_fancy_upsampling |-> fancy]
  /\ UNCHANGED <<row_out, passes>> /\ UNCHANGED vars /\ UNCHANGED quantizer_vars

(***************************************************************************)
(* Quantizing                                                              *)
(***************************************************************************)

\* jinit_master_decompress has the quantizer set up for the pixels to come.
ChooseQuantizer(request, mode) ==
  /\ shown # <<>>
  /\ request.components = Len(shown[1][1]) /\ request.width = Len(shown[1])
  /\ request.rgb = (reader.out_color_space = "RGB")
  /\ jinit_1pass_quantizer(request, mode)
  /\ UNCHANGED vars /\ UNCHANGED pipeline_vars

StartPass(mode) ==
  /\ passes < MaxPasses
  /\ start_pass_1_quant(mode)
  /\ passes' = passes + 1 /\ row_out' = 0
  /\ UNCHANGED vars /\ UNCHANGED <<shown, reader>>

QuantizeRow ==
  /\ row_out < Len(shown)
  /\ color_quantize(shown[row_out + 1])
  /\ row_out' = row_out + 1
  /\ UNCHANGED vars /\ UNCHANGED <<shown, reader, passes>>

GoOn == (SetUp \/ MapRow) /\ UNCHANGED vars /\ UNCHANGED pipeline_vars

PipelineNext ==
  \/ Code
  \/ \E space \in ColorSpaces, fancy \in BOOLEAN : Show(space, fancy)
  \/ \E request \in Requests, mode \in DitherModes : ChooseQuantizer(request, mode)
  \/ \E mode \in DitherModes : StartPass(mode)
  \/ QuantizeRow \/ GoOn

PipelineSpec == PipelineInit /\ [][PipelineNext]_<<vars, quantizer_vars, pipeline_vars>>

(***************************************************************************)
(* What the reader may expect                                              *)
(***************************************************************************)

\* A pixel of the source in the colours of the reader.
SourcePixel(y, x) ==
  LET pixel == picture.pixels[Between(y, 1, Height(picture))][Between(x, 1, ImageWidth(picture))]
      space == reader.out_color_space
  IN  IF space = picture.in_color_space THEN pixel
      ELSE color_deconvert(picture.jpeg_color_space, space,
                           color_convert(picture.in_color_space, picture.jpeg_color_space, pixel))

\* The square of the source that pixel x of row y stands for.
SourceSquare(y, x) ==
  LET side == Side(output.size)
  IN  [m \in 1 .. side * side |->
         SourcePixel((side * (y - 1)) + ((m - 1) \div side) + 1, (side * (x - 1)) + ((m - 1) % side) + 1)]
Tolerance == 1 + Max(Range(job.quantval)) + (picture.roughness * Side(output.size))

\* The reader gets the picture: in the size it asked for, a pixel of its colours for
\* every place, and each near to the mean of the pixels of the source it stands
\* for, though the components were converted, cut down to fewer samples, padded,
\* ordered by blocks, enlarged again by the inverse DCT or by the upsampler, with
\* or without the rows beside them, and cut off.
PixelsKept ==
  shown # <<>> =>
    /\ DOMAIN shown = 1 .. output_height
    /\ \A y \in DOMAIN shown :
         /\ DOMAIN shown[y] = 1 .. output_width
         /\ \A x \in DOMAIN shown[y] :
              LET square == SourceSquare(y, x)
              IN  \A c \in DOMAIN shown[y][x] :
                    Near(shown[y][x][c], [m \in DOMAIN square |-> square[m][c]], Tolerance)

\* What a picture was it is again: the samples that come out of the decoder are
\* near those that went in (SamplesKept, jddctmgr.c and the transforms), and the
\* pixels a reader gets near those of the source (PixelsKept).  Each is looked at
\* before the next step is taken, since neither changes once it is there.
PictureKept == (shown = <<>> => SamplesKept) /\ (stage = "none" => PixelsKept)
=============================================================================
