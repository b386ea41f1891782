-------------------------- MODULE DecompressSetup --------------------------
(***************************************************************************)
(* What master_selection of libjpeg's decompressor (jdmaster.c) sets up    *)
(* before the first row of an image is decoded: the output dimensions, the *)
(* size of the IDCT of each component, and the modules that will run.      *)
(*                                                                         *)
(* im is the image as its header describes it, p the parameters that the   *)
(* application may have changed.  Components are numbered from 1.          *)
(***************************************************************************)
EXTENDS Integers, Sequences, FiniteSetsExt

DCTSIZE == 8
RGB_PIXELSIZE == 3

CeilDiv(a, b) == (a + b - 1) \div b

Components(im) == DOMAIN im.comps
MaxH(im) == Max({im.comps[c].h : c \in Components(im)})
MaxV(im) == Max({im.comps[c].v : c \in Components(im)})

(***************************************************************************)
(* jpeg_calc_output_dimensions                                             *)
(***************************************************************************)

\* The IDCT may shrink the image by 8, 4 or 2; the scale asked for is 1/p.denom.
Reduction(p) == Max({k \in {1, 2, 4, 8} : k = 1 \/ k <= p.denom})

min_DCT_scaled_size(p) == DCTSIZE \div Reduction(p)
output_height(im, p) == CeilDiv(im.height, Reduction(p))

\* A component of lower resolution is scaled up by its IDCT if that makes it no
\* larger than the largest ones.
DCT_scaled_size(im, p, c) ==
  LET M == min_DCT_scaled_size(p)
  IN  Max({s \in {1, 2, 4, 8} :
             \/ s = M
             \/ /\ s > M
                /\ im.comps[c].h * s <= MaxH(im) * M
                /\ im.comps[c].v * s <= MaxV(im) * M})

downsampled_width(im, p, c) ==
  CeilDiv(im.width * im.comps[c].h * DCT_scaled_size(im, p, c), MaxH(im) * DCTSIZE)
downsampled_height(im, p, c) ==
  CeilDiv(im.height * im.comps[c].v * DCT_scaled_size(im, p, c), MaxV(im) * DCTSIZE)

out_color_components(im, p) ==
  CASE p.out = "gray" -> 1 [] p.out \in {"rgb", "ycc"} -> 3 [] p.out = "cmyk" -> 4
    [] OTHER -> Len(im.comps)

use_merged_upsample(im, p) ==
  /\ ~ p.fancy
  /\ im.ycc /\ Len(im.comps) = 3
  /\ p.out = "rgb" /\ out_color_components(im, p) = RGB_PIXELSIZE
  /\ <<im.comps[1].h, im.comps[2].h, im.comps[3].h>> = <<2, 1, 1>>
  /\ im.comps[1].v <= 2 /\ im.comps[2].v = 1 /\ im.comps[3].v = 1
  /\ \A c \in 1 .. 3 : DCT_scaled_size(im, p, c) = min_DCT_scaled_size(p)

(***************************************************************************)
(* The upsampler: a row group of a component becomes max_v_samp_factor     *)
(* rows.                                                                   *)
(***************************************************************************)

\* Rows of a component in a row group.
rowgroup_height(im, p, c) ==
  (im.comps[c].v * DCT_scaled_size(im, p, c)) \div min_DCT_scaled_size(p)
rowgroup_width(im, p, c) ==
  (im.comps[c].h * DCT_scaled_size(im, p, c)) \div min_DCT_scaled_size(p)

\* Gray output of a colour image needs its first component only.
component_needed(im, p, c) == p.out = "gray" => c = 1

\* The rows and columns of the output that a sample becomes, <<0, 0>> if that is
\* not a whole number.
Expansion(im, p, c) ==
  IF MaxH(im) % rowgroup_width(im, p, c) = 0 /\ MaxV(im) % rowgroup_height(im, p, c) = 0
  THEN <<MaxH(im) \div rowgroup_width(im, p, c), MaxV(im) \div rowgroup_height(im, p, c)>>
  ELSE <<0, 0>>

do_fancy(p) == p.fancy /\ min_DCT_scaled_size(p) > 1

UpsampleMethod(im, p, c) ==
  LET expand == Expansion(im, p, c)
      fancy == do_fancy(p) /\ downsampled_width(im, p, c) > 2
  IN  CASE ~ component_needed(im, p, c) -> "noop"
        [] expand = <<1, 1>> -> "fullsize"
        [] expand = <<2, 1>> -> IF fancy THEN "h2v1_fancy" ELSE "h2v1"
        [] expand = <<2, 2>> -> IF fancy THEN "h2v2_fancy" ELSE "h2v2"
        [] expand = <<0, 0>> -> "error"
        [] OTHER -> "int"

(***************************************************************************)
(* The decompressor as master_selection leaves it.                         *)
(***************************************************************************)

total_iMCU_rows(im) == CeilDiv(im.height, MaxV(im) * DCTSIZE)
height_in_blocks(im, c) == CeilDiv(im.height * im.comps[c].v, MaxV(im) * DCTSIZE)

\* The colour quantizers created.  Only three colour components can be mapped by
\* the 2-pass one, which also maps to a colormap of the application.
Quantizers(im, p) ==
  LET only1 == out_color_components(im, p) # 3
      kept == IF p.buffered /\ ~ only1 THEN p.enabled ELSE {}
  IN  IF ~ p.quantize THEN {}
      ELSE kept \union (IF only1 \/ (~ p.colormap /\ ~ p.two_pass) THEN {"1pass"}
                        ELSE IF p.colormap THEN {"external"} ELSE {"2pass"})

\* A colormap for more or fewer than three components is forgotten.
InitialColormap(im, p) == p.quantize /\ p.colormap /\ out_color_components(im, p) = 3

MasterSelection(im, p) ==
  LET merged == ~ p.raw /\ use_merged_upsample(im, p)
      method == [c \in Components(im) |-> UpsampleMethod(im, p, c)]
  IN  [ merged      |-> merged,
        method      |-> method,
        context     |-> ~ p.raw /\ ~ merged /\ \E c \in Components(im) : method[c] = "h2v2_fancy",
        M           |-> min_DCT_scaled_size(p),
        max_v       |-> MaxV(im),
        rgroup      |-> [c \in Components(im) |-> rowgroup_height(im, p, c)],
        size        |-> [c \in Components(im) |-> DCT_scaled_size(im, p, c)],
        rows        |-> [c \in Components(im) |-> downsampled_height(im, p, c)],
        blocks      |-> [c \in Components(im) |-> height_in_blocks(im, c)],
        iMCU_rows   |-> total_iMCU_rows(im),
        height      |-> output_height(im, p),
        full_coefs  |-> Len(im.scans) > 1 \/ p.buffered,
        quantizers  |-> Quantizers(im, p),
        whole_image |-> "2pass" \in Quantizers(im, p) ]

\* The settings that make it give up.
SelectionFails(im, p) ==
  \/ p.quantize /\ p.raw
  \/ /\ ~ p.raw /\ ~ use_merged_upsample(im, p)
     /\ \E c \in Components(im) : UpsampleMethod(im, p, c) = "error"
  \/ MasterSelection(im, p).context /\ min_DCT_scaled_size(p) < 2
=============================================================================
