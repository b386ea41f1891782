-------------------------- MODULE OnePassQuantizer --------------------------
(***************************************************************************)
(* The one-pass colour quantizer of libjpeg (jquant1.c): it divides the    *)
(* colours it may use among the components, makes the colormap and the     *)
(* tables that lead to it, and then maps row after row to codes, in passes *)
(* that may be given up, each with no dithering, an ordered dither or      *)
(* Floyd-Steinberg error diffusion.                                        *)
(*                                                                         *)
(* A row is mapped one component at a time and the codes are summed up, as *)
(* quantize_ord_dither and quantize_fs_dither do it; color_quantize and    *)
(* the versions for three components have the loops the other way round,   *)
(* which makes no difference to the codes.                                 *)
(***************************************************************************)
EXTENDS PixelValues

CONSTANT Requests  \* what the quantizer may be asked for

\* out_color_components, whether they are RGB, desired_number_of_colors and
\* output_width.
ASSUME RequestsAssumption ==
  \A r \in Requests :
    /\ r.components \in Nat \ {0} /\ r.rgb \in BOOLEAN /\ (r.rgb => r.components = 3)
    /\ r.desired \in Int /\ r.width \in Nat \ {0}

VARIABLES
  stage,          \* what the quantizer is about to do
  cinfo,          \* the request
  dither_mode,
  iroot, Ncolors, total_colors,
  turn, changed,  \* of the loop that gives out what is left
  sv_colormap, colorindex, is_padded,
  odither,        \* for which numbers of colours there are dither tables, or <<>>
  row_index,
  fserrors,       \* or <<>>
  on_odd_row,
  pixels, pixcodes,  \* the row that is mapped
  ci,             \* the component it is at
  errorptr, cur, belowerr, bpreverr

setup == <<cinfo, iroot, Ncolors, total_colors, turn, changed>>
tables == <<sv_colormap, colorindex, is_padded, odither>>
pass == <<row_index, on_odd_row>>
diffusion == <<errorptr, cur, belowerr, bpreverr>>
quantizer_vars == <<stage, setup, tables, pass, fserrors, dither_mode, pixels, pixcodes, ci, diffusion>>

MAX_Q_COMPS == 4
ODITHER_SIZE == 16
ODITHER_CELLS == 256

nc == cinfo.components
width == cinfo.width
Components == 1 .. nc
Columns == 1 .. width
DitherModes == {"none", "ordered", "fs"}

QuantizerInit ==
  /\ stage = "none" /\ cinfo = <<>> /\ dither_mode = "none"
  /\ iroot = 1 /\ Ncolors = <<>> /\ total_colors = 0 /\ turn = 1 /\ changed = FALSE
  /\ sv_colormap = <<>> /\ colorindex = <<>> /\ is_padded = FALSE
  /\ odither = <<>> /\ fserrors = <<>>
  /\ row_index = 0 /\ on_odd_row = FALSE
  /\ pixels = <<>> /\ pixcodes = <<>> /\ ci = 1
  /\ errorptr = 0 /\ cur = 0 /\ belowerr = 0 /\ bpreverr = 0

(***************************************************************************)
(* Dividing the colours                                                    *)
(***************************************************************************)

\* The two checks before any table is made.
jinit_1pass_quantizer(request, mode) ==
  /\ stage = "none"
  /\ cinfo' = request /\ dither_mode' = mode
  /\ stage' = IF request.components > MAX_Q_COMPS \/ request.desired > MAXJSAMPLE + 1 THEN "error" ELSE "root"
  /\ iroot' = 2
  /\ UNCHANGED <<Ncolors, total_colors, turn, changed, tables, pass, fserrors, pixels, pixcodes, ci, diffusion>>

\* iroot as often as there are components, and the product of all counts.
Power == CASE nc = 1 -> iroot [] nc = 2 -> iroot * iroot [] nc = 3 -> iroot * iroot * iroot
           [] nc = 4 -> iroot * iroot * iroot * iroot

\* The largest root is found by trying one after the other.
NextRoot ==
  /\ stage = "root"
  /\ IF Power <= cinfo.desired THEN iroot' = iroot + 1 /\ stage' = stage
     ELSE iroot' = iroot - 1 /\ stage' = IF iroot - 1 < 2 THEN "error" ELSE "equal"
  /\ UNCHANGED <<cinfo, Ncolors, total_colors, turn, changed, tables, pass, fserrors, dither_mode, pixels, pixcodes, ci, diffusion>>

EqualShares ==
  /\ stage = "equal"
  /\ stage' = "share" /\ turn' = 1 /\ changed' = FALSE
  /\ Ncolors' = [c \in Components |-> iroot]
  /\ total_colors' = Power
  /\ UNCHANGED <<cinfo, iroot, tables, pass, fserrors, dither_mode, pixels, pixcodes, ci, diffusion>>

\* Green is tried first, then red, then blue.
RGB_order == <<2, 1, 3>>
ToIncrement == IF cinfo.rgb THEN RGB_order[turn] ELSE turn
Increased == (total_colors \div Ncolors[ToIncrement]) * (Ncolors[ToIncrement] + 1)

Increment ==
  /\ stage = "share" /\ turn <= nc /\ Increased <= cinfo.desired
  /\ Ncolors' = [Ncolors EXCEPT ![ToIncrement] = @ + 1]
  /\ total_colors' = Increased
  /\ turn' = turn + 1 /\ changed' = TRUE
  /\ UNCHANGED <<stage, cinfo, iroot, tables, pass, fserrors, dither_mode, pixels, pixcodes, ci, diffusion>>

\* All components have had their turn, or it does not fit: another round if this
\* one has changed something.
EndOfRound ==
  /\ stage = "share" /\ (turn > nc \/ Increased > cinfo.desired)
  /\ IF changed THEN stage' = stage /\ turn' = 1 /\ changed' = FALSE
     ELSE stage' = "tables" /\ UNCHANGED <<turn, changed>>
  /\ UNCHANGED <<cinfo, iroot, Ncolors, total_colors, tables, pass, fserrors, dither_mode, pixels, pixcodes, ci, diffusion>>

(***************************************************************************)
(* The tables                                                              *)
(***************************************************************************)

output_value(j, maxj) == ((j * MAXJSAMPLE) + (maxj \div 2)) \div maxj
largest_input_value(j, maxj) == ((((2 * j) + 1) * MAXJSAMPLE) + maxj) \div (2 * maxj)

\* How many adjacent entries of the colormap are the same in component c, or all
\* entries: each component divides what the one before it has left.
Blksize(c) ==
  LET size1 == total_colors \div Ncolors[1]
      size2 == size1 \div Ncolors[2]
      size3 == size2 \div Ncolors[3]
  IN  CASE c = 0 -> total_colors [] c = 1 -> size1 [] c = 2 -> size2 [] c = 3 -> size3
        [] c = 4 -> size3 \div Ncolors[4]

\* Value j has blocks of Blksize(c) entries, Blksize(c - 1) apart.
ValueAt(c, entry) == (entry % Blksize(c - 1)) \div Blksize(c)
Colormap ==
  [c \in Components |-> [entry \in 0 .. total_colors - 1 |-> output_value(ValueAt(c, entry), Ncolors[c] - 1)]]

\* The loop over the inputs moves on to the next value when it has passed the
\* largest input of this one.
ValueOf(input, maxj) ==
  CHOOSE j \in 0 .. maxj : input <= largest_input_value(j, maxj) /\ (j = 0 \/ input > largest_input_value(j - 1, maxj))
Limit(x) == IF x < 0 THEN 0 ELSE IF x > MAXJSAMPLE THEN MAXJSAMPLE ELSE x
\* Padded, the table goes on at both ends with its first and last entry.
create_colorindex(padded) ==
  [c \in Components |->
     [input \in (IF padded THEN (-MAXJSAMPLE) .. 2 * MAXJSAMPLE ELSE JSAMPLE) |->
        (ValueOf(Limit(input), Ncolors[c] - 1) * Blksize(c)) % (MAXJSAMPLE + 1)]]
NoErrors == [c \in Components |-> [k \in 0 .. width + 1 |-> 0]]

\* The end of jinit_1pass_quantizer: the tables for the dither mode of now.
CreateTables ==
  /\ stage = "tables"
  /\ stage' = "ready"
  /\ sv_colormap' = Colormap
  /\ is_padded' = (dither_mode = "ordered")
  /\ colorindex' = create_colorindex(dither_mode = "ordered")
  /\ fserrors' = IF dither_mode = "fs" THEN NoErrors ELSE <<>>
  /\ UNCHANGED <<setup, odither, pass, dither_mode, pixels, pixcodes, ci, diffusion>>

\* The place of a cell in the order the cells are filled (Bayer): in each of four
\* steps a bit of row and column tells the quarter.
Bit(x, weight) == (x \div weight) % 2
Quarter(row, column, weight) == (2 * ((Bit(row, weight) + Bit(column, weight)) % 2)) + Bit(column, weight)
base_dither_matrix(row, column) ==
  (64 * Quarter(row, column, 1)) + (16 * Quarter(row, column, 2)) + (4 * Quarter(row, column, 4)) + Quarter(row, column, 8)

\* What the table for ncolors values adds to a sample, rounded towards zero.
Dither(ncolors, row, column) ==
  LET num == (ODITHER_CELLS - 1 - (2 * base_dither_matrix(row, column))) * MAXJSAMPLE
      den == 2 * ODITHER_CELLS * (ncolors - 1)
  IN  IF num < 0 THEN -((-num) \div den) ELSE num \div den

(***************************************************************************)
(* Passes                                                                  *)
(***************************************************************************)

\* The application may have chosen another dither mode; the pass before may have
\* been given up after any row.
start_pass_1_quant(mode) ==
  /\ stage \in {"ready", "pass"}
  /\ stage' = "pass"
  /\ dither_mode' = mode
  /\ IF mode = "ordered"
     THEN /\ row_index' = 0
          /\ colorindex' = IF is_padded THEN colorindex ELSE create_colorindex(TRUE)
          /\ is_padded' = TRUE
          /\ odither' = IF odither = <<>> THEN Ncolors ELSE odither
     ELSE UNCHANGED <<row_index, colorindex, is_padded, odither>>
  /\ IF mode = "fs" THEN on_odd_row' = FALSE /\ fserrors' = NoErrors ELSE UNCHANGED <<on_odd_row, fserrors>>
  /\ pixels' = <<>> /\ pixcodes' = <<>>
  /\ UNCHANGED <<setup, sv_colormap, ci, diffusion>>

color_quantize(row) ==
  /\ stage = "pass"
  /\ stage' = "row"
  /\ pixels' = row /\ pixcodes' = [x \in Columns |-> 0] /\ ci' = 1
  /\ UNCHANGED <<setup, tables, pass, fserrors, dither_mode, diffusion>>

\* Codes are samples too: what does not fit into one is lost.
AddTo(code, entry) == (code + entry) % (MAXJSAMPLE + 1)

MapComponent ==
  /\ stage = "row" /\ ci <= nc /\ dither_mode = "none"
  /\ pixcodes' = [x \in Columns |-> AddTo(pixcodes[x], colorindex[ci][pixels[x][ci]])]
  /\ ci' = ci + 1
  /\ UNCHANGED <<stage, setup, tables, pass, fserrors, dither_mode, pixels, diffusion>>

Dithered(x) == pixels[x][ci] + Dither(odither[ci], row_index, (x - 1) % ODITHER_SIZE)
DitherComponent ==
  /\ stage = "row" /\ ci <= nc /\ dither_mode = "ordered"
  /\ pixcodes' = [x \in Columns |->
                 AddTo(pixcodes[x], colorindex[ci][Dithered(x)])]
  /\ ci' = ci + 1
  /\ UNCHANGED <<stage, setup, tables, pass, fserrors, dither_mode, pixels, diffusion>>

\* Errors are diffused from left to right in even rows, back in odd rows.
Dir == IF on_odd_row THEN -1 ELSE 1
StartDiffusion ==
  /\ stage = "row" /\ ci <= nc /\ dither_mode = "fs"
  /\ stage' = "diffuse"
  /\ errorptr' = IF on_odd_row THEN width + 1 ELSE 0
  /\ cur' = 0 /\ belowerr' = 0 /\ bpreverr' = 0
  /\ UNCHANGED <<setup, tables, pass, fserrors, dither_mode, pixels, pixcodes, ci>>

\* An error is kept in 16 bits.
FSERROR(x) == ((x + 32768) % 65536) - 32768
Column == errorptr + Dir
\* The sample with the errors of the pixels around it, in sixteenths, limited.
WithError == pixels[Column][ci] + ((cur + fserrors[ci][Column] + 8) \div 16)
Corrected == sample_range_limit[WithError]
Entry == colorindex[ci][Corrected]
Residue == Corrected - sv_colormap[ci][Entry]
\* (mutant) what is passed on to the row below is never begun anew
DiffusePixelAddingUp ==
  /\ stage = "diffuse" /\ Column \in Columns
  /\ pixcodes' = [pixcodes EXCEPT ![Column] = AddTo(@, Entry)]
  /\ fserrors' = [fserrors EXCEPT ![ci][errorptr] = FSERROR(bpreverr + (3 * Residue))]
  /\ bpreverr' = bpreverr + (5 * Residue)
  /\ belowerr' = Residue
  /\ cur' = 7 * Residue
  /\ errorptr' = Column
  /\ UNCHANGED <<stage, setup, tables, pass, dither_mode, pixels, ci>>
DiffusePixel ==
  /\ stage = "diffuse" /\ Column \in Columns
  /\ pixcodes' = [pixcodes EXCEPT ![Column] = AddTo(@, Entry)]
  /\ fserrors' = [fserrors EXCEPT ![ci][errorptr] = FSERROR(bpreverr + (3 * Residue))]
  /\ bpreverr' = belowerr + (5 * Residue)
  /\ belowerr' = Residue
  /\ cur' = 7 * Residue
  /\ errorptr' = Column
  /\ UNCHANGED <<stage, setup, tables, pass, dither_mode, pixels, ci>>

EndDiffusion ==
  /\ stage = "diffuse" /\ Column \notin Columns
  /\ stage' = "row"
  /\ fserrors' = [fserrors EXCEPT ![ci][errorptr] = FSERROR(bpreverr)]
  /\ ci' = ci + 1
  /\ errorptr' = 0 /\ cur' = 0 /\ belowerr' = 0 /\ bpreverr' = 0
  /\ UNCHANGED <<setup, tables, pass, dither_mode, pixels, pixcodes>>

EndRow ==
  /\ stage = "row" /\ ci > nc
  /\ stage' = "pass"
  /\ row_index' = IF dither_mode = "ordered" THEN (row_index + 1) % ODITHER_SIZE ELSE row_index
  /\ on_odd_row' = IF dither_mode = "fs" THEN ~ on_odd_row ELSE on_odd_row
  /\ UNCHANGED <<setup, tables, fserrors, dither_mode, pixels, pixcodes, ci, diffusion>>

SetUp == NextRoot \/ EqualShares \/ Increment \/ EndOfRound \/ CreateTables
MapRow == MapComponent \/ DitherComponent \/ StartDiffusion \/ DiffusePixel \/ EndDiffusion \/ EndRow

QuantizerNext ==
  \/ \E request \in Requests, mode \in DitherModes : jinit_1pass_quantizer(request, mode)
  \/ SetUp
  \/ \E mode \in DitherModes : start_pass_1_quant(mode)
  \/ \E row \in [Columns -> [Components -> JSAMPLE]] : color_quantize(row)
  \/ MapRow
QuantizerSpec == QuantizerInit /\ [][QuantizerNext]_quantizer_vars

(***************************************************************************)
(* What the quantizer promises                                             *)
(***************************************************************************)

\* A sample is never further than this from the value that stands for it.
HalfStep(c) == (MAXJSAMPLE \div (2 * (Ncolors[c] - 1))) + 1
Within(x, y, d) == x - y <= d /\ y - x <= d
Reach(c) == IF dither_mode = "none" THEN HalfStep(c) ELSE 2 * HalfStep(c)

\* A row that has been mapped shows its pixels: every code is one of the colormap,
\* and in each component its colour is as near to the sample as the number of
\* values allows, or twice that when dithered, whatever mode the tables were made
\* for, however passes were given up, and although each component is looked up
\* without the others (the colormap is orthogonal, jquant1.c:33).
RowShowsPixels ==
  stage = "pass" /\ pixcodes # <<>> =>
    \A x \in Columns : /\ pixcodes[x] \in 0 .. total_colors - 1
                       /\ \A c \in Components : Within(sv_colormap[c][pixcodes[x]], pixels[x][c], Reach(c))

\* What a sample has become when it is looked up is in the table: with its error,
\* in the part of sample_range_limit that is meant for this (jquant1.c:674, "The
\* maximum error is +- MAXJSAMPLE"), and dithered, in the padded colorindex.
LookupsInside ==
  /\ stage = "diffuse" /\ Column \in Columns => WithError \in (-MAXJSAMPLE) .. 2 * MAXJSAMPLE
  /\ stage = "row" /\ ci <= nc /\ dither_mode = "ordered" => \A x \in Columns : Dithered(x) \in DOMAIN colorindex[ci]

\* Errors do not build up, from pixel to pixel or from row to row: 16 bits hold
\* them (jquant1.c:128).
ErrorsBounded ==
  fserrors # <<>> =>
    \A c \in Components : \A k \in 0 .. width + 1 : Within(fserrors[c][k], 0, 9 * HalfStep(c))

\* No more colours than were asked for, and the product of the counts, each of
\* which is at least two.
SharesFit ==
  stage \in {"share", "tables", "ready", "pass", "row", "diffuse"} =>
    /\ total_colors <= cinfo.desired
    /\ \A c \in Components : Ncolors[c] >= 2
    /\ Blksize(nc) = 1

\* The four together.
QuantizerSafe == RowShowsPixels /\ LookupsInside /\ ErrorsBounded /\ SharesFit
=============================================================================
