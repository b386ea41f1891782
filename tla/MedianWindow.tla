---------------------------- MODULE MedianWindow ----------------------------
(***************************************************************************)
(* The median filter of Slave(): for every pixel of its strip, the loop    *)
(* that fills window[][] with the samples around it, one row per colour,   *)
(* and the statements that sort it and store the medians.                  *)
(***************************************************************************)
EXTENDS WindowSamples

CONSTANTS                      \* the sizes of strip that may be received:
  Heights, Widths,             \* their rows and pixels
  ComponentCounts              \* the components of their pixels

ASSUME SizesAssumption ==
  Heights \subseteq Nat \ {0} /\ Widths \subseteq Nat \ {0} /\ ComponentCounts \subseteq Nat \ {0}

Shapes == [rows : Heights, pixels : Widths, components : ComponentCounts]

VARIABLES
  shape,       \* the strip: dimensions[0], and dimensions[1] and [2] from
  y, x,        \* the current pixel: its row, and its first column
  counter,     \* samples of each colour in window so far
  window,      \* window[colour][k]: the sample it holds
  out_arr      \* out_arr[<<y, x>>]: the window whose median was stored there

mwVars == <<shape, y, x, counter, window, out_arr>>

rows       == shape.rows
components == shape.components
stride     == shape.pixels * components

Colours == 0 .. components - 1

\* The loop over j runs over the rows of the window, that over i over the
\* pixels of each: position k of the window is at RowOffset(k), ColOffset(k).
Across       == 2 * RadiusX + 1
Count        == (2 * Radius + 1) * Across
RowOffset(k) == (k \div Across) - Radius

\* (mutant) The step over the samples of a row is not by whole pixels.
ColOffsetBySample(k) == (k % Across) - RadiusX

ColOffset(k) == ((k % Across) - RadiusX) * components

AllStale == [colour \in Colours |-> [k \in 0 .. elements - 1 |-> Stale]]

Init ==
  /\ shape \in Shapes
  /\ y = 0 /\ x = 0
  /\ counter = 0
  /\ window = AllStale
  /\ out_arr = [sample \in {} |-> Stale]

\* (mutant) Rows below the strip are not wrapped.
UsedRowTopOnly(row, col) == IF row < 0 THEN row + WindowY ELSE row

\* The row that is read for row and column row, col of the image.  The branch
\* for columns left of the strip comes before that for rows below it.
UsedRow(row, col) ==
  IF row < 0 THEN row + WindowY
  ELSE IF row >= rows /\ col >= 0 THEN row - WindowY ELSE row

\* The column; rows above the strip leave a column right of it as it is.
UsedCol(row, col) ==
  IF col < 0 THEN col + WindowX
  ELSE IF col >= stride /\ row >= 0 THEN col - WindowX ELSE col

\* What the loops store at position k of window[colour].
Sample(colour, k) ==
  LET row == y + RowOffset(k)
      col == x + ColOffset(k) + colour
  IN  <<UsedRow(row, col), UsedCol(row, col)>>

\* The loops over j, i and colour.  They go on past the end of window[colour]
\* when Count exceeds its elements.
FillWindow ==
  /\ y < rows /\ counter = 0
  /\ window' = [colour \in Colours |-> [k \in 0 .. Count - 1 |-> Sample(colour, k)]]
  /\ counter' = Count
  /\ UNCHANGED <<shape, y, x, out_arr>>

NextPixel ==
  IF x + components < stride THEN x' = x + components /\ UNCHANGED y
  ELSE x' = 0 /\ y' = y + 1

\* sort, and the median of each colour is stored.
TakeMedians ==
  /\ counter > 0
  /\ out_arr' = [sample \in DOMAIN out_arr \union {<<y, x + colour>> : colour \in Colours} |->
                   IF sample \in DOMAIN out_arr THEN out_arr[sample]
                   ELSE window[sample[2] - x]]
  /\ counter' = 0
  /\ window' = AllStale
  /\ NextPixel
  /\ UNCHANGED shape

Next == FillWindow \/ TakeMedians
Spec == Init /\ [][Next]_mwVars

-----------------------------------------------------------------------------
\* The place of a sample in input_arr, whose rows are contiguous.
Address(sample) == (sample[1] * stride) + sample[2]

InArray(sample) == Address(sample) \in 0 .. (rows * stride) - 1

\* The comments at Prac3.cpp:269 and 290 say that the branches handle a window
\* at the edge: then no sample is read outside input_arr.
ReadsInside ==
  counter > 0 => \A colour \in Colours, k \in 0 .. Count - 1 : InArray(window[colour][k])

\* Strips that are higher and wider than the window, whose columns wrap inside
\* a row.
WellShaped ==
  /\ rows > WindowY
  /\ stride >= WindowX
  /\ RadiusX * components <= WindowX

\* The window of the pixel reaches both left of the strip and below it.
BottomLeft == y + Radius >= rows /\ x < RadiusX * components

\* All other pixels of a well shaped strip read samples of the strip only,
\* even where the row that is read goes on into the next (top right).
ReadsInsideButBottomLeft == WellShaped /\ ~BottomLeft => ReadsInside

\* The comment at Prac3.cpp:310: the median is taken per component, so the
\* image does not change colours.
ColoursKept ==
  counter > 0 => \A colour \in Colours, k \in 0 .. Count - 1 :
                   window[colour][k] # Stale =>
                     Address(window[colour][k]) % components = colour

\* Colours are kept if the shift by WINDOW_X is one by whole pixels.
ColoursKeptByPixelShifts == WindowX % components = 0 => ColoursKept

\* Each place of the strip, and no other.
AllSamplesFiltered ==
  y = rows => DOMAIN out_arr = (0 .. rows - 1) \X (0 .. stride - 1)

\* Away from the border, exactly the window around the sample.
InteriorExact ==
  \A sample \in DOMAIN out_arr :
    Interior(sample[1], sample[2], rows, stride, components) =>
      {out_arr[sample][k] : k \in 0 .. elements - 1}
        = Neighbourhood(sample[1], sample[2], components)

\* Every sample of the strip is given a median, nothing else is, and away from
\* the border the median is that of exactly the window around the sample.
SamplesFiltered == AllSamplesFiltered /\ InteriorExact

\* Away from the left and right border the rows of the window are those of
\* FilterRow, the abstraction module Prac3 is built on, and no sample counts
\* twice although rows above and below are replaced by others.
RowsAsAbstracted ==
  \A sample \in DOMAIN out_arr :
    sample[2] \in RadiusX * components .. stride - (RadiusX * components) - 1
      /\ rows > WindowY =>
        /\ \A k \in 0 .. elements - 1 :
             out_arr[sample][k][1] = EdgeRow(rows, sample[1] + RowOffset(k))
        /\ \A k, l \in 0 .. elements - 1 : k # l => out_arr[sample][k] # out_arr[sample][l]
=============================================================================
