-------------------------- MODULE SequentialFilter --------------------------
(***************************************************************************)
(* Sequential_Filter.cpp: main() filters the pixels of Input away from the *)
(* border into Output, several times over for the timing, and writes       *)
(* Output.  The number of colours is fixed to three in the code.           *)
(***************************************************************************)
EXTENDS WindowSamples

CONSTANTS
  Heights, Widths,     \* the sizes of image that Input.Read may find
  ComponentCounts,     \* and the components of their pixels
  Repeats      \* times the filter is run: 10 in the code

ASSUME SizesAssumption ==
  Heights \subseteq Nat \ {0} /\ Widths \subseteq Nat \ {0} /\ ComponentCounts \subseteq Nat \ {0}
ASSUME RepeatsAssumption == Repeats \in Nat \ {0}

Shapes == [rows : Heights, pixels : Widths, components : ComponentCounts]

VARIABLES
  pc,          \* "read", "filter", "write" or "done"
  shape,       \* Input.Height, Input.Width and Input.Components
  round,       \* the index of the outer loop: rounds that are over
  y, x,        \* the current pixel: its row, and its first column
  counter,
  window,      \* window[colour][k]: the sample it holds
  Output,      \* Output[<<y, x>>]: the window whose median was stored there
  saved        \* Data/Output.jpg holds Output

sfVars == <<pc, shape, round, y, x, counter, window, Output, saved>>

rows       == shape.rows
components == shape.components
stride     == shape.pixels * components

\* The columns the loop over x goes through are those from FirstCol up to and
\* without EndCol, in steps of three; its rows are those of Interior.
FirstCol == RadiusX * components
EndCol   == stride - (RadiusX * components)

\* The loop over i goes from -FirstCol up to FirstCol + components, without
\* it, also in steps of three: position k of the window is at RowOffset(k),
\* ColOffset(k).
Across == ((2 * FirstCol + components - 1) \div 3) + 1
Count  == (2 * Radius + 1) * Across

RowOffset(k) == (k \div Across) - Radius
ColOffset(k) == 3 * (k % Across) - FirstCol

AllStale == [colour \in 0 .. 2 |-> [k \in 0 .. elements - 1 |-> Stale]]

Init ==
  /\ pc = "read"
  /\ shape \in Shapes
  /\ round = 0 /\ y = 0 /\ x = 0 /\ counter = 0
  /\ window = AllStale
  /\ Output = [sample \in {} |-> Stale]
  /\ saved = FALSE

\* Input.Read and Output.Allocate succeed.
ReadImage ==
  /\ pc = "read"
  /\ pc' = "filter"
  /\ y' = Radius /\ x' = FirstCol
  /\ UNCHANGED <<shape, round, counter, window, Output, saved>>

\* Input.Read or Output.Allocate fails: main returns, or the process dies.
ReadFails ==
  /\ pc = "read"
  /\ pc' = "done"
  /\ UNCHANGED <<shape, round, y, x, counter, window, Output, saved>>

\* The current pixel is one of the loops over y and x.
InLoops == y < rows - Radius /\ x < EndCol

\* The loops over j and i.
FillWindow ==
  /\ pc = "filter" /\ InLoops /\ counter = 0
  /\ window' = [colour \in 0 .. 2 |->
       [k \in 0 .. elements - 1 |->
          IF k < Count THEN <<y + RowOffset(k), x + ColOffset(k) + colour>>
          ELSE window[colour][k]]]
  /\ counter' = Count
  /\ UNCHANGED <<pc, shape, round, y, x, Output, saved>>

NextPixel ==
  IF x + 3 < EndCol THEN x' = x + 3 /\ UNCHANGED y
  ELSE x' = FirstCol /\ y' = y + 1

\* (mutant) The counter is not reset: the next window is not filled.
TakeMediansNoReset ==
  /\ pc = "filter" /\ InLoops /\ counter > 0
  /\ Output' = [sample \in DOMAIN Output \union {<<y, x + colour>> : colour \in 0 .. 2} |->
                  IF sample[1] = y /\ sample[2] \in x .. x + 2
                  THEN window[sample[2] - x] ELSE Output[sample]]
  /\ counter' = counter
  /\ window' = AllStale
  /\ NextPixel
  /\ UNCHANGED <<pc, shape, round, saved>>

\* sort sorts whole rows of window, stored into or not in this pixel.
TakeMedians ==
  /\ pc = "filter" /\ InLoops /\ counter > 0
  /\ Output' = [sample \in DOMAIN Output \union {<<y, x + colour>> : colour \in 0 .. 2} |->
                  IF sample[1] = y /\ sample[2] \in x .. x + 2
                  THEN window[sample[2] - x] ELSE Output[sample]]
  /\ counter' = 0
  /\ window' = AllStale
  /\ NextPixel
  /\ UNCHANGED <<pc, shape, round, saved>>

\* The loops over y and x end, with or without a pixel.
EndRound ==
  /\ pc = "filter" /\ ~InLoops
  /\ y' = Radius /\ x' = FirstCol
  /\ round' = round + 1
  /\ pc' = IF round' < Repeats THEN "filter" ELSE "write"
  /\ UNCHANGED <<shape, counter, window, Output, saved>>

\* Output.Write; main returns whether or not it succeeds.
WriteImage ==
  /\ pc = "write"
  /\ saved' \in BOOLEAN
  /\ pc' = "done"
  /\ UNCHANGED <<shape, round, y, x, counter, window, Output>>

Next == ReadImage \/ ReadFails \/ FillWindow \/ TakeMedians \/ EndRound \/ WriteImage

Spec == Init /\ [][Next]_sfVars

-----------------------------------------------------------------------------
\* Each median is taken over the window around its sample, in every round.
MediansExact ==
  components = 3 =>
    \A sample \in DOMAIN Output :
      /\ Interior(sample[1], sample[2], rows, stride, 3)
      /\ {Output[sample][k] : k \in 0 .. elements - 1} = Neighbourhood(sample[1], sample[2], 3)

\* No sample away from the border is left out.
InteriorSaved ==
  saved /\ components = 3 =>
    DOMAIN Output = {sample \in (0 .. rows - 1) \X (0 .. stride - 1) :
                       Interior(sample[1], sample[2], rows, stride, 3)}

\* With three components the sequential filter takes the same medians as
\* Slave() does away from the border (InteriorExact of MedianWindow), and all
\* of them, although window and counter are those of the pixel and the round
\* before.  What it leaves out is the border, which Allocate does not initialise.
InteriorFiltered == MediansExact /\ InteriorSaved
=============================================================================
