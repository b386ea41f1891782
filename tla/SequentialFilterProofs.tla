----------------------- MODULE SequentialFilterProofs -----------------------
(***************************************************************************)
(* Theorems about the sequential filter: which samples of an image with    *)
(* three components it gives a median, and over what, for images and odd   *)
(* windows of every size and any number of rounds.                         *)
(***************************************************************************)
EXTENDS SequentialFilter, NumberProofs

\* The window has Radius rows on each side of its centre.
LEMMA RadiusFacts == Radius \in Nat /\ Radius > 0 /\ WindowY = 2 * Radius + 1
BY WindowYAssumption, HalfFacts DEF Radius

(***************************************************************************)
(* The inductive invariant                                                 *)
(***************************************************************************)

\* What the loops store for the pixel in the row of window[][] for its colour.
WindowAt(row, col) == [k \in 0 .. elements - 1 |-> <<row + RowOffset(k), col + ColOffset(k)>>]

\* The samples whose whole window lies in the image.
InteriorSamples ==
  {sample \in (0 .. rows - 1) \X (0 .. stride - 1) :
     Interior(sample[1], sample[2], rows, stride, 3)}

\* Those of them before the current pixel.
Earlier == {sample \in InteriorSamples :
              sample[1] < y \/ (sample[1] = y /\ sample[2] < x)}

\* The places of Output stored into: all of them once a round is over.
Done == IF round > 0 THEN InteriorSamples ELSE IF pc = "filter" THEN Earlier ELSE {}

\* The current pixel, or the place below the last one.  If there are no interior
\* columns x stays at the first.
PixelInv ==
  /\ y \in Nat /\ y >= Radius
  /\ \E p \in Nat : x = FirstCol + 3 * p
  /\ x = FirstCol \/ x < EndCol

\* The steps of the program.  The round counts up to Repeats, at least 1.
ControlInv ==
  /\ shape \in Shapes
  /\ pc \in {"read", "filter", "write", "done"}
  /\ round \in Nat
  /\ pc = "filter" => PixelInv
  /\ pc = "read" => round = 0
  /\ pc = "write" => round > 0
  /\ saved => round > 0 /\ pc = "done"

\* With three components, window holds the windows of the current pixel and
\* Output those of the samples stored.
FilterInv ==
  /\ \/ counter = 0
     \/ /\ counter = Count /\ pc = "filter" /\ InLoops
        /\ window = [colour \in 0 .. 2 |-> WindowAt(y, x + colour)]
  /\ Output = [sample \in Done |-> WindowAt(sample[1], sample[2])]

SequentialInv == ControlInv /\ (components = 3 => FilterInv)

(***************************************************************************)
(* The loops                                                               *)
(***************************************************************************)

\* The sizes of the image and of the window, with three components.
LEMMA SizeFacts ==
  ASSUME shape \in Shapes
  PROVE  /\ rows \in Nat /\ components \in Nat /\ shape.pixels \in Nat
         /\ components = 3 =>
              /\ stride = 3 * shape.pixels /\ FirstCol = 3 * RadiusX
              /\ EndCol = 3 * (shape.pixels - RadiusX)
<1>1. shape.rows \in Heights /\ shape.pixels \in Widths /\ shape.components \in ComponentCounts
  BY DEF Shapes
<1>2. shape.rows \in Nat /\ shape.pixels \in Nat /\ shape.components \in Nat
  BY <1>1, SizesAssumption
<1>3. RadiusX \in Nat
  BY WindowXAssumption DEF RadiusX
<1>4. ASSUME components = 3
      PROVE  stride = 3 * shape.pixels /\ FirstCol = 3 * RadiusX /\ EndCol = 3 * (shape.pixels - RadiusX)
  <2>1. stride = shape.pixels * 3 /\ FirstCol = RadiusX * 3 /\ EndCol = stride - (RadiusX * 3)
    BY <1>4 DEF stride, FirstCol, EndCol
  <2>. QED
    BY <1>2, <1>3, <2>1
<1>. QED
  BY <1>2, <1>4 DEF rows, components

LEMMA ColumnFacts ==
  ASSUME shape \in Shapes, components = 3
  PROVE  /\ RadiusX \in Nat /\ Across = 2 * RadiusX + 1 /\ Across \in Nat /\ Across > 0
         /\ Count = elements /\ elements = WindowY * Across /\ Count \in Nat /\ Count > 0
<1>1. RadiusX \in Nat /\ WindowX = 2 * RadiusX + 1
  BY WindowXAssumption DEF RadiusX
<1>2. Across = ((2 * (3 * RadiusX) + 3 - 1) \div 3) + 1
  BY SizeFacts DEF Across
<1>3. Across = 2 * RadiusX + 1
  BY <1>1, <1>2
<1>4. Count = WindowY * Across /\ elements = WindowY * Across /\ WindowY \in Nat /\ WindowY > 0
  BY <1>1, <1>3, RadiusFacts DEF Count, elements
<1>5. WindowY * Across \in Nat /\ WindowY * Across > 0
  BY <1>1, <1>3, <1>4
<1>. QED
  BY <1>1, <1>3, <1>4, <1>5

\* Each position of the window lies RowOffset rows and a number of pixels away.
LEMMA OffsetFacts ==
  ASSUME shape \in Shapes, components = 3, NEW k \in 0 .. elements - 1
  PROVE  /\ RowOffset(k) \in Window
         /\ \E i \in -RadiusX .. RadiusX : ColOffset(k) = i * 3
<1>1. /\ Across \in Nat /\ Across > 0 /\ Across = 2 * RadiusX + 1 /\ RadiusX \in Nat
      /\ elements = WindowY * Across /\ FirstCol = 3 * RadiusX
  BY ColumnFacts, SizeFacts
<1>2. k \div Across \in 0 .. WindowY - 1 /\ k % Across \in 0 .. Across - 1
  BY <1>1, RadiusFacts, PositionFacts
<1>3. RowOffset(k) \in Window
  BY <1>2, RadiusFacts DEF RowOffset, Window
<1> DEFINE i == (k % Across) - RadiusX
<1>4. i \in -RadiusX .. RadiusX /\ ColOffset(k) = i * 3
  BY <1>1, <1>2 DEF ColOffset
<1>. QED
  BY <1>3, <1>4

\* Each offset by rows and pixels belongs to a position of the window.
LEMMA PositionOf ==
  ASSUME shape \in Shapes, components = 3, NEW j \in Window, NEW i \in -RadiusX .. RadiusX
  PROVE  \E k \in 0 .. elements - 1 : RowOffset(k) = j /\ ColOffset(k) = i * 3
<1>1. /\ Across \in Nat /\ Across > 0 /\ Across = 2 * RadiusX + 1 /\ RadiusX \in Nat
      /\ elements = WindowY * Across /\ FirstCol = 3 * RadiusX
  BY ColumnFacts, SizeFacts
<1>2. Radius \in Nat /\ WindowY = 2 * Radius + 1
  BY RadiusFacts
<1> DEFINE a == j + Radius
           b == i + RadiusX
           k == Across * a + b
<1>3. a \in 0 .. WindowY - 1 /\ b \in 0 .. Across - 1
  BY <1>1, <1>2 DEF Window
<1>4. a - Radius = j /\ 3 * b - 3 * RadiusX = i * 3
  BY <1>1, <1>2 DEF Window
<1> HIDE DEF a, b
<1>5. k \in 0 .. elements - 1 /\ k \div Across = a /\ k % Across = b
  BY <1>1, <1>3, RadiusFacts, PositionExists
<1>6. RowOffset(k) = j /\ ColOffset(k) = i * 3
  BY <1>1, <1>4, <1>5 DEF RowOffset, ColOffset
<1>. QED
  BY <1>5, <1>6

\* The current pixel is interior with its three samples.
LEMMA PixelFacts ==
  ASSUME shape \in Shapes, components = 3, PixelInv, InLoops
  PROVE  /\ x \in Nat /\ y \in Nat /\ FirstCol \in Nat /\ EndCol \in Int /\ x + 3 <= EndCol
         /\ \A colour \in 0 .. 2 : <<y, x + colour>> \in InteriorSamples
<1>1. PICK p \in Nat : x = FirstCol + 3 * p
  BY DEF PixelInv
<1>2. /\ rows \in Nat /\ shape.pixels \in Nat /\ stride = 3 * shape.pixels /\ FirstCol = 3 * RadiusX
      /\ EndCol = 3 * (shape.pixels - RadiusX) /\ RadiusX \in Nat /\ Radius \in Nat
  BY SizeFacts, ColumnFacts, RadiusFacts
<1>3. y \in Nat /\ y >= Radius /\ y < rows - Radius /\ x < EndCol
  BY DEF PixelInv, InLoops
<1>4. x \in Nat /\ x >= FirstCol /\ x + 3 <= EndCol /\ FirstCol \in Nat /\ EndCol \in Int
      /\ stride \in Nat /\ EndCol = stride - RadiusX * 3 /\ FirstCol = RadiusX * 3
  BY <1>1, <1>2, <1>3
<1>5. ASSUME NEW colour \in 0 .. 2 PROVE <<y, x + colour>> \in InteriorSamples
  BY <1>2, <1>3, <1>4 DEF InteriorSamples, Interior
<1>. QED
  BY <1>3, <1>4, <1>5

\* The sizes are those of the image that was read.
LEMMA SameShape ==
  ASSUME shape' = shape
  PROVE  /\ rows' = rows /\ components' = components /\ stride' = stride
         /\ FirstCol' = FirstCol /\ EndCol' = EndCol /\ Count' = Count
         /\ InteriorSamples' = InteriorSamples
         /\ \A row, col : WindowAt(row, col)' = WindowAt(row, col)
<1>1. rows' = rows /\ components' = components /\ stride' = stride
  BY DEF rows, components, stride
<1>2. FirstCol' = FirstCol /\ EndCol' = EndCol
  BY <1>1 DEF FirstCol, EndCol
<1>3. Count' = Count
  BY <1>1, <1>2 DEF Count, Across
<1>4. ASSUME NEW k PROVE RowOffset(k)' = RowOffset(k) /\ ColOffset(k)' = ColOffset(k)
  BY <1>1, <1>2 DEF RowOffset, ColOffset, Across
<1>5. InteriorSamples' = InteriorSamples
  BY <1>1 DEF InteriorSamples
<1>. QED
  BY <1>1, <1>2, <1>3, <1>4, <1>5 DEF WindowAt

\* When the loops over y and x begin no sample is stored; when they end, with or
\* without a pixel, all are.
LEMMA RoundEnds ==
  ASSUME shape \in Shapes, components = 3
  PROVE  /\ y = Radius /\ x = FirstCol => Earlier = {}
         /\ PixelInv /\ ~InLoops => Earlier = InteriorSamples
<1>1. /\ rows \in Nat /\ stride \in Int /\ FirstCol \in Nat /\ FirstCol = RadiusX * 3
      /\ EndCol = stride - (RadiusX * 3) /\ EndCol \in Int /\ Radius \in Nat
  BY SizeFacts, ColumnFacts, RadiusFacts
<1>2. ASSUME NEW sample \in InteriorSamples
      PROVE  /\ sample[1] \in Int /\ sample[1] >= Radius /\ sample[1] < rows - Radius
             /\ sample[2] \in Int /\ sample[2] >= FirstCol /\ sample[2] < EndCol
  BY <1>1 DEF InteriorSamples, Interior
<1>3. ASSUME y = Radius, x = FirstCol PROVE Earlier = {}
  BY <1>1, <1>2, <1>3 DEF Earlier
<1>4. ASSUME PixelInv, ~InLoops PROVE Earlier = InteriorSamples
  <2>1. y \in Nat /\ (y >= rows - Radius \/ x >= EndCol)
    BY <1>1, <1>4 DEF PixelInv, InLoops
  <2>2. CASE y >= rows - Radius
    BY <1>1, <1>2, <2>1, <2>2 DEF Earlier
  <2>3. CASE x >= EndCol
    <3>1. x = FirstCol
      BY <1>1, <1>4, <2>3 DEF PixelInv
    <3>2. InteriorSamples = {}
      BY <1>1, <1>2, <2>3, <3>1
    <3>. QED
      BY <3>2 DEF Earlier
  <2>. QED
    BY <2>1, <2>2, <2>3
<1>. QED
  BY <1>3, <1>4

LEMMA SequentialInit == Init => SequentialInv
<1> SUFFICES ASSUME Init PROVE SequentialInv
  OBVIOUS
<1>1. pc = "read" /\ shape \in Shapes /\ round = 0 /\ counter = 0 /\ saved = FALSE
      /\ Output = [sample \in {} |-> Stale]
  BY DEF Init
<1>2. Done = {}
  BY <1>1 DEF Done
<1>. QED
  BY <1>1, <1>2 DEF SequentialInv, ControlInv, FilterInv

LEMMA ReadImageStep == SequentialInv /\ ReadImage => SequentialInv'
<1> SUFFICES ASSUME SequentialInv, ReadImage PROVE SequentialInv'
  OBVIOUS
<1>1. pc = "read" /\ pc' = "filter" /\ y' = Radius /\ x' = FirstCol
      /\ UNCHANGED <<shape, round, counter, window, Output, saved>>
  BY DEF ReadImage
<1>2. shape \in Shapes /\ round = 0 /\ ~saved
  BY <1>1 DEF SequentialInv, ControlInv
<1>3. PixelInv'
  <2>1. FirstCol' = FirstCol + 3 * 0
    BY <1>1, <1>2, SameShape, SizeFacts, WindowXAssumption DEF FirstCol, RadiusX
  <2>. QED
    BY <1>1, <2>1, RadiusFacts, SameShape DEF PixelInv
<1>4. ControlInv'
  BY <1>1, <1>2, <1>3 DEF ControlInv
<1>5. ASSUME components = 3 PROVE FilterInv'
  <2>1. counter = 0 /\ Output = [sample \in {} |-> WindowAt(sample[1], sample[2])]
    BY <1>1, <1>2, <1>5 DEF SequentialInv, FilterInv, Done
  <2>2. Earlier' = {}
    <3>1. (shape \in Shapes)' /\ (components = 3)' /\ (y = Radius)' /\ (x = FirstCol)'
      BY <1>1, <1>2, <1>5, SameShape
    <3>2. ((shape \in Shapes) /\ (components = 3) /\ (y = Radius) /\ (x = FirstCol) => Earlier = {})'
      BY RoundEnds, PTL
    <3>. QED
      BY <3>1, <3>2
  <2>3. Done' = {}
    BY <1>1, <1>2, <2>2 DEF Done
  <2>. QED
    BY <1>1, <2>1, <2>3 DEF FilterInv
<1>. QED
  BY <1>1, <1>4, <1>5, SameShape DEF SequentialInv

\* The steps that leave the loops as they are.
LEMMA OutsideSteps == SequentialInv /\ (ReadFails \/ WriteImage) => SequentialInv'
<1> SUFFICES ASSUME SequentialInv, ReadFails \/ WriteImage PROVE SequentialInv'
  OBVIOUS
<1>1. /\ pc # "filter" /\ pc' = "done" /\ UNCHANGED <<shape, round, y, x, counter, window, Output>>
      /\ saved' => saved \/ round > 0
  BY DEF ReadFails, WriteImage, SequentialInv, ControlInv
<1>2. ControlInv'
  BY <1>1 DEF SequentialInv, ControlInv
<1>3. ASSUME components = 3 PROVE FilterInv'
  <2>1. counter = 0 /\ Output = [sample \in Done |-> WindowAt(sample[1], sample[2])]
    BY <1>1, <1>3 DEF SequentialInv, FilterInv
  <2>2. Done' = Done
    BY <1>1, SameShape DEF Done
  <2>3. counter' = 0 /\ Output' = [sample \in Done' |-> WindowAt(sample[1], sample[2])']
    BY <1>1, <2>1, <2>2, SameShape
  <2>. QED
    BY <2>3 DEF FilterInv
<1>. QED
  BY <1>1, <1>2, <1>3, SameShape DEF SequentialInv

LEMMA FillWindowStep == SequentialInv /\ FillWindow => SequentialInv'
<1> SUFFICES ASSUME SequentialInv, FillWindow PROVE SequentialInv'
  OBVIOUS
<1>1. pc = "filter" /\ InLoops /\ counter' = Count
      /\ UNCHANGED <<pc, shape, round, y, x, Output, saved>>
  BY DEF FillWindow
<1>2. shape \in Shapes /\ PixelInv
  BY <1>1 DEF SequentialInv, ControlInv
<1>3. PixelInv'
  BY <1>1, <1>2, SameShape DEF PixelInv
<1>4. ControlInv'
  BY <1>1, <1>3 DEF SequentialInv, ControlInv
<1>5. ASSUME components = 3 PROVE FilterInv'
  <2>1. Count = elements /\ elements \in Nat /\ FirstCol \in Nat /\ Across \in Nat /\ Across > 0
    BY <1>2, <1>5, ColumnFacts, SizeFacts
  <2>2. x \in Nat
    BY <1>1, <1>2, <1>5, PixelFacts
  <2>3. ASSUME NEW colour \in 0 .. 2, NEW k \in 0 .. elements - 1
        PROVE  k < Count /\ x + ColOffset(k) + colour = (x + colour) + ColOffset(k)
    <3>1. ColOffset(k) \in Int
      BY <2>1 DEF ColOffset
    <3>. QED
      BY <2>1, <2>2, <3>1
  <2>4. window' = [colour \in 0 .. 2 |-> WindowAt(y, x + colour)]
    BY <2>3 DEF FillWindow, WindowAt
  <2>5. InLoops' /\ Done' = Done
    BY <1>1, SameShape DEF InLoops, Done, Earlier
  <2>6. Output = [sample \in Done |-> WindowAt(sample[1], sample[2])]
    BY <1>5 DEF SequentialInv, FilterInv
  <2>7. /\ \A row, col : WindowAt(row, col)' = WindowAt(row, col)
        /\ Count' = Count
    BY <1>1, SameShape
  <2>8. /\ counter' = Count' /\ pc' = "filter" /\ InLoops'
        /\ window' = [colour \in 0 .. 2 |-> WindowAt(y, x + colour)']
    BY <1>1, <2>4, <2>5, <2>7
  <2>9. Output' = [sample \in Done' |-> WindowAt(sample[1], sample[2])']
    BY <1>1, <2>5, <2>6, <2>7
  <2>10. [colour \in 0 .. 2 |-> WindowAt(y, x + colour)]' = [colour \in 0 .. 2 |-> WindowAt(y, x + colour)]
    BY <1>1, <2>7
  <2>. QED
    BY <2>4, <2>8, <2>9, <2>10 DEF FilterInv
<1>. QED
  BY <1>1, <1>4, <1>5, SameShape DEF SequentialInv

\* The loop over x goes on to the next pixel, the one over y to the next row.
LEMMA NextPixelStep ==
  ASSUME shape \in Shapes, PixelInv, InLoops, NextPixel, UNCHANGED shape
  PROVE  PixelInv'
<1>1. PICK p \in Nat : x = FirstCol + 3 * p
  BY DEF PixelInv
<1>2. y \in Nat /\ y >= Radius /\ Radius \in Nat
  BY RadiusFacts DEF PixelInv
<1>3. FirstCol' = FirstCol /\ EndCol' = EndCol /\ FirstCol \in Nat
  <2>1. RadiusX \in Nat
    BY WindowXAssumption DEF RadiusX
  <2>. QED
    BY <2>1, SameShape, SizeFacts DEF FirstCol
<1>4. CASE x + 3 < EndCol
  <2>1. x' = FirstCol + 3 * (p + 1) /\ x' < EndCol /\ y' = y
    BY <1>1, <1>3, <1>4 DEF NextPixel
  <2>. QED
    BY <1>2, <1>3, <2>1 DEF PixelInv
<1>5. CASE ~ (x + 3 < EndCol)
  <2>1. x' = FirstCol + 3 * 0 /\ x' = FirstCol /\ y' = y + 1
    BY <1>3, <1>5 DEF NextPixel
  <2>. QED
    BY <1>2, <1>3, <2>1 DEF PixelInv
<1>. QED
  BY <1>4, <1>5

\* The samples of the pixel are the next of those before it.
LEMMA PixelIsNext ==
  ASSUME shape \in Shapes, components = 3, PixelInv, InLoops, NextPixel, UNCHANGED shape
  PROVE  Earlier' = Earlier \union {<<y, x + colour>> : colour \in 0 .. 2}
<1>1. /\ x \in Nat /\ y \in Nat /\ FirstCol \in Nat /\ EndCol \in Int /\ x + 3 <= EndCol
      /\ \A colour \in 0 .. 2 : <<y, x + colour>> \in InteriorSamples
  BY PixelFacts
<1>2. InteriorSamples' = InteriorSamples
  BY SameShape
<1>3. \A sample \in InteriorSamples : \E r \in Nat, c \in Nat :
        sample = <<r, c>> /\ c >= FirstCol /\ c < EndCol
  <2>1. /\ rows \in Nat /\ stride \in Nat /\ FirstCol = RadiusX * 3 /\ EndCol = stride - (RadiusX * 3)
    BY SizeFacts, ColumnFacts
  <2>. QED
    BY <1>1, <2>1 DEF InteriorSamples, Interior
<1>4. x + 3 = EndCol \/ x + 3 < EndCol
  BY <1>1
<1>5. ASSUME NEW sample \in InteriorSamples
      PROVE  (sample[1] < y' \/ (sample[1] = y' /\ sample[2] < x'))
               <=> (sample[1] < y \/ (sample[1] = y /\ sample[2] < x))
                    \/ \E colour \in 0 .. 2 : sample = <<y, x + colour>>
  <2>1. PICK r \in Nat, c \in Nat : sample = <<r, c>> /\ c >= FirstCol /\ c < EndCol
    BY <1>3
  <2>2. (\E colour \in 0 .. 2 : c = x + colour) <=> (x <= c /\ c < x + 3)
    <3>1. ASSUME x <= c, c < x + 3 PROVE c - x \in 0 .. 2 /\ c = x + (c - x)
      BY <1>1, <3>1
    <3>. QED
      BY <1>1, <3>1
  <2>3. CASE x + 3 < EndCol
    <3>1. x' = x + 3 /\ y' = y
      BY <2>3 DEF NextPixel
    <3>. QED
      BY <1>1, <2>1, <2>2, <3>1
  <2>4. CASE x + 3 = EndCol
    <3>1. x' = FirstCol /\ y' = y + 1
      BY <1>1, <2>4 DEF NextPixel
    <3>. QED
      BY <1>1, <2>1, <2>2, <2>4, <3>1
  <2>. QED
    BY <1>4, <2>3, <2>4
<1>. QED
  BY <1>1, <1>2, <1>5 DEF Earlier

\* The three samples of the pixel get the windows of their colours; they are new
\* in the first round, and in the others replaced by the same.
LEMMA TakeMediansStep == SequentialInv /\ TakeMedians => SequentialInv'
<1> SUFFICES ASSUME SequentialInv, TakeMedians PROVE SequentialInv'
  OBVIOUS
<1>1. /\ pc = "filter" /\ InLoops /\ counter > 0 /\ counter' = 0 /\ NextPixel
      /\ UNCHANGED <<pc, shape, round, saved>>
  BY DEF TakeMedians
<1>2. shape \in Shapes /\ PixelInv
  BY <1>1 DEF SequentialInv, ControlInv
<1>3. PixelInv'
  BY <1>1, <1>2, NextPixelStep
<1>4. ControlInv'
  BY <1>1, <1>3 DEF SequentialInv, ControlInv
<1>5. ASSUME components = 3 PROVE FilterInv'
  <2> DEFINE pixel == {<<y, x + colour>> : colour \in 0 .. 2}
  <2>1. /\ window = [colour \in 0 .. 2 |-> WindowAt(y, x + colour)]
        /\ Output = [sample \in Done |-> WindowAt(sample[1], sample[2])]
    BY <1>1, <1>5 DEF SequentialInv, FilterInv
  <2>2. x \in Nat /\ y \in Nat /\ pixel \subseteq InteriorSamples
    BY <1>1, <1>2, <1>5, PixelFacts
  <2>3. Done' = Done \union pixel
    <3>1. InteriorSamples' = InteriorSamples
      BY <1>1, SameShape
    <3>2. Earlier' = Earlier \union pixel
      BY <1>1, <1>2, <1>5, PixelIsNext
    <3>. QED
      BY <1>1, <2>2, <3>1, <3>2 DEF Done
  <2>4. Output' = [sample \in Done' |-> IF sample[1] = y /\ sample[2] \in x .. x + 2
                                        THEN window[sample[2] - x] ELSE Output[sample]]
    BY <2>1, <2>3 DEF TakeMedians
  <2>5. ASSUME NEW sample \in Done' PROVE Output'[sample] = WindowAt(sample[1], sample[2])
    <3>1. CASE sample[1] = y /\ sample[2] \in x .. x + 2
      <4>1. sample[2] - x \in 0 .. 2 /\ x + (sample[2] - x) = sample[2]
        BY <2>2, <3>1
      <4>2. Output'[sample] = window[sample[2] - x]
        BY <2>4, <3>1
      <4>. QED
        BY <2>1, <3>1, <4>1, <4>2
    <3>2. CASE ~ (sample[1] = y /\ sample[2] \in x .. x + 2)
      <4>1. sample \notin pixel
        BY <2>2, <3>2
      <4>2. sample \in Done /\ Output'[sample] = Output[sample]
        BY <2>3, <2>4, <3>2, <4>1
      <4>. QED
        BY <2>1, <4>2
    <3>. QED
      BY <3>1, <3>2
  <2>6. Output' = [sample \in Done' |-> WindowAt(sample[1], sample[2])']
    BY <1>1, <2>4, <2>5, SameShape
  <2>. QED
    BY <1>1, <2>6 DEF FilterInv
<1>. QED
  BY <1>1, <1>4, <1>5, SameShape DEF SequentialInv

\* With the end of a round all interior samples are stored.
LEMMA EndRoundStep == SequentialInv /\ EndRound => SequentialInv'
<1> SUFFICES ASSUME SequentialInv, EndRound PROVE SequentialInv'
  OBVIOUS
<1>1. /\ pc = "filter" /\ ~InLoops /\ y' = Radius /\ x' = FirstCol /\ round' = round + 1
      /\ pc' \in {"filter", "write"} /\ UNCHANGED <<shape, counter, window, Output, saved>>
  BY DEF EndRound
<1>2. shape \in Shapes /\ PixelInv /\ round \in Nat /\ ~saved
  BY <1>1 DEF SequentialInv, ControlInv
<1>3. PixelInv'
  <2>1. FirstCol \in Nat
    BY <1>2, SizeFacts, WindowXAssumption DEF FirstCol, RadiusX
  <2>2. FirstCol' = FirstCol /\ FirstCol = FirstCol + 3 * 0 /\ Radius \in Nat
    BY <1>1, <2>1, SameShape, RadiusFacts
  <2>. QED
    BY <1>1, <2>2 DEF PixelInv
<1>4. ControlInv'
  BY <1>1, <1>2, <1>3 DEF ControlInv
<1>5. ASSUME components = 3 PROVE FilterInv'
  <2>1. counter = 0 /\ Output = [sample \in Done |-> WindowAt(sample[1], sample[2])]
    BY <1>1, <1>5 DEF SequentialInv, FilterInv
  <2>2. Done = InteriorSamples
    BY <1>1, <1>2, <1>5, RoundEnds DEF Done
  <2>3. Done' = InteriorSamples
    BY <1>1, <1>2, SameShape DEF Done
  <2>4. counter' = 0 /\ Output' = [sample \in Done' |-> WindowAt(sample[1], sample[2])']
    BY <1>1, <2>1, <2>2, <2>3, SameShape
  <2>. QED
    BY <2>4 DEF FilterInv
<1>. QED
  BY <1>1, <1>4, <1>5, SameShape DEF SequentialInv

LEMMA SequentialStutter == SequentialInv /\ UNCHANGED sfVars => SequentialInv'
<1> SUFFICES ASSUME SequentialInv, UNCHANGED sfVars PROVE SequentialInv'
  OBVIOUS
<1>1. UNCHANGED <<pc, shape, round, y, x, counter, window, Output, saved>>
  BY DEF sfVars
<1>2. PixelInv' <=> PixelInv
  BY <1>1, SameShape DEF PixelInv
<1>3. ControlInv'
  BY <1>1, <1>2 DEF SequentialInv, ControlInv
<1>4. ASSUME components = 3 PROVE FilterInv'
  <2>1. Done' = Done /\ InLoops' = InLoops
    BY <1>1, SameShape DEF Done, Earlier, InLoops
  <2>2. \A row, col : WindowAt(row, col)' = WindowAt(row, col)
    BY <1>1, SameShape
  <2>3. Output' = [sample \in Done' |-> WindowAt(sample[1], sample[2])']
    BY <1>1, <1>4, <2>1, <2>2 DEF SequentialInv, FilterInv
  <2>4. [colour \in 0 .. 2 |-> WindowAt(y, x + colour)]' = [colour \in 0 .. 2 |-> WindowAt(y, x + colour)]
    BY <1>1, <2>2
  <2>5. \/ counter' = 0
        \/ /\ counter' = Count' /\ pc' = "filter" /\ InLoops'
           /\ window' = [colour \in 0 .. 2 |-> WindowAt(y, x + colour)]'
    BY <1>1, <1>4, <2>1, <2>4, SameShape DEF SequentialInv, FilterInv
  <2>. QED
    BY <2>3, <2>5 DEF FilterInv
<1>. QED
  BY <1>1, <1>3, <1>4, SameShape DEF SequentialInv

\* Through all rounds window and Output hold nothing but the windows around
\* their samples, although neither is cleared in between.
THEOREM SequentialSafe == Spec => []SequentialInv
<1>1. SequentialInv /\ [Next]_sfVars => SequentialInv'
  BY ReadImageStep, OutsideSteps, FillWindowStep, TakeMediansStep, EndRoundStep,
     SequentialStutter DEF Next
<1>. QED
  BY <1>1, SequentialInit, PTL DEF Spec

(***************************************************************************)
(* What is saved                                                           *)
(***************************************************************************)

\* The samples of a window are those around its centre, no more and no fewer.
LEMMA WindowExact ==
  ASSUME shape \in Shapes, components = 3, NEW row \in Int, NEW col \in Int
  PROVE  {WindowAt(row, col)[k] : k \in 0 .. elements - 1} = Neighbourhood(row, col, 3)
<1>1. ASSUME NEW k \in 0 .. elements - 1
      PROVE  /\ WindowAt(row, col)[k] = <<row + RowOffset(k), col + ColOffset(k)>>
             /\ \E j \in Window, i \in -RadiusX .. RadiusX :
                  WindowAt(row, col)[k] = <<row + j, col + (i * 3)>>
  BY OffsetFacts DEF WindowAt
<1>2. ASSUME NEW j \in Window, NEW i \in -RadiusX .. RadiusX
      PROVE  \E k \in 0 .. elements - 1 : WindowAt(row, col)[k] = <<row + j, col + (i * 3)>>
  <2>1. PICK k \in 0 .. elements - 1 : RowOffset(k) = j /\ ColOffset(k) = i * 3
    BY PositionOf
  <2>. QED
    BY <1>1, <2>1
<1> DEFINE Samples == {WindowAt(row, col)[k] : k \in 0 .. elements - 1}
           Around  == {<<row + j, col + (k * 3)>> : j \in Window, k \in -RadiusX .. RadiusX}
<1>3. ASSUME NEW s \in Samples PROVE s \in Around
  <2>1. PICK k \in 0 .. elements - 1 : s = WindowAt(row, col)[k]
    BY <1>3
  <2>2. PICK j \in Window, i \in -RadiusX .. RadiusX : s = <<row + j, col + (i * 3)>>
    BY <1>1, <2>1
  <2>. QED
    BY <2>2
<1>4. ASSUME NEW s \in Around PROVE s \in Samples
  <2>1. PICK j \in Window, i \in -RadiusX .. RadiusX : s = <<row + j, col + (i * 3)>>
    BY <1>4
  <2>2. PICK k \in 0 .. elements - 1 : s = WindowAt(row, col)[k]
    BY <1>2, <2>1
  <2>. QED
    BY <2>2
<1>5. Neighbourhood(row, col, 3) = Around
  BY DEF Neighbourhood
<1> HIDE DEF Around
<1>. QED
  BY <1>3, <1>4, <1>5

\* The saved image has a median at each sample whose window lies in the image,
\* and each of them is over exactly that window.
THEOREM SequentialFilters == Spec => []InteriorFiltered
<1>1. SequentialInv => MediansExact
  <2> SUFFICES ASSUME SequentialInv, components = 3, NEW sample \in DOMAIN Output
               PROVE  /\ Interior(sample[1], sample[2], rows, stride, 3)
                      /\ {Output[sample][k] : k \in 0 .. elements - 1}
                           = Neighbourhood(sample[1], sample[2], 3)
    BY DEF MediansExact
  <2>1. shape \in Shapes /\ Output = [s \in Done |-> WindowAt(s[1], s[2])]
    BY DEF SequentialInv, ControlInv, FilterInv
  <2>2. sample \in InteriorSamples
    BY <2>1 DEF Done, Earlier
  <2>3. Interior(sample[1], sample[2], rows, stride, 3) /\ sample[1] \in Int /\ sample[2] \in Int
    BY <2>2 DEF InteriorSamples
  <2>4. Output[sample] = WindowAt(sample[1], sample[2])
    BY <2>1
  <2>. QED
    BY <2>1, <2>3, <2>4, WindowExact
<1>2. SequentialInv => InteriorSaved
  <2> SUFFICES ASSUME SequentialInv, saved, components = 3 PROVE DOMAIN Output = InteriorSamples
    BY DEF InteriorSaved, InteriorSamples
  <2>1. round > 0 /\ DOMAIN Output = Done
    BY DEF SequentialInv, ControlInv, FilterInv
  <2>. QED
    BY <2>1 DEF Done
<1>. QED
  BY <1>1, <1>2, SequentialSafe, PTL DEF InteriorFiltered
=============================================================================
