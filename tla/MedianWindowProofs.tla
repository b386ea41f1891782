------------------------- MODULE MedianWindowProofs -------------------------
(***************************************************************************)
(* Theorems about the median window of Slave(): which samples it reads and *)
(* which it takes medians over, for strips of every size, every window     *)
(* with an odd number of rows and columns, and any number of components.   *)
(***************************************************************************)
EXTENDS MedianWindow, NumberProofs

\* The window has Radius rows on each side of its centre.
LEMMA RadiusFacts == Radius \in Nat /\ Radius > 0 /\ WindowY = 2 * Radius + 1
BY WindowYAssumption, HalfFacts DEF Radius

(***************************************************************************)
(* The inductive invariant                                                 *)
(***************************************************************************)

\* The window whose median belongs to the sample at row, col: what the loops
\* store for its pixel in the row of window[][] for its colour.
WindowAt(row, col) ==
  [k \in 0 .. Count - 1 |-> <<UsedRow(row + RowOffset(k), col + ColOffset(k)),
                              UsedCol(row + RowOffset(k), col + ColOffset(k))>>]

\* The samples before the current pixel.
Earlier == {sample \in (0 .. rows - 1) \X (0 .. stride - 1) :
              sample[1] < y \/ (sample[1] = y /\ sample[2] < x)}

\* The current pixel is one of the strip, or just below its last row.
PixelInv ==
  /\ shape \in Shapes
  /\ y \in 0 .. rows
  /\ \E p \in 0 .. shape.pixels - 1 : x = p * components

MedianInv ==
  /\ PixelInv
  /\ \/ counter = 0
     \/ /\ counter = Count /\ y < rows
        /\ window = [colour \in Colours |-> WindowAt(y, x + colour)]
  /\ out_arr = [sample \in Earlier |-> WindowAt(sample[1], sample[2])]

(***************************************************************************)
(* The loops                                                               *)
(***************************************************************************)

\* The sizes of the strip and of the window.
LEMMA SizeFacts ==
  ASSUME shape \in Shapes
  PROVE  /\ rows \in Nat /\ rows > 0 /\ components \in Nat /\ components > 0
         /\ shape.pixels \in Nat /\ shape.pixels > 0 /\ stride = shape.pixels * components
         /\ stride \in Nat /\ stride >= components
<1>1. /\ rows \in Nat /\ rows > 0 /\ components \in Nat /\ components > 0
      /\ shape.pixels \in Nat /\ shape.pixels > 0 /\ stride = shape.pixels * components
  <2>1. shape.rows \in Heights /\ shape.pixels \in Widths /\ shape.components \in ComponentCounts
    BY DEF Shapes
  <2>2. shape.rows \in Nat \ {0} /\ shape.pixels \in Nat \ {0} /\ shape.components \in Nat \ {0}
    BY <2>1, SizesAssumption
  <2>3. stride = shape.pixels * components
    BY DEF stride
  <2>. QED
    BY <2>2, <2>3 DEF rows, components
<1>2. shape.pixels * components \in Nat /\ shape.pixels * components >= components
  BY <1>1
<1>. QED
  BY <1>1, <1>2

LEMMA ColumnFacts ==
  /\ RadiusX \in Nat /\ WindowX = 2 * RadiusX + 1
  /\ Across = WindowX /\ Across \in Nat /\ Across > 0
  /\ Count \in Nat /\ Count > 0 /\ Count = elements /\ Count = WindowY * Across
<1>1. RadiusX \in Nat /\ WindowX = 2 * RadiusX + 1 /\ Across = WindowX /\ Across \in Nat /\ Across > 0
  BY WindowXAssumption DEF RadiusX, Across
<1>2. WindowY \in Nat /\ WindowY > 0 /\ Count = WindowY * Across /\ Count = elements
  BY <1>1, RadiusFacts DEF Count, elements
<1>3. WindowY * Across \in Nat /\ WindowY * Across > 0
  BY <1>1, <1>2
<1>. QED
  BY <1>1, <1>2, <1>3

\* Each position of the window lies in one of its rows and one of its columns.
LEMMA OffsetFacts ==
  ASSUME shape \in Shapes, NEW k \in 0 .. Count - 1
  PROVE  /\ RowOffset(k) \in Window
         /\ \E i \in -RadiusX .. RadiusX : ColOffset(k) = i * components /\ i = (k % Across) - RadiusX
         /\ k = Across * (RowOffset(k) + Radius) + (k % Across)
<1>1. /\ Across \in Nat /\ Across > 0 /\ Across = 2 * RadiusX + 1 /\ RadiusX \in Nat
      /\ Count = WindowY * Across
  BY ColumnFacts
<1>2. /\ k \div Across \in 0 .. WindowY - 1 /\ k % Across \in 0 .. Across - 1
      /\ k = Across * (k \div Across) + (k % Across)
  BY <1>1, RadiusFacts, PositionFacts
<1>4. RowOffset(k) \in Window /\ RowOffset(k) + Radius = k \div Across
  BY <1>2, RadiusFacts DEF RowOffset, Window
<1>5. (k % Across) - RadiusX \in -RadiusX .. RadiusX
  BY <1>1, <1>2
<1>. QED
  BY <1>2, <1>4, <1>5 DEF ColOffset

\* Offsets are integers, and reach RadiusX pixels to each side.
LEMMA OffsetBounds ==
  ASSUME shape \in Shapes, NEW k \in 0 .. Count - 1
  PROVE  /\ RowOffset(k) \in Int /\ -Radius <= RowOffset(k) /\ RowOffset(k) <= Radius
         /\ ColOffset(k) \in Int
         /\ -(RadiusX * components) <= ColOffset(k) /\ ColOffset(k) <= RadiusX * components
         /\ RadiusX * components \in Nat
<1>1. PICK i \in -RadiusX .. RadiusX : ColOffset(k) = i * components
  BY OffsetFacts
<1>2. RadiusX \in Nat /\ components \in Nat /\ i \in Int /\ Radius \in Nat
  BY SizeFacts, ColumnFacts, RadiusFacts
<1>3. i * components \in Int /\ -(RadiusX * components) <= i * components /\ i * components <= RadiusX * components
      /\ RadiusX * components \in Nat
  BY <1>2
<1>4. RowOffset(k) \in Window
  BY OffsetFacts
<1>. QED
  BY <1>1, <1>2, <1>3, <1>4 DEF Window

\* The current pixel lies in its row with all its components.
LEMMA PixelFacts ==
  ASSUME PixelInv
  PROVE  x \in Nat /\ x + components <= stride /\ y \in Nat
<1>1. PICK p \in 0 .. shape.pixels - 1 : x = p * components
  BY DEF PixelInv
<1>2. shape.pixels \in Nat /\ components \in Nat /\ stride = shape.pixels * components
  BY SizeFacts DEF PixelInv
<1>3. p \in Nat /\ p < shape.pixels
  BY <1>1, <1>2
<1>4. p * components \in Nat /\ p * components + components <= shape.pixels * components
  BY <1>2, <1>3, ProductBelow
<1>. QED
  BY <1>1, <1>2, <1>4, SizeFacts DEF PixelInv

\* The loops fill the rows of window[][] with the windows of their samples.
LEMMA FilledWindow ==
  ASSUME PixelInv
  PROVE  [colour \in Colours |-> [k \in 0 .. Count - 1 |-> Sample(colour, k)]]
           = [colour \in Colours |-> WindowAt(y, x + colour)]
<1>1. ASSUME NEW colour \in Colours, NEW k \in 0 .. Count - 1
      PROVE  Sample(colour, k) = <<UsedRow(y + RowOffset(k), (x + colour) + ColOffset(k)),
                                   UsedCol(y + RowOffset(k), (x + colour) + ColOffset(k))>>
  <2>1. x \in Nat /\ ColOffset(k) \in Int /\ colour \in Int
    BY PixelFacts, OffsetBounds, SizeFacts DEF PixelInv, Colours
  <2>2. (x + ColOffset(k)) + colour = (x + colour) + ColOffset(k)
    BY <2>1
  <2>. QED
    BY <2>2, Zenon DEF Sample
<1>. QED
  BY <1>1, Zenon DEF WindowAt

\* The sizes are those of the strip that was received.
LEMMA SameShape ==
  ASSUME shape' = shape
  PROVE  /\ rows' = rows /\ components' = components /\ stride' = stride
         /\ Colours' = Colours /\ Count' = Count
         /\ \A row, col : WindowAt(row, col)' = WindowAt(row, col)
<1>1. rows' = rows /\ components' = components /\ stride' = stride
  BY DEF rows, components, stride
<1>2. Colours' = Colours /\ Count' = Count
  BY <1>1 DEF Colours, Count, Across
<1>3. ASSUME NEW row, NEW col PROVE UsedRow(row, col)' = UsedRow(row, col) /\ UsedCol(row, col)' = UsedCol(row, col)
  BY <1>1 DEF UsedRow, UsedCol
<1>4. ASSUME NEW k PROVE RowOffset(k)' = RowOffset(k) /\ ColOffset(k)' = ColOffset(k)
  BY <1>1 DEF RowOffset, ColOffset, Across
<1>. QED
  BY <1>1, <1>2, <1>3, <1>4 DEF WindowAt

LEMMA FillWindowStep == MedianInv /\ FillWindow => MedianInv'
<1> SUFFICES ASSUME MedianInv, FillWindow PROVE MedianInv'
  OBVIOUS
<1>1. UNCHANGED <<shape, y, x, out_arr>> /\ y < rows /\ counter' = Count
      /\ window' = [colour \in Colours |-> WindowAt(y, x + colour)]
  BY FilledWindow, Zenon DEF MedianInv, FillWindow
<1>2. PixelInv'
  BY <1>1, Zenon DEF MedianInv, PixelInv, rows, components
<1>3. Colours' = Colours /\ Count' = Count /\ rows' = rows /\ Earlier' = Earlier
      /\ \A row, col : WindowAt(row, col)' = WindowAt(row, col)
  BY <1>1, SameShape, Zenon DEF Earlier
<1>. QED
  BY <1>1, <1>2, <1>3, Zenon DEF MedianInv

\* The next pixel is one of the strip, or the strip is at its end; the samples of
\* the pixel come to those before it.
LEMMA NextPixelStep ==
  ASSUME PixelInv, y < rows, NextPixel, UNCHANGED shape
  PROVE  /\ PixelInv'
         /\ Earlier' = Earlier \union {<<y, x + colour>> : colour \in Colours}
         /\ \A colour \in Colours : <<y, x + colour>> \notin Earlier
<1>1. /\ x \in Nat /\ x + components <= stride /\ y \in Nat /\ y < rows
      /\ rows \in Nat /\ stride \in Nat /\ components \in Nat /\ components > 0
  BY PixelFacts, SizeFacts DEF PixelInv
<1>2. rows' = rows /\ stride' = stride /\ components' = components /\ shape' = shape
  BY DEF rows, stride, components
<1>3. Colours = 0 .. components - 1
  BY DEF Colours
<1>4. PICK p \in 0 .. shape.pixels - 1 : x = p * components
  BY DEF PixelInv
<1>5. shape.pixels \in Nat /\ shape.pixels > 0 /\ stride = shape.pixels * components /\ p \in Nat
  BY <1>4, SizeFacts DEF PixelInv
<1>6. \A colour \in Colours : <<y, x + colour>> \notin Earlier
  BY <1>1, <1>3 DEF Earlier
<1>7. CASE x + components < stride
  <2>1. x' = x + components /\ y' = y
    BY <1>7 DEF NextPixel
  <2>2. x' = (p + 1) * components
    BY <1>1, <1>4, <1>5, <2>1
  <2>3. p + 1 \in 0 .. shape.pixels - 1
    <3>1. p + 1 < shape.pixels
      <4> SUFFICES ASSUME p + 1 >= shape.pixels PROVE FALSE
        BY <1>5
      <4>1. shape.pixels * components <= (p + 1) * components
        BY <1>1, <1>5, ProductMonotone
      <4>. QED
        BY <1>1, <1>5, <1>7, <2>1, <2>2, <4>1
    <3>. QED
      BY <1>5, <3>1
  <2>4. PixelInv'
    BY <1>2, <2>1, <2>2, <2>3 DEF PixelInv
  <2>5. ASSUME NEW sample \in (0 .. rows - 1) \X (0 .. stride - 1)
        PROVE  (sample[1] < y' \/ (sample[1] = y' /\ sample[2] < x'))
                 <=> (sample[1] < y \/ (sample[1] = y /\ sample[2] < x))
                      \/ \E colour \in 0 .. components - 1 : sample = <<y, x + colour>>
    <3>1. PICK r \in 0 .. rows - 1, c \in 0 .. stride - 1 : sample = <<r, c>>
      OBVIOUS
    <3>2. (\E colour \in 0 .. components - 1 : c = x + colour) <=> (x <= c /\ c < x + components)
      <4>1. ASSUME x <= c, c < x + components PROVE c - x \in 0 .. components - 1 /\ c = x + (c - x)
        BY <1>1, <4>1
      <4>. QED
        BY <1>1, <4>1
    <3>. QED
      BY <1>1, <2>1, <3>1, <3>2
  <2>6. \A colour \in 0 .. components - 1 : <<y, x + colour>> \in (0 .. rows - 1) \X (0 .. stride - 1)
    BY <1>1
  <2>7. Earlier' = Earlier \union {<<y, x + colour>> : colour \in Colours}
    BY <1>2, <1>3, <2>5, <2>6 DEF Earlier
  <2>. QED
    BY <1>6, <2>4, <2>7
<1>8. CASE ~ (x + components < stride)
  <2>1. x' = 0 /\ y' = y + 1 /\ x + components = stride
    BY <1>1, <1>8 DEF NextPixel
  <2>2. 0 \in 0 .. shape.pixels - 1 /\ 0 = 0 * components /\ y' \in 0 .. rows
    BY <1>1, <1>5, <2>1
  <2>3. PixelInv'
    BY <1>2, <2>1, <2>2 DEF PixelInv
  <2>5. ASSUME NEW sample \in (0 .. rows - 1) \X (0 .. stride - 1)
        PROVE  (sample[1] < y' \/ (sample[1] = y' /\ sample[2] < x'))
                 <=> (sample[1] < y \/ (sample[1] = y /\ sample[2] < x))
                      \/ \E colour \in 0 .. components - 1 : sample = <<y, x + colour>>
    <3>1. PICK r \in 0 .. rows - 1, c \in 0 .. stride - 1 : sample = <<r, c>>
      OBVIOUS
    <3>2. (\E colour \in 0 .. components - 1 : c = x + colour) <=> (x <= c)
      <4>1. ASSUME x <= c PROVE c - x \in 0 .. components - 1 /\ c = x + (c - x)
        BY <1>1, <2>1, <4>1
      <4>. QED
        BY <1>1, <4>1
    <3>. QED
      BY <1>1, <2>1, <3>1, <3>2
  <2>6. \A colour \in 0 .. components - 1 : <<y, x + colour>> \in (0 .. rows - 1) \X (0 .. stride - 1)
    BY <1>1
  <2>7. Earlier' = Earlier \union {<<y, x + colour>> : colour \in Colours}
    BY <1>2, <1>3, <2>5, <2>6 DEF Earlier
  <2>. QED
    BY <1>6, <2>3, <2>7
<1>. QED
  BY <1>7, <1>8

\* Each sample of the pixel gets the window of its colour; the samples before it
\* keep theirs.
LEMMA TakeMediansStep == MedianInv /\ TakeMedians => MedianInv'
<1> SUFFICES ASSUME MedianInv, TakeMedians PROVE MedianInv'
  OBVIOUS
<1>1. PixelInv /\ y < rows /\ window = [colour \in Colours |-> WindowAt(y, x + colour)]
      /\ out_arr = [sample \in Earlier |-> WindowAt(sample[1], sample[2])]
  BY DEF MedianInv, TakeMedians
<1>2. NextPixel /\ UNCHANGED shape /\ counter' = 0
  BY DEF TakeMedians
<1>3. /\ PixelInv'
      /\ Earlier' = Earlier \union {<<y, x + colour>> : colour \in Colours}
      /\ \A colour \in Colours : <<y, x + colour>> \notin Earlier
  BY <1>1, <1>2, NextPixelStep
<1>4. DOMAIN out_arr = Earlier
  BY <1>1
<1>5. out_arr' = [sample \in Earlier' |-> IF sample \in Earlier THEN out_arr[sample]
                                          ELSE window[sample[2] - x]]
  BY <1>3, <1>4 DEF TakeMedians
<1>6. ASSUME NEW sample \in Earlier' PROVE out_arr'[sample] = WindowAt(sample[1], sample[2])
  <2>1. CASE sample \in Earlier
    BY <1>1, <1>5, <2>1
  <2>2. ASSUME NEW colour \in Colours, sample = <<y, x + colour>>
        PROVE  out_arr'[sample] = WindowAt(sample[1], sample[2])
    <3>1. sample \notin Earlier /\ sample[1] = y /\ sample[2] = x + colour
      BY <1>3, <2>2
    <3>2. (x + colour) - x = colour
      BY <1>1, PixelFacts, SizeFacts DEF PixelInv, Colours
    <3>3. out_arr'[sample] = window[colour]
      BY <1>5, <3>1, <3>2
    <3>. QED
      BY <1>1, <3>1, <3>3
  <2>. QED
    BY <1>3, <2>1, <2>2
<1>7. out_arr' = [sample \in Earlier' |-> WindowAt(sample[1], sample[2])']
  <2>1. \A row, col : WindowAt(row, col)' = WindowAt(row, col)
    BY <1>2, SameShape
  <2>. QED
    BY <1>5, <1>6, <2>1
<1>. QED
  BY <1>2, <1>3, <1>7 DEF MedianInv

LEMMA MedianInit == Init => MedianInv
<1> SUFFICES ASSUME Init PROVE MedianInv
  OBVIOUS
<1>1. shape \in Shapes /\ y = 0 /\ x = 0 /\ counter = 0
  BY DEF Init
<1>2. PixelInv
  BY <1>1, SizeFacts DEF PixelInv
<1>3. Earlier = {}
  BY <1>1 DEF Earlier
<1>4. out_arr = [sample \in Earlier |-> WindowAt(sample[1], sample[2])]
  BY <1>3 DEF Init
<1>. QED
  BY <1>1, <1>2, <1>4 DEF MedianInv

LEMMA MedianStep == MedianInv /\ [Next]_mwVars => MedianInv'
<1> SUFFICES ASSUME MedianInv, UNCHANGED mwVars PROVE MedianInv'
  BY FillWindowStep, TakeMediansStep DEF Next
<1>1. UNCHANGED <<shape, y, x, counter, window, out_arr>>
  BY DEF mwVars
<1>2. PixelInv'
  BY <1>1 DEF MedianInv, PixelInv, rows, components
<1>3. Earlier' = Earlier
  BY <1>1, SameShape DEF Earlier
<1>. QED
  BY <1>1, <1>2, <1>3, SameShape, Zenon DEF MedianInv

\* Where the loops over pixels and colours are, window[][] holds the windows of
\* the current pixel, and each sample before it has been given its own.
THEOREM MedianSafe == Spec => []MedianInv
  BY MedianInit, MedianStep, PTL DEF Spec

(***************************************************************************)
(* Where samples are read                                                  *)
(***************************************************************************)

\* A place in a row of the strip, or in two rows of which the strip has both.
LEMMA AddressInside ==
  ASSUME NEW r \in Nat, NEW c \in Nat, NEW n \in Nat, NEW w \in Nat,
         r < n, c < w \/ (c < 2 * w /\ r + 1 < n)
  PROVE  (r * w) + c \in 0 .. (n * w) - 1
<1>1. r * w \in Nat /\ (r + 1) * w = r * w + w /\ r * w + w <= n * w
  BY ProductBelow
<1>2. CASE c < w
  BY <1>1, <1>2
<1>3. CASE c < 2 * w /\ r + 1 < n
  <2>1. (r + 1) * w + w <= n * w
    BY <1>3, ProductBelow
  <2>. QED
    BY <1>1, <1>3, <2>1
<1>. QED
  BY <1>2, <1>3

\* Only at the bottom left does a window reach out of a strip that is higher and
\* wider than it: elsewhere the branches of Prac3.cpp:269-304 bring every sample
\* back into the strip (at the top right, into the next row of it).
THEOREM WindowsInside == Spec => []ReadsInsideButBottomLeft
<1>1. ASSUME MedianInv, WellShaped, ~BottomLeft, counter > 0, NEW colour \in Colours,
             NEW k \in 0 .. Count - 1
      PROVE  InArray(window[colour][k])
  <2> DEFINE row == y + RowOffset(k)
             col == (x + colour) + ColOffset(k)
  <2>1. PixelInv /\ y < rows /\ shape \in Shapes
        /\ window = [c \in Colours |-> WindowAt(y, x + c)]
    BY <1>1 DEF MedianInv, PixelInv
  <2>2. window[colour][k] = <<UsedRow(row, col), UsedCol(row, col)>>
    BY <2>1 DEF WindowAt
  <2>3. /\ x \in Nat /\ x + components <= stride /\ y \in Nat /\ y < rows
        /\ rows \in Nat /\ stride \in Nat /\ components \in Nat
        /\ colour \in Nat /\ colour < components
    BY <2>1, PixelFacts, SizeFacts DEF Colours
  <2>4. /\ RowOffset(k) \in Int /\ -Radius <= RowOffset(k) /\ RowOffset(k) <= Radius
        /\ ColOffset(k) \in Int /\ RadiusX * components \in Nat
        /\ -(RadiusX * components) <= ColOffset(k) /\ ColOffset(k) <= RadiusX * components
    BY <2>1, OffsetBounds
  <2> DEFINE reach == RadiusX * components
  <2>5. /\ rows > WindowY /\ stride >= WindowX /\ reach <= WindowX
        /\ ~ (y + Radius >= rows /\ x < reach)
    BY <1>1 DEF WellShaped, BottomLeft
  <2>6. Radius \in Nat /\ WindowY = 2 * Radius + 1 /\ WindowX \in Nat
    BY RadiusFacts, WindowXAssumption
  <2> HIDE DEF reach
  <2>7. /\ row \in Int /\ col \in Int /\ reach \in Nat
        /\ -Radius <= row /\ row < rows + Radius /\ -reach <= col /\ col < stride + reach
        /\ row >= rows => col >= 0
    BY <2>3, <2>4, <2>5, <2>6 DEF reach
  <2> HIDE DEF row, col
  <2>8. UsedRow(row, col) \in Nat /\ UsedCol(row, col) \in Nat /\ UsedRow(row, col) < rows
    BY <2>3, <2>5, <2>6, <2>7 DEF UsedRow, UsedCol
  <2>9. \/ UsedCol(row, col) < stride
        \/ UsedCol(row, col) < 2 * stride /\ UsedRow(row, col) + 1 < rows
    BY <2>3, <2>5, <2>6, <2>7 DEF UsedRow, UsedCol
  <2>10. (UsedRow(row, col) * stride) + UsedCol(row, col) \in 0 .. (rows * stride) - 1
    BY <2>3, <2>8, <2>9, AddressInside
  <2>. QED
    BY <2>2, <2>10 DEF InArray, Address
<1>2. MedianInv => ReadsInsideButBottomLeft
  BY <1>1 DEF ReadsInsideButBottomLeft, ReadsInside
<1>. QED
  BY <1>2, MedianSafe, PTL

(***************************************************************************)
(* Colours                                                                 *)
(***************************************************************************)

\* Offsets by whole pixels do not change the colour of an address.
LEMMA WholePixels ==
  ASSUME NEW c \in Nat, c > 0, NEW w \in Nat, NEW colour \in 0 .. c - 1,
         NEW r \in Int, NEW p \in Int, NEW i \in Int, NEW m \in Int
  PROVE  ((r * (w * c)) + (((p * c) + colour) + i * c + m * c)) % c = colour
<1>1. r * (w * c) = (r * w) * c /\ r * w \in Int
  OBVIOUS
<1> DEFINE a == r * w
<1>2. a \in Int
  BY <1>1
<1> HIDE DEF a
<1>3. (a * c) + (((p * c) + colour) + i * c + m * c) = c * (a + p + i + m) + colour
  BY <1>2
<1>4. a + p + i + m \in Int
  BY <1>2
<1>5. (c * (a + p + i + m) + colour) % c = colour
  BY <1>4, DivModUnique
<1>. QED
  BY <1>1, <1>3, <1>5 DEF a

\* Where WINDOW_X is a whole number of pixels, each row of window[][] holds
\* samples of its own colour, shifted or not, inside the strip or not: the median
\* does not change colours, as the comment at Prac3.cpp:310 says.
THEOREM ColoursStay == Spec => []ColoursKeptByPixelShifts
<1>1. ASSUME MedianInv, WindowX % components = 0, counter > 0, NEW colour \in Colours,
             NEW k \in 0 .. Count - 1
      PROVE  Address(window[colour][k]) % components = colour
  <2> DEFINE row == y + RowOffset(k)
             col == (x + colour) + ColOffset(k)
             q == WindowX \div components
  <2>1. PixelInv /\ shape \in Shapes /\ window = [c \in Colours |-> WindowAt(y, x + c)]
    BY <1>1 DEF MedianInv, PixelInv
  <2>2. window[colour][k] = <<UsedRow(row, col), UsedCol(row, col)>>
    BY <2>1 DEF WindowAt
  <2>3. /\ components \in Nat /\ components > 0 /\ colour \in 0 .. components - 1
        /\ rows \in Nat /\ y \in Nat /\ shape.pixels \in Nat /\ stride = shape.pixels * components
    BY <2>1, SizeFacts, PixelFacts DEF Colours
  <2>4. PICK p \in 0 .. shape.pixels - 1 : x = p * components
    BY <2>1 DEF PixelInv
  <2>5. PICK i \in -RadiusX .. RadiusX : ColOffset(k) = i * components
    BY <2>1, OffsetFacts
  <2>6. p \in Int /\ i \in Int /\ RowOffset(k) \in Int
    BY <2>1, <2>3, ColumnFacts, OffsetBounds
  <2>7. q \in Nat /\ WindowX = q * components
    <3>1. WindowX \in Nat
      BY WindowXAssumption
    <3>2. WindowX = (components * (WindowX \div components)) + (WindowX % components)
          /\ WindowX \div components \in Nat
      BY <2>3, <3>1, DivMod
    <3>. QED
      BY <1>1, <2>3, <3>2
  <2>8. col = ((p * components) + colour) + i * components
    BY <2>4, <2>5
  <2> HIDE DEF q
  <2>9. col \in Int /\ row \in Int
    BY <2>3, <2>6, <2>8
  <2>10. UsedRow(row, col) \in Int
    BY <2>3, <2>9, RadiusFacts DEF UsedRow
  <2>11. PICK m \in Int : UsedCol(row, col) = col + m * components
    <3>1. q * components \in Int /\ (-q) * components = -(q * components) /\ 0 * components = 0
          /\ q \in Int /\ -q \in Int
      BY <2>3, <2>7
    <3>2. UsedCol(row, col) \in {col + WindowX, col - WindowX, col}
      BY DEF UsedCol
    <3>3. CASE UsedCol(row, col) = col + WindowX
      BY <2>7, <3>1, <3>3
    <3>4. CASE UsedCol(row, col) = col - WindowX
      <4>1. col - WindowX = col + (-q) * components
        BY <2>7, <2>9, <3>1
      <4>. QED
        BY <3>1, <3>4, <4>1
    <3>5. CASE UsedCol(row, col) = col
      <4>1. col = col + 0 * components
        BY <2>9, <3>1
      <4>. QED
        BY <3>5, <4>1
    <3>. QED
      BY <3>2, <3>3, <3>4, <3>5
  <2>12. UsedCol(row, col) = ((p * components) + colour) + i * components + m * components
    BY <2>8, <2>11
  <2> HIDE DEF row, col
  <2>13. ((UsedRow(row, col) * (shape.pixels * components))
           + (((p * components) + colour) + i * components + m * components)) % components = colour
    <3> DEFINE Keeps(c, w, b, r, s, j, l) ==
          ((r * (w * c)) + (((s * c) + b) + j * c + l * c)) % c = b
    <3>1. \A c \in Nat, w \in Nat : c > 0 =>
            \A b \in 0 .. c - 1, r \in Int, s \in Int, j \in Int, l \in Int : Keeps(c, w, b, r, s, j, l)
      BY WholePixels, Zenon
    <3> HIDE DEF Keeps
    <3>2. components \in Nat /\ shape.pixels \in Nat /\ components > 0 /\ colour \in 0 .. components - 1
          /\ UsedRow(row, col) \in Int /\ p \in Int /\ i \in Int /\ m \in Int
      BY <2>3, <2>6, <2>10, <2>11
    <3>3. Keeps(components, shape.pixels, colour, UsedRow(row, col), p, i, m)
      BY <3>1, <3>2
    <3>. QED
      BY <3>3, Zenon DEF Keeps
  <2>. QED
    BY <2>2, <2>3, <2>12, <2>13 DEF Address
<1>2. MedianInv => ColoursKeptByPixelShifts
  BY <1>1 DEF ColoursKeptByPixelShifts, ColoursKept
<1>. QED
  BY <1>2, MedianSafe, PTL

(***************************************************************************)
(* Which samples the medians are taken over                                *)
(***************************************************************************)

\* Each offset by rows and pixels belongs to a position of the window.
LEMMA PositionOf ==
  ASSUME shape \in Shapes, NEW j \in Window, NEW i \in -RadiusX .. RadiusX
  PROVE  \E k \in 0 .. Count - 1 : RowOffset(k) = j /\ ColOffset(k) = i * components
<1>1. /\ RadiusX \in Nat /\ Across = 2 * RadiusX + 1 /\ Across \in Nat /\ Across > 0
      /\ Count = WindowY * Across /\ Count \in Nat
  BY ColumnFacts
<1>2. Radius \in Nat /\ WindowY = 2 * Radius + 1
  BY RadiusFacts
<1> DEFINE a == j + Radius
           b == i + RadiusX
           k == Across * a + b
<1>3. a \in 0 .. WindowY - 1 /\ b \in 0 .. Across - 1
  BY <1>1, <1>2 DEF Window
<1>4. (a - Radius = j) /\ (b - RadiusX = i)
  BY <1>1, <1>2 DEF Window
<1> HIDE DEF a, b
<1>5. k \in 0 .. Count - 1 /\ k \div Across = a /\ k % Across = b
  BY <1>1, <1>3, RadiusFacts, PositionExists
<1>6. RowOffset(k) = j /\ ColOffset(k) = i * components
  BY <1>4, <1>5 DEF RowOffset, ColOffset
<1>. QED
  BY <1>5, <1>6

\* Samples at least RadiusX pixels away from the left and right border: no
\* column is replaced, and rows as the abstraction to rows has it.
LEMMA ColumnsInside ==
  ASSUME shape \in Shapes, NEW row \in Nat, NEW col \in Nat,
         col \in RadiusX * components .. stride - (RadiusX * components) - 1,
         NEW k \in 0 .. Count - 1
  PROVE  WindowAt(row, col)[k] = <<EdgeRow(rows, row + RowOffset(k)), col + ColOffset(k)>>
<1>1. WindowAt(row, col)[k] = <<UsedRow(row + RowOffset(k), col + ColOffset(k)),
                                UsedCol(row + RowOffset(k), col + ColOffset(k))>>
  BY DEF WindowAt
<1>2. col + ColOffset(k) >= 0 /\ col + ColOffset(k) < stride
  BY OffsetBounds, SizeFacts
<1>3. row + RowOffset(k) \in Int /\ col + ColOffset(k) \in Int /\ stride \in Int /\ rows \in Int
  BY OffsetBounds, SizeFacts
<1>4. UsedCol(row + RowOffset(k), col + ColOffset(k)) = col + ColOffset(k)
  BY <1>2, <1>3 DEF UsedCol
<1>5. UsedRow(row + RowOffset(k), col + ColOffset(k)) = EdgeRow(rows, row + RowOffset(k))
  BY <1>2, <1>3 DEF UsedRow, EdgeRow
<1>. QED
  BY <1>1, <1>4, <1>5

\* When Slave() has gone through its strip, every sample has a median and no
\* place beside them was stored into; away from the border the median is over
\* the window around the sample, each of its samples and no other.
THEOREM MediansRight == Spec => []SamplesFiltered
<1>1. MedianInv => AllSamplesFiltered
  <2> SUFFICES ASSUME MedianInv, y = rows PROVE DOMAIN out_arr = (0 .. rows - 1) \X (0 .. stride - 1)
    BY DEF AllSamplesFiltered
  <2>1. DOMAIN out_arr = Earlier
    BY DEF MedianInv
  <2>2. rows \in Nat
    BY SizeFacts DEF MedianInv, PixelInv
  <2>3. ASSUME NEW sample \in (0 .. rows - 1) \X (0 .. stride - 1) PROVE sample[1] < y
    <3>1. sample[1] \in 0 .. rows - 1
      BY <2>3
    <3>. QED
      BY <2>2, <3>1
  <2>. QED
    BY <2>1, <2>3 DEF Earlier
<1>2. ASSUME MedianInv, NEW sample \in Earlier,
             Interior(sample[1], sample[2], rows, stride, components)
      PROVE  {out_arr[sample][k] : k \in 0 .. elements - 1}
               = Neighbourhood(sample[1], sample[2], components)
  <2> DEFINE row == sample[1]
             col == sample[2]
  <2>1. shape \in Shapes /\ out_arr[sample] = WindowAt(row, col)
    BY <1>2 DEF MedianInv, PixelInv
  <2>2. /\ row \in 0 .. rows - 1 /\ col \in 0 .. stride - 1
        /\ row \in Radius .. rows - Radius - 1
        /\ col \in RadiusX * components .. stride - (RadiusX * components) - 1
    BY <1>2 DEF Earlier, Interior
  <2>3. rows \in Nat /\ stride \in Nat /\ Radius \in Nat
    BY <2>1, SizeFacts, RadiusFacts
  <2> HIDE DEF row, col
  <2>4. row \in Nat /\ col \in Nat
    BY <2>2, <2>3
  <2>5. ASSUME NEW k \in 0 .. Count - 1
        PROVE  WindowAt(row, col)[k] = <<row + RowOffset(k), col + ColOffset(k)>>
    <3>1. WindowAt(row, col)[k] = <<EdgeRow(rows, row + RowOffset(k)), col + ColOffset(k)>>
      BY <2>1, <2>2, <2>4, ColumnsInside
    <3>2. RowOffset(k) \in Int /\ -Radius <= RowOffset(k) /\ RowOffset(k) <= Radius
      BY <2>1, OffsetBounds
    <3>3. EdgeRow(rows, row + RowOffset(k)) = row + RowOffset(k)
      BY <2>2, <2>3, <3>2 DEF EdgeRow
    <3>. QED
      BY <3>1, <3>3
  <2>6. ASSUME NEW k \in 0 .. Count - 1
        PROVE  \E j \in Window, i \in -RadiusX .. RadiusX :
                 WindowAt(row, col)[k] = <<row + j, col + (i * components)>>
    BY <2>1, <2>5, OffsetFacts
  <2>7. ASSUME NEW j \in Window, NEW i \in -RadiusX .. RadiusX
        PROVE  \E k \in 0 .. Count - 1 : WindowAt(row, col)[k] = <<row + j, col + (i * components)>>
    <3>1. PICK k \in 0 .. Count - 1 : RowOffset(k) = j /\ ColOffset(k) = i * components
      BY <2>1, PositionOf
    <3>. QED
      BY <2>5, <3>1
  <2>8. {WindowAt(row, col)[k] : k \in 0 .. Count - 1} = Neighbourhood(row, col, components)
    <3> DEFINE Samples == {WindowAt(row, col)[k] : k \in 0 .. Count - 1}
               Around  == {<<row + j, col + (k * components)>> : j \in Window, k \in -RadiusX .. RadiusX}
    <3>1. ASSUME NEW s \in Samples PROVE s \in Around
      <4>1. PICK k \in 0 .. Count - 1 : s = WindowAt(row, col)[k]
        OBVIOUS
      <4>2. PICK j \in Window, i \in -RadiusX .. RadiusX : WindowAt(row, col)[k] = <<row + j, col + (i * components)>>
        BY <2>6
      <4> HIDE DEF row, col
      <4>. QED
        BY <4>1, <4>2
    <3>2. ASSUME NEW j \in Window, NEW i \in -RadiusX .. RadiusX
          PROVE  <<row + j, col + (i * components)>> \in Samples
      <4>1. PICK k \in 0 .. Count - 1 : WindowAt(row, col)[k] = <<row + j, col + (i * components)>>
        BY <2>7
      <4>. QED
        BY <4>1
    <3>3. Neighbourhood(row, col, components) = Around
      BY DEF Neighbourhood
    <3> HIDE DEF Samples, row, col
    <3>4. Around \subseteq Samples
      BY ONLY <3>2
    <3> HIDE DEF Around
    <3>. QED
      BY <3>1, <3>3, <3>4 DEF Samples
  <2>. QED
    BY <2>1, <2>8, ColumnFacts DEF row, col
<1>3. MedianInv => InteriorExact
  <2> SUFFICES ASSUME MedianInv PROVE InteriorExact
    OBVIOUS
  <2>1. DOMAIN out_arr = Earlier
    BY DEF MedianInv
  <2>. QED
    BY <1>2, <2>1 DEF InteriorExact
<1>. QED
  BY <1>1, <1>3, MedianSafe, PTL DEF SamplesFiltered

\* What module Prac3 is built on: away from the left and right border the rows of
\* a window are those of FilterRow, and its samples are all different, those of
\* the rows above and below the strip included, which are replaced by others.
THEOREM RowAbstraction == Spec => []RowsAsAbstracted
<1>1. ASSUME MedianInv, NEW sample \in Earlier, rows > WindowY,
             sample[2] \in RadiusX * components .. stride - (RadiusX * components) - 1
      PROVE  /\ \A k \in 0 .. Count - 1 :
                  out_arr[sample][k][1] = EdgeRow(rows, sample[1] + RowOffset(k))
             /\ \A k, l \in 0 .. Count - 1 : k # l => out_arr[sample][k] # out_arr[sample][l]
  <2> DEFINE row == sample[1]
             col == sample[2]
  <2>1. shape \in Shapes /\ out_arr[sample] = WindowAt(row, col)
    BY <1>1 DEF MedianInv, PixelInv
  <2>2. /\ row \in 0 .. rows - 1 /\ col \in 0 .. stride - 1
        /\ col \in RadiusX * components .. stride - (RadiusX * components) - 1
    BY <1>1 DEF Earlier
  <2>3. /\ rows \in Nat /\ stride \in Nat /\ Radius \in Nat /\ WindowY = 2 * Radius + 1
        /\ components \in Nat /\ components > 0
    BY <2>1, SizeFacts, RadiusFacts
  <2> HIDE DEF row, col
  <2>4. row \in Nat /\ col \in Nat
    BY <2>2, <2>3
  <2>5. \A k \in 0 .. Count - 1 :
          WindowAt(row, col)[k] = <<EdgeRow(rows, row + RowOffset(k)), col + ColOffset(k)>>
    BY <2>1, <2>2, <2>4, ColumnsInside
  <2>6. ASSUME NEW k \in 0 .. Count - 1, NEW l \in 0 .. Count - 1,
               WindowAt(row, col)[k] = WindowAt(row, col)[l]
        PROVE  k = l
    <3> DEFINE a == RowOffset(k)
               b == RowOffset(l)
    <3>1. EdgeRow(rows, row + a) = EdgeRow(rows, row + b) /\ col + ColOffset(k) = col + ColOffset(l)
      BY <2>5, <2>6
    <3>2. /\ a \in Int /\ -Radius <= a /\ a <= Radius /\ ColOffset(k) \in Int
          /\ b \in Int /\ -Radius <= b /\ b <= Radius /\ ColOffset(l) \in Int
      BY <2>1, OffsetBounds
    <3> HIDE DEF a, b
    <3>3. a = b
      <4>1. rows > 2 * Radius + 1 /\ row \in 0 .. rows - 1
        BY <1>1, <2>2, <2>3
      <4>2. EdgeRow(rows, row + a) = EdgeRow(rows, row + b)
        BY <3>1
      <4>3. \A c \in Int : EdgeRow(rows, c) = IF c < 0 THEN c + (2 * Radius + 1)
                                              ELSE IF c >= rows THEN c - (2 * Radius + 1) ELSE c
        BY <2>3, Zenon DEF EdgeRow
      <4>. QED
        BY <2>3, <2>4, <3>2, <4>1, <4>2, <4>3
    <3>4. ColOffset(k) = ColOffset(l)
      <4>1. \A c, d \in Int : col + c = col + d => c = d
        BY <2>4
      <4>. QED
        BY <3>1, <3>2, <4>1, Zenon
    <3>5. PICK i \in -RadiusX .. RadiusX : ColOffset(k) = i * components /\ i = (k % Across) - RadiusX
      BY <2>1, OffsetFacts
    <3>6. PICK j \in -RadiusX .. RadiusX : ColOffset(l) = j * components /\ j = (l % Across) - RadiusX
      BY <2>1, OffsetFacts
    <3>7. i = j
      <4>1. i \in Int /\ j \in Int
        BY ColumnFacts
      <4>2. i * components = j * components
        BY <3>4, <3>5, <3>6, Zenon
      <4>. QED
        BY <2>3, <4>1, <4>2
    <3>8. k % Across = l % Across
      <4>1. k % Across \in Int /\ l % Across \in Int /\ RadiusX \in Int
        BY ColumnFacts
      <4>. QED
        BY <3>5, <3>6, <3>7, <4>1
    <3>9. k = Across * (a + Radius) + (k % Across) /\ l = Across * (b + Radius) + (l % Across)
      BY <2>1, OffsetFacts DEF a, b
    <3>. QED
      BY <3>3, <3>8, <3>9
  <2>7. \A k \in 0 .. Count - 1 : WindowAt(row, col)[k][1] = EdgeRow(rows, row + RowOffset(k))
    BY <2>5
  <2>. QED
    BY <2>1, <2>6, <2>7 DEF row, col
<1>2. MedianInv => RowsAsAbstracted
  <2> SUFFICES ASSUME MedianInv PROVE RowsAsAbstracted
    OBVIOUS
  <2>1. DOMAIN out_arr = Earlier /\ elements = Count
    BY ColumnFacts DEF MedianInv
  <2>. QED
    BY <1>1, <2>1 DEF RowsAsAbstracted
<1>. QED
  BY <1>2, MedianSafe, PTL
=============================================================================
