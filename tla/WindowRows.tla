---------------------------- MODULE WindowRows -----------------------------
(***************************************************************************)
(* How the median window of Slave() picks rows in the array it was sent,   *)
(* for samples away from the left and right border (MedianWindow models    *)
(* the columns).  A row is represented by the index of the Input row it    *)
(* holds: the properties are about where a sample comes from, never about  *)
(* its value.                                                              *)
(***************************************************************************)
EXTENDS Integers

CONSTANT WindowY               \* WINDOW_Y in Prac3.h

\* A window of one row filters nothing, and one of an even number of rows
\* overruns window[][], which has room for WindowY rows only.
ASSUME WindowYAssumption == WindowY \in Nat /\ WindowY % 2 = 1 /\ WindowY > 1

Radius == WindowY \div 2
Window == -Radius .. Radius

\* A value the program never stored: the result of reading outside an array.
OutOfBounds == -1

\* array[k] for an array of n rows.
Cell(array, n, k) == IF k \in 0 .. n - 1 THEN array[k] ELSE OutOfBounds

\* Row used for row k of the window, where k may lie up to Radius rows above
\* or below the n rows of the array.
EdgeRow(n, k) ==
  IF k < 0 THEN k + WindowY ELSE IF k >= n THEN k - WindowY ELSE k

\* The rows that the median at row y is taken over.
FilterRow(array, n, y) == [j \in Window |-> Cell(array, n, EdgeRow(n, y + j))]

\* The image itself, as an array of rows.
Image(height) == [k \in 0 .. height - 1 |-> k]
=============================================================================
