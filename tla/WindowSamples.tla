--------------------------- MODULE WindowSamples ---------------------------
(***************************************************************************)
(* The samples of the median window, as Slave() and the sequential filter  *)
(* see them.  A sample is the pair <<row, column>> of the C expression     *)
(* array[row][column]; the columns of a pixel are its components, one per  *)
(* colour.  Values of samples are left out: what a median is taken over    *)
(* determines it.                                                          *)
(***************************************************************************)
EXTENDS WindowRows

CONSTANT WindowX               \* WINDOW_X in Prac3.h

\* An even window overruns window[][], which has room for WindowX columns only.
ASSUME WindowXAssumption == WindowX \in Nat /\ WindowX % 2 = 1

RadiusX  == WindowX \div 2
elements == WindowY * WindowX

\* An element of window[][] that the current pixel has not assigned: it holds
\* a sample of an earlier pixel, anywhere since the array was sorted, or
\* nothing at all.
Stale == <<"stale">>

\* The window that is meant: the samples of one colour around <<row, col>>.
Neighbourhood(row, col, components) ==
  {<<row + j, col + (k * components)>> : j \in Window, k \in -RadiusX .. RadiusX}

\* A pixel whose whole window lies in an image of the given size.
Interior(row, col, rows, stride, components) ==
  /\ row \in Radius .. rows - Radius - 1
  /\ col \in RadiusX * components .. stride - (RadiusX * components) - 1
=============================================================================
