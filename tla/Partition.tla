----------------------------- MODULE Partition -----------------------------
(***************************************************************************)
(* How Master() cuts the Height rows of the image into overlapping strips, *)
(* one per slave.  Strips are numbered 0 .. NumSlaves - 1, the indexes of  *)
(* y_portions; rank i + 1 works on strip i.                                *)
(***************************************************************************)
EXTENDS WindowRows

CONSTANT NumProcs              \* numprocs: mpirun -np

ASSUME NumProcsAssumption == NumProcs \in Nat /\ NumProcs >= 2

NumSlaves == NumProcs - 1
Strips    == 0 .. NumSlaves - 1

\* (mutant) Inner strips forget that they have two neighbours.
HaloOneSided(i) == Radius

\* Rows that strip i shares with its neighbours.
Halo(i) == IF i = NumSlaves - 1 \/ i = 0 THEN Radius ELSE 2 * Radius

\* (mutant) Every strip takes a row of the remainder, left or not.
ShareAlways(mod_check) == 1

\* Strips take one row of the remainder each while some of it is left.
Share(mod_check) == IF mod_check > 0 THEN 1 ELSE 0

\* Rows of strip i when mod_check rows of the remainder are left.
Portion(height, mod_check, i) == height \div NumSlaves + Share(mod_check) + Halo(i)

\* (mutant) The rows shared with the next strip are counted once.
NextStartOneRadius(indexer, previous_portion) == indexer + previous_portion - Radius

\* The first row of strip i, from that of strip i - 1 and its portion.
NextStart(indexer, previous_portion) == indexer + previous_portion - 2 * Radius

\* The strip of n rows from row start on, read as the scatter loop does:
\* nothing checks that the rows are rows of Input.
Strip(height, start, n) ==
  [k \in 0 .. n - 1 |-> IF start + k \in 0 .. height - 1 THEN start + k ELSE OutOfBounds]

(***************************************************************************)
(* What the partition is meant to be: strip i owns the rows Start(i) ..    *)
(* Start(i + 1) - 1, and holds Radius more on each side inside the image.  *)
(***************************************************************************)
Least(a, b) == IF a <= b THEN a ELSE b

Start(height, i) == i * (height \div NumSlaves) + Least(i, height % NumSlaves)

FirstRow(height, i) == IF i = 0 THEN 0 ELSE Start(height, i) - Radius

PortionOf(height, i) == Start(height, i + 1) - Start(height, i) + Halo(i)

\* With several slaves, each owning more than Radius rows, no strip is cut by
\* the border of the image and every strip is at least as high as the window.
WellSized(height) == NumSlaves >= 2 /\ height \div NumSlaves > Radius
=============================================================================
