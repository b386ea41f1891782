------------------------------ MODULE RowStore ------------------------------
(***************************************************************************)
(* What a virtual array of libjpeg promises (jmemmgr.c, "About virtual     *)
(* array management"): rows that are accessed a strip at a time and keep   *)
(* what was written into them.  Nothing is said of buffers and files.      *)
(***************************************************************************)
EXTENDS Integers

CONSTANTS
  rows_in_array, maxaccess,
  pre_zero,             \* rows are zeros until they are written
  Values, Zero          \* the contents a row may have

VARIABLES
  contents,             \* contents[r] of row r
  first_undef_row,
  strip,                \* the strip the caller holds
  seen                  \* and what it sees there

RowNumbers == 0 .. rows_in_array - 1
NoStrip == [start |-> 0, end |-> 0, writable |-> FALSE]
Failed  == [start |-> 0, end |-> 0, writable |-> TRUE]

RowsOf(start, end) == start .. end - 1

Init ==
  /\ contents \in [RowNumbers -> Values]
  /\ first_undef_row = 0
  /\ strip = NoStrip /\ seen = <<>>

\* A writer may not skip rows, and a reader sees rows nobody has written only
\* as zeros.
Illegal(start, end, writable) ==
  \/ end > rows_in_array
  \/ end - start > maxaccess
  \/ writable /\ first_undef_row < start
  \/ ~ writable /\ ~ pre_zero /\ first_undef_row < end

Access(start, end, writable) ==
  /\ ~ Illegal(start, end, writable)
  /\ first_undef_row' = IF writable /\ first_undef_row < end THEN end ELSE first_undef_row
  /\ contents' \in [RowNumbers -> Values]
  /\ \A r \in RowNumbers : r < first_undef_row => contents'[r] = contents[r]
  /\ strip' = [start |-> start, end |-> end, writable |-> writable]
  /\ seen' = [r \in RowsOf(start, end) |->
               IF r < first_undef_row THEN contents[r]
               ELSE IF pre_zero THEN Zero ELSE contents'[r]]
  /\ writable /\ pre_zero =>
       \A r \in RowsOf(start, end) : r >= first_undef_row => contents'[r] = Zero

Refuse(start, end, writable) ==
  /\ Illegal(start, end, writable)
  /\ strip' = Failed /\ seen' = <<>>
  /\ UNCHANGED <<contents, first_undef_row>>

\* The caller stores a row in a strip it may write to.
Write(r, v) ==
  /\ strip.writable
  /\ r \in RowsOf(strip.start, strip.end)
  /\ contents' = [contents EXCEPT ![r] = v]
  /\ seen' = [seen EXCEPT ![r] = v]
  /\ UNCHANGED <<first_undef_row, strip>>

\* free_pool: the array goes with the image.
Release ==
  /\ contents' \in [RowNumbers -> Values]
  /\ first_undef_row' = 0
  /\ strip' = NoStrip /\ seen' = <<>>

Next ==
  \/ Release
  \/ \E start \in RowNumbers, end \in 1 .. rows_in_array + 1, writable \in BOOLEAN :
       /\ start < end /\ strip # Failed
       /\ Access(start, end, writable) \/ Refuse(start, end, writable)
  \/ \E r \in RowNumbers, v \in Values : Write(r, v)

Spec == Init /\ [][Next]_<<contents, first_undef_row, strip, seen>>
=============================================================================
