---------------------------- MODULE VirtualArray ----------------------------
(***************************************************************************)
(* A virtual array of jmemmgr.c: a buffer of rows_in_mem rows in memory    *)
(* that moves over the array, and a backing store for the other rows.      *)
(* Sample and block arrays have the same code; contents is one value a row.*)
(***************************************************************************)
EXTENDS Integers

CONSTANTS
  rows_in_array, maxaccess, pre_zero,
  rowsperchunk,        \* the rows of the buffer that are contiguous in memory
  Values, Zero,
  Garbage              \* what memory and files hold before they are written

ASSUME GarbageAssumption == Garbage \in Values
ASSUME RowsAssumption == rows_in_array \in Nat \ {0}
ASSUME AccessAssumption == maxaccess \in Nat \ {0}
ASSUME ChunkAssumption == rowsperchunk \in Nat \ {0}
ASSUME ZeroAssumption == Zero \in Values
ASSUME PreZeroAssumption == pre_zero \in BOOLEAN

VARIABLES
  rows_in_mem,         \* 0 before the array is realized
  b_s_open,
  mem_buffer,
  backing_store,
  cur_start_row,       \* the row that is first in the buffer
  first_undef_row,
  dirty,
  strip,               \* what the caller holds: the strip it accessed last
  seen                 \* and the rows that are there

bufferVars == <<rows_in_mem, b_s_open, mem_buffer, backing_store, cur_start_row, first_undef_row, dirty>>
arrayVars == <<bufferVars, strip, seen>>

RowNumbers == 0 .. rows_in_array - 1
NoStrip == [start |-> 0, end |-> 0, writable |-> FALSE]
Failed  == [start |-> 0, end |-> 0, writable |-> TRUE]

\* A buffer for the whole array, or for some strips of maxaccess rows.
Heights == {rows_in_array} \union {h \in 1 .. rows_in_array : h % maxaccess = 0}

\* request_virt_sarray.
ArrayInit ==
  /\ rows_in_mem = 0 /\ b_s_open = FALSE /\ mem_buffer = <<>>
  /\ backing_store = [r \in RowNumbers |-> Garbage]
  /\ cur_start_row = 0 /\ first_undef_row = 0 /\ dirty = FALSE
  /\ strip = NoStrip /\ seen = <<>>

\* realize_virt_arrays gives the array a buffer of h rows.
RealizeWith(h) ==
  /\ rows_in_mem = 0
  /\ rows_in_mem' = h
  /\ b_s_open' = (h < rows_in_array)
  /\ mem_buffer' = [i \in 0 .. h - 1 |-> Garbage]
  /\ UNCHANGED <<backing_store, cur_start_row, first_undef_row, dirty, strip, seen>>

\* do_sarray_io: the rows of the buffer that are transferred when it starts at
\* row cur, chunk by chunk: defined ones that the array has.
Transferred(cur) ==
  {i \in 0 .. rows_in_mem - 1 :
     LET chunk == (i \div rowsperchunk) * rowsperchunk
     IN  /\ cur + chunk < first_undef_row /\ cur + chunk < rows_in_array
         /\ cur + i < first_undef_row /\ cur + i < rows_in_array}

\* The backing store once the buffer has been flushed, if it had to be.
Flushed ==
  IF dirty
  THEN [r \in RowNumbers |->
          IF r - cur_start_row \in Transferred(cur_start_row) THEN mem_buffer[r - cur_start_row]
          ELSE backing_store[r]]
  ELSE backing_store

\* The buffer after the rows at cur have been read into it.
Loaded(cur) ==
  [i \in 0 .. rows_in_mem - 1 |->
     IF i \in Transferred(cur) THEN Flushed[cur + i] ELSE mem_buffer[i]]

InBuffer(start, end) == start >= cur_start_row /\ end <= cur_start_row + rows_in_mem

\* Forward scans load from the target on, backward scans up to it.
WindowFor(start, end) ==
  IF InBuffer(start, end) THEN cur_start_row
  ELSE IF start > cur_start_row THEN start
  ELSE IF end > rows_in_mem THEN end - rows_in_mem
  ELSE 0

\* What access_virt_sarray refuses before it looks at the buffer.
OutOfReach(start, end) ==
  \/ end > rows_in_array \/ end - start > maxaccess \/ rows_in_mem = 0
  \/ ~ InBuffer(start, end) /\ ~ b_s_open

\* What it refuses once the rows are in the buffer: a writer that has skipped
\* rows, a reader of rows that nobody has written.
Undefined(start, end, writable) ==
  \/ writable /\ first_undef_row < start
  \/ ~ writable /\ ~ pre_zero /\ first_undef_row < end

\* The buffer after it was moved to the rows, if it had to be.
BufferAt(start, end) == IF InBuffer(start, end) THEN mem_buffer ELSE Loaded(WindowFor(start, end))

\* access_virt_sarray when it ends in ERREXIT.
AccessFails(start, end, writable) ==
  /\ \/ OutOfReach(start, end) /\ UNCHANGED bufferVars
     \/ /\ ~ OutOfReach(start, end) /\ Undefined(start, end, writable)
        /\ cur_start_row' = WindowFor(start, end)
        /\ mem_buffer' = BufferAt(start, end)
        /\ backing_store' = IF InBuffer(start, end) THEN backing_store ELSE Flushed
        /\ dirty' = (dirty /\ InBuffer(start, end))
        /\ UNCHANGED <<rows_in_mem, b_s_open, first_undef_row>>
  /\ strip' = Failed /\ seen' = <<>>

\* (mutant) The buffer is only flagged dirty when it is loaded.
DirtyWhenLoaded(moved, writable) == (dirty /\ ~ moved) \/ (moved /\ writable)

DirtyAfter(moved, writable) == (dirty /\ ~ moved) \/ writable

\* (mutant) Moving the buffer does not write back what was changed in it.
AccessUnflushed(start, end, writable) ==
  LET cur == WindowFor(start, end)
      moved == ~ InBuffer(start, end)
      Buffer(i) == IF moved /\ i \in Transferred(cur) THEN backing_store[cur + i] ELSE mem_buffer[i]
  IN  /\ ~ OutOfReach(start, end) /\ ~ Undefined(start, end, writable)
      /\ cur_start_row' = cur
      /\ mem_buffer' = [i \in 0 .. rows_in_mem - 1 |->
           IF pre_zero /\ cur + i \in start .. end - 1 /\ cur + i >= first_undef_row
           THEN Zero ELSE Buffer(i)]
      /\ first_undef_row' = IF writable /\ first_undef_row < end THEN end ELSE first_undef_row
      /\ dirty' = DirtyAfter(moved, writable)
      /\ strip' = [start |-> start, end |-> end, writable |-> writable]
      /\ seen' = [r \in start .. end - 1 |-> mem_buffer'[r - cur]]
      /\ UNCHANGED <<rows_in_mem, b_s_open, backing_store>>

\* access_virt_sarray.
Access(start, end, writable) ==
  LET cur == WindowFor(start, end)
  IN  /\ ~ OutOfReach(start, end) /\ ~ Undefined(start, end, writable)
      /\ cur_start_row' = cur
      /\ backing_store' = IF InBuffer(start, end) THEN backing_store ELSE Flushed
      /\ mem_buffer' = [i \in 0 .. rows_in_mem - 1 |->
           IF pre_zero /\ cur + i \in start .. end - 1 /\ cur + i >= first_undef_row
           THEN Zero ELSE BufferAt(start, end)[i]]
      /\ first_undef_row' = IF writable /\ first_undef_row < end THEN end ELSE first_undef_row
      /\ dirty' = DirtyAfter(~ InBuffer(start, end), writable)
      /\ strip' = [start |-> start, end |-> end, writable |-> writable]
      /\ seen' = [r \in start .. end - 1 |-> mem_buffer'[r - cur]]
      /\ UNCHANGED <<rows_in_mem, b_s_open>>

\* The caller writes a row of the strip, through the pointer it was given.
WriteRow(r, v) ==
  /\ strip.writable
  /\ r \in strip.start .. strip.end - 1
  /\ mem_buffer' = [mem_buffer EXCEPT ![r - cur_start_row] = v]
  /\ seen' = [seen EXCEPT ![r] = v]
  /\ UNCHANGED <<rows_in_mem, b_s_open, backing_store, cur_start_row, first_undef_row, dirty, strip>>

\* What free_pool does to the array.
Free ==
  /\ rows_in_mem' = 0 /\ b_s_open' = FALSE /\ mem_buffer' = <<>>
  /\ cur_start_row' = 0 /\ first_undef_row' = 0 /\ dirty' = FALSE
  /\ backing_store' = [r \in RowNumbers |-> Garbage]
  /\ strip' = NoStrip /\ seen' = <<>>

ArrayNext ==
  \/ \E start \in RowNumbers, end \in 1 .. rows_in_array + 1, writable \in BOOLEAN :
       /\ start < end /\ strip # Failed
       /\ Access(start, end, writable) \/ AccessFails(start, end, writable)
  \/ \E r \in RowNumbers, v \in Values : WriteRow(r, v)

Init == ArrayInit
Next == (\E h \in Heights : RealizeWith(h)) \/ (rows_in_mem > 0 /\ ArrayNext) \/ Free
Spec == Init /\ [][Next]_arrayVars

-----------------------------------------------------------------------------
\* Row r of the array is in the buffer, or it is in the backing store.
Contents ==
  [r \in RowNumbers |->
     IF r \in cur_start_row .. cur_start_row + rows_in_mem - 1 /\ r < first_undef_row
     THEN mem_buffer[r - cur_start_row] ELSE backing_store[r]]

Store == INSTANCE RowStore WITH contents <- Contents

\* jmemmgr.c:485: whatever the height of the buffer and the order of accesses,
\* the caller sees the rows it has written.
ImplementsRowStore == Store!Spec

TypeOK ==
  /\ rows_in_mem \in {0} \union Heights
  /\ b_s_open = (rows_in_mem \in 1 .. rows_in_array - 1)
  /\ mem_buffer \in [0 .. rows_in_mem - 1 -> Values]
  /\ backing_store \in [RowNumbers -> Values]
  /\ cur_start_row \in RowNumbers
  /\ first_undef_row \in 0 .. rows_in_array
  /\ dirty \in BOOLEAN
  /\ strip \in [start : 0 .. rows_in_array, end : 0 .. rows_in_array, writable : BOOLEAN]

\* What the caller holds stays in the buffer, and it sees what is there.
StripInBuffer ==
  /\ strip.start < strip.end => InBuffer(strip.start, strip.end)
  /\ seen = [r \in strip.start .. strip.end - 1 |-> mem_buffer[r - cur_start_row]]

\* Rows that may be written to are defined, and will be flushed.
WritableIsDirty ==
  strip.writable /\ strip.start < strip.end => dirty /\ strip.end <= first_undef_row

\* A buffer that need not be flushed holds what the backing store holds.
CleanIsSaved ==
  ~ dirty =>
    \A r \in RowNumbers :
      r < first_undef_row /\ r \in cur_start_row .. cur_start_row + rows_in_mem - 1 =>
        mem_buffer[r - cur_start_row] = backing_store[r]

Unmoved == rows_in_mem \in {0, rows_in_array} => cur_start_row = 0
Unused  == rows_in_mem = 0 => first_undef_row = 0 /\ ~ dirty /\ strip \in {NoStrip, Failed}

\* The strip that the caller holds is in the buffer whichever rows were accessed
\* before, and a row that only the buffer has is never taken for one that the
\* backing store has.
ArrayInv == TypeOK /\ StripInBuffer /\ WritableIsDirty /\ CleanIsSaved /\ Unmoved /\ Unused
=============================================================================
