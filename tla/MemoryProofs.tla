---------------------------- MODULE MemoryProofs ----------------------------
(***************************************************************************)
(* A virtual array implements a store of rows, for every size of the array *)
(* and of its strips, every height of the buffer and every order of        *)
(* accesses; and the memory manager, which chooses that height, gives back *)
(* what it got, for any number and size of objects and of arrays and       *)
(* whatever memory the system has.                                         *)
(***************************************************************************)
EXTENDS MemoryManager, NumberProofs

USE DEF RowNumbers

\* A buffer has at least the rows of one access, unless it has all rows.
LEMMA HeightFacts ==
  ASSUME NEW h \in Heights
  PROVE  h \in 1 .. rows_in_array /\ (h < rows_in_array => h >= maxaccess)
<1>1. h \in 1 .. rows_in_array
  BY RowsAssumption DEF Heights
<1>2. CASE h = rows_in_array
  BY <1>1, <1>2
<1>3. CASE h % maxaccess = 0
  <2>1. h >= maxaccess
    BY <1>1, <1>3, AccessAssumption
  <2> QED
    BY <1>1, <2>1
<1> QED
  BY <1>1, <1>2, <1>3 DEF Heights

\* The rows that are transferred are the defined ones of the buffer, however it
\* is cut into chunks.
LEMMA TransferFacts ==
  ASSUME TypeOK, NEW cur \in RowNumbers, NEW i \in 0 .. rows_in_mem - 1
  PROVE  i \in Transferred(cur) <=> cur + i < first_undef_row
<1>1. rows_in_mem \in Nat /\ first_undef_row \in 0 .. rows_in_array
  BY HeightFacts, RowsAssumption DEF TypeOK
<1> DEFINE chunk == (i \div rowsperchunk) * rowsperchunk
<1>2. chunk \in Int /\ chunk <= i
  BY ChunkAssumption, <1>1
<1>3. cur + i < first_undef_row => cur + chunk < first_undef_row /\ cur + chunk < rows_in_array
                                     /\ cur + i < rows_in_array
  <2> HIDE DEF chunk
  <2> QED
    BY <1>1, <1>2, RowsAssumption
<1> QED
  BY <1>3 DEF Transferred

\* The window that an access moves the buffer to holds the strip.
LEMMA WindowFacts ==
  ASSUME TypeOK, Unmoved, NEW start \in RowNumbers, NEW end \in 1 .. rows_in_array + 1,
         start < end, ~ OutOfReach(start, end)
  PROVE  /\ WindowFor(start, end) \in RowNumbers
         /\ start >= WindowFor(start, end) /\ end <= WindowFor(start, end) + rows_in_mem
         /\ rows_in_mem = rows_in_array => InBuffer(start, end)
         /\ end <= rows_in_array
<1>1. rows_in_mem \in Heights /\ cur_start_row \in RowNumbers
  BY DEF TypeOK, OutOfReach
<1>2. rows_in_mem \in 1 .. rows_in_array /\ (rows_in_mem < rows_in_array => rows_in_mem >= maxaccess)
  BY <1>1, HeightFacts
<1>3. end <= rows_in_array /\ end - start <= maxaccess
  BY <1>1, <1>2, RowsAssumption, AccessAssumption DEF OutOfReach
<1>4. rows_in_mem = rows_in_array => InBuffer(start, end)
  BY <1>3, <1>1, RowsAssumption DEF Unmoved, InBuffer
<1>5. CASE InBuffer(start, end)
  BY <1>1, <1>3, <1>4, <1>5 DEF WindowFor, InBuffer
<1>6. CASE ~ InBuffer(start, end)
  <2>1. rows_in_mem < rows_in_array /\ rows_in_mem >= maxaccess
    BY <1>2, <1>4, <1>6, RowsAssumption
  <2>2. CASE start > cur_start_row
    BY <2>1, <2>2, <1>1, <1>2, <1>3, <1>4, <1>6, RowsAssumption, AccessAssumption DEF WindowFor
  <2>3. CASE ~ (start > cur_start_row) /\ end > rows_in_mem
    BY <2>1, <2>3, <1>1, <1>2, <1>3, <1>4, <1>6, RowsAssumption, AccessAssumption DEF WindowFor, InBuffer
  <2>4. CASE ~ (start > cur_start_row) /\ ~ (end > rows_in_mem)
    BY <2>1, <2>4, <1>1, <1>2, <1>3, <1>4, <1>6, RowsAssumption, AccessAssumption DEF WindowFor, InBuffer
  <2> QED
    BY <2>2, <2>3, <2>4
<1> QED
  BY <1>5, <1>6

\* What is written back is what the caller has written.
LEMMA FlushedFacts ==
  ASSUME ArrayInv, NEW r \in RowNumbers, r < first_undef_row
  PROVE  /\ Flushed[r] = Contents[r]
         /\ Contents[r] \in Values
<1>1. TypeOK /\ CleanIsSaved
  BY DEF ArrayInv
<1>2. rows_in_mem \in Nat /\ cur_start_row \in RowNumbers
  BY <1>1, HeightFacts, RowsAssumption DEF TypeOK
<1>3. CASE r \in cur_start_row .. cur_start_row + rows_in_mem - 1
  <2>1. r - cur_start_row \in 0 .. rows_in_mem - 1
    BY <1>2, <1>3, RowsAssumption
  <2>2. Contents[r] = mem_buffer[r - cur_start_row]
    BY <1>3 DEF Contents
  <2>3. r - cur_start_row \in Transferred(cur_start_row)
    <3>1. cur_start_row + (r - cur_start_row) = r
      BY <1>2, RowsAssumption
    <3> QED
      BY <2>1, <3>1, <1>1, <1>2, TransferFacts
  <2>4. CASE dirty
    BY <2>2, <2>3, <2>4, <2>1, <1>1 DEF Flushed, TypeOK
  <2>5. CASE ~ dirty
    BY <2>2, <2>5, <2>1, <1>1, <1>3 DEF Flushed, TypeOK, CleanIsSaved
  <2> QED
    BY <2>4, <2>5
<1>4. CASE ~ (r \in cur_start_row .. cur_start_row + rows_in_mem - 1)
  <2>1. ~ (r - cur_start_row \in 0 .. rows_in_mem - 1)
    BY <1>2, <1>4, RowsAssumption
  <2>2. Contents[r] = backing_store[r]
    BY <1>4 DEF Contents
  <2>3. ~ (r - cur_start_row \in Transferred(cur_start_row))
    BY <2>1 DEF Transferred
  <2> QED
    BY <2>2, <2>3, <1>1 DEF Flushed, TypeOK
<1> QED
  BY <1>3, <1>4

\* Wherever the buffer is moved, it has the contents of the rows that are
\* defined.
LEMMA MoveFacts ==
  ASSUME ArrayInv, NEW start \in RowNumbers, NEW end \in 1 .. rows_in_array + 1,
         start < end, ~ OutOfReach(start, end),
         NEW i \in 0 .. rows_in_mem - 1
  PROVE  /\ BufferAt(start, end)[i] \in Values
         /\ WindowFor(start, end) + i < first_undef_row =>
              /\ WindowFor(start, end) + i \in RowNumbers
              /\ BufferAt(start, end)[i] = Contents[WindowFor(start, end) + i]
<1> DEFINE cur == WindowFor(start, end)
           buffer == BufferAt(start, end)
<1>1. TypeOK /\ Unmoved
  BY DEF ArrayInv
<1>2. /\ cur \in RowNumbers /\ start >= cur /\ end <= cur + rows_in_mem /\ end <= rows_in_array
  BY <1>1, WindowFacts
<1>3. rows_in_mem \in Nat /\ first_undef_row \in 0 .. rows_in_array /\ cur_start_row \in RowNumbers
  BY <1>1, HeightFacts, RowsAssumption DEF TypeOK
<1>4. cur + i < first_undef_row => cur + i \in RowNumbers
  BY <1>2, <1>3, RowsAssumption
<1>5. CASE ~ InBuffer(start, end)
  <2>1. buffer[i] = IF i \in Transferred(cur) THEN Flushed[cur + i] ELSE mem_buffer[i]
    BY <1>5 DEF BufferAt, Loaded
  <2>2. CASE cur + i < first_undef_row
    <3>1. i \in Transferred(cur)
      BY <2>2, <1>1, <1>2, TransferFacts
    <3> QED
      BY <2>1, <2>2, <3>1, <1>4, FlushedFacts
  <2>3. CASE ~ (cur + i < first_undef_row)
    <3>1. i \notin Transferred(cur)
      BY <2>3, <1>1, <1>2, TransferFacts
    <3> QED
      BY <2>1, <2>3, <3>1, <1>1 DEF TypeOK
  <2> QED
    BY <2>2, <2>3
<1>6. CASE InBuffer(start, end)
  <2>1. cur = cur_start_row /\ buffer = mem_buffer
    BY <1>6 DEF WindowFor, BufferAt
  <2>2. cur + i < first_undef_row => Contents[cur + i] = mem_buffer[i]
    <3> SUFFICES ASSUME cur + i < first_undef_row
                 PROVE  Contents[cur + i] = mem_buffer[i]
      OBVIOUS
    <3>1. cur + i \in cur_start_row .. cur_start_row + rows_in_mem - 1
           /\ (cur + i) - cur_start_row = i
      BY <2>1, <1>3, RowsAssumption
    <3> QED
      BY <3>1, <1>4 DEF Contents
  <2> QED
    BY <2>1, <2>2, <1>4, <1>1 DEF TypeOK
<1> QED
  BY <1>5, <1>6

\* The state after an access.
LEMMA AccessFacts ==
  ASSUME ArrayInv, NEW start \in RowNumbers, NEW end \in 1 .. rows_in_array + 1,
         NEW writable \in BOOLEAN, start < end, Access(start, end, writable)
  PROVE  /\ cur_start_row' \in RowNumbers
         /\ start >= cur_start_row' /\ end <= cur_start_row' + rows_in_mem /\ end <= rows_in_array
         /\ mem_buffer' \in [0 .. rows_in_mem - 1 -> Values]
         /\ \A i \in 0 .. rows_in_mem - 1 :
              cur_start_row' + i < first_undef_row =>
                /\ cur_start_row' + i \in RowNumbers
                /\ mem_buffer'[i] = Contents[cur_start_row' + i]
         /\ \A i \in 0 .. rows_in_mem - 1 :
              pre_zero /\ cur_start_row' + i \in start .. end - 1 /\ cur_start_row' + i >= first_undef_row
                => mem_buffer'[i] = Zero
         /\ rows_in_mem = rows_in_array => cur_start_row' = cur_start_row /\ InBuffer(start, end)
<1> DEFINE cur == WindowFor(start, end)
           buffer == BufferAt(start, end)
<1>1. TypeOK /\ Unmoved /\ ~ OutOfReach(start, end) /\ cur_start_row' = cur
  BY DEF ArrayInv, Access
<1>2. /\ cur \in RowNumbers /\ start >= cur /\ end <= cur + rows_in_mem /\ end <= rows_in_array
      /\ rows_in_mem = rows_in_array => InBuffer(start, end)
  BY <1>1, WindowFacts
<1>3. rows_in_mem \in Nat /\ first_undef_row \in 0 .. rows_in_array
  BY <1>1, HeightFacts, RowsAssumption DEF TypeOK
<1>4. mem_buffer' = [i \in 0 .. rows_in_mem - 1 |->
           IF pre_zero /\ cur + i \in start .. end - 1 /\ cur + i >= first_undef_row
           THEN Zero ELSE buffer[i]]
  BY DEF Access
<1>5. \A i \in 0 .. rows_in_mem - 1 :
         /\ buffer[i] \in Values
         /\ cur + i < first_undef_row => cur + i \in RowNumbers /\ buffer[i] = Contents[cur + i]
  BY <1>1, MoveFacts
<1>6. mem_buffer' \in [0 .. rows_in_mem - 1 -> Values]
  BY <1>4, <1>5, ZeroAssumption
<1>7. rows_in_mem = rows_in_array => cur = cur_start_row /\ InBuffer(start, end)
  BY <1>2 DEF WindowFor
<1>8. ASSUME NEW i \in 0 .. rows_in_mem - 1, cur + i < first_undef_row
      PROVE  cur + i \in RowNumbers /\ mem_buffer'[i] = Contents[cur + i]
  <2>1. ~ (cur + i >= first_undef_row)
    BY <1>8, <1>2, <1>3, RowsAssumption
  <2> QED
    BY <1>4, <1>5, <1>8, <2>1
<1>9. ASSUME NEW i \in 0 .. rows_in_mem - 1, pre_zero, cur + i \in start .. end - 1,
             cur + i >= first_undef_row
      PROVE  mem_buffer'[i] = Zero
  BY <1>4, <1>9
<1> HIDE DEF cur, buffer
<1> QED
  BY <1>1, <1>2, <1>6, <1>7, <1>8, <1>9

-----------------------------------------------------------------------------
\* A row of the buffer by its place in the array, and back.
LEMMA Offset ==
  ASSUME NEW c \in Int, NEW n \in Int, NEW q \in c .. c + n - 1
  PROVE  q - c \in 0 .. n - 1 /\ c + (q - c) = q
OBVIOUS

\* A strip inside the buffer.
LEMMA Within ==
  ASSUME NEW s \in Int, NEW e \in Int, NEW c \in Int, NEW n \in Int, s >= c, e <= c + n,
         NEW q \in s .. e - 1
  PROVE  q \in c .. c + n - 1
OBVIOUS

\* The facts about a state that all steps use.
LEMMA StateFacts ==
  ASSUME ArrayInv
  PROVE  /\ rows_in_mem \in 0 .. rows_in_array /\ cur_start_row \in RowNumbers
         /\ first_undef_row \in 0 .. rows_in_array /\ rows_in_array \in Nat \ {0}
         /\ strip.start \in 0 .. rows_in_array /\ strip.end \in 0 .. rows_in_array
         /\ mem_buffer \in [0 .. rows_in_mem - 1 -> Values]
         /\ backing_store \in [RowNumbers -> Values]
  BY HeightFacts, RowsAssumption DEF ArrayInv, TypeOK

\* What is flushed is a possible backing store.
LEMMA FlushedType ==
  ASSUME ArrayInv
  PROVE  Flushed \in [RowNumbers -> Values]
<1>1. ASSUME NEW r \in RowNumbers, r - cur_start_row \in Transferred(cur_start_row)
      PROVE  mem_buffer[r - cur_start_row] \in Values
  BY <1>1, StateFacts DEF Transferred
<1> QED
  BY <1>1, StateFacts DEF Flushed

\* An array that was only requested.
LEMMA InitInv == Init => ArrayInv
<1> SUFFICES ASSUME Init PROVE ArrayInv
  OBVIOUS
<1> USE DEF Init, ArrayInit
<1>1. TypeOK
  BY RowsAssumption, GarbageAssumption DEF TypeOK, NoStrip
<1>2. StripInBuffer
  BY DEF StripInBuffer, NoStrip
<1> QED
  BY <1>1, <1>2, RowsAssumption
  DEF ArrayInv, WritableIsDirty, CleanIsSaved, Unmoved, Unused, NoStrip

\* A buffer that was just allocated holds no row yet.
LEMMA RealizeInv ==
  ASSUME ArrayInv, NEW h \in Heights, RealizeWith(h)
  PROVE  ArrayInv'
<1>1. h \in 1 .. rows_in_array
  BY HeightFacts
<1>2. first_undef_row = 0 /\ ~ dirty /\ strip \in {NoStrip, Failed}
  BY DEF RealizeWith, ArrayInv, Unused
<1>3. strip.start = 0 /\ strip.end = 0
  BY <1>2 DEF NoStrip, Failed
<1>4. TypeOK'
  <2>1. b_s_open' = (rows_in_mem' \in 1 .. rows_in_array - 1)
    BY <1>1, RowsAssumption DEF RealizeWith
  <2>2. mem_buffer' \in [0 .. rows_in_mem' - 1 -> Values]
    BY GarbageAssumption DEF RealizeWith
  <2> QED
    BY <2>1, <2>2 DEF RealizeWith, ArrayInv, TypeOK
<1>5. StripInBuffer'
  <2>1. seen = <<>>
    BY <1>3 DEF ArrayInv, StripInBuffer
  <2>2. strip' = strip /\ seen' = <<>>
    BY <2>1 DEF RealizeWith
  <2> QED
    BY <1>3, <2>2 DEF StripInBuffer
<1>6. WritableIsDirty' /\ CleanIsSaved'
  BY <1>2, <1>3, RowsAssumption DEF RealizeWith, WritableIsDirty, CleanIsSaved
<1>7. Unmoved' /\ Unused'
  BY <1>1 DEF RealizeWith, ArrayInv, Unmoved, Unused
<1> QED
  BY <1>4, <1>5, <1>6, <1>7 DEF ArrayInv

\* The buffer is flushed before it is moved, and marked when it may be changed.
LEMMA AccessInv ==
  ASSUME ArrayInv, rows_in_mem > 0, NEW start \in RowNumbers, NEW end \in 1 .. rows_in_array + 1,
         NEW writable \in BOOLEAN, start < end, Access(start, end, writable)
  PROVE  ArrayInv'
<1>1. /\ cur_start_row' \in RowNumbers
      /\ start >= cur_start_row' /\ end <= cur_start_row' + rows_in_mem /\ end <= rows_in_array
      /\ mem_buffer' \in [0 .. rows_in_mem - 1 -> Values]
      /\ rows_in_mem = rows_in_array => cur_start_row' = cur_start_row /\ InBuffer(start, end)
  BY AccessFacts
<1>2. /\ rows_in_mem' = rows_in_mem /\ b_s_open' = b_s_open
      /\ strip' = [start |-> start, end |-> end, writable |-> writable]
      /\ first_undef_row' = IF writable /\ first_undef_row < end THEN end ELSE first_undef_row
      /\ dirty' = DirtyAfter(~ InBuffer(start, end), writable)
      /\ seen' = [r \in start .. end - 1 |-> mem_buffer'[r - WindowFor(start, end)]]
      /\ cur_start_row' = WindowFor(start, end)
  BY DEF Access
<1>3. first_undef_row' \in 0 .. rows_in_array /\ first_undef_row' >= first_undef_row
  BY <1>1, <1>2, StateFacts
<1>4. backing_store' = IF InBuffer(start, end) THEN backing_store ELSE Flushed
  BY DEF Access
<1>5. TypeOK'
  <2>1. dirty' \in BOOLEAN
    BY <1>2 DEF DirtyAfter, ArrayInv, TypeOK
  <2>2. b_s_open' = (rows_in_mem' \in 1 .. rows_in_array - 1)
    BY <1>2 DEF ArrayInv, TypeOK
  <2>3. strip' \in [start : 0 .. rows_in_array, end : 0 .. rows_in_array, writable : BOOLEAN]
    BY <1>1, <1>2, StateFacts
  <2>4. backing_store' \in [RowNumbers -> Values]
    BY <1>4, FlushedType, StateFacts
  <2> QED
    BY <1>1, <1>2, <1>3, <2>1, <2>2, <2>3, <2>4 DEF ArrayInv, TypeOK
<1>6. StripInBuffer'
  BY <1>1, <1>2 DEF StripInBuffer, InBuffer
<1>7. WritableIsDirty'
  <2>1. strip'.end = end /\ strip'.writable = writable
    BY <1>2
  <2>2. writable => dirty'
    BY <1>2 DEF DirtyAfter
  <2>3. writable => end <= first_undef_row'
    <3>1. first_undef_row \in Int /\ end \in Int
      BY StateFacts
    <3> QED
      BY <3>1, <1>2
  <2> QED
    BY <2>1, <2>2, <2>3 DEF WritableIsDirty
<1>8. CleanIsSaved'
  <2> SUFFICES ASSUME ~ dirty', NEW r \in RowNumbers, r < first_undef_row',
                      r \in cur_start_row' .. cur_start_row' + rows_in_mem - 1
               PROVE  mem_buffer'[r - cur_start_row'] = backing_store'[r]
    BY <1>2 DEF CleanIsSaved
  <2>1. ~ writable /\ (~ InBuffer(start, end) \/ ~ dirty)
    BY <1>2 DEF DirtyAfter
  <2>2. r < first_undef_row
    BY <1>2, <2>1
  <2>3. r - cur_start_row' \in 0 .. rows_in_mem - 1 /\ cur_start_row' + (r - cur_start_row') = r
    <3>1. cur_start_row' \in Int /\ rows_in_mem \in Int
      BY <1>1, StateFacts
    <3>2. r \in cur_start_row' .. cur_start_row' + rows_in_mem - 1
      OBVIOUS
    <3> QED
      BY ONLY <3>1, <3>2, Offset
  <2>4. mem_buffer'[r - cur_start_row'] = Contents[r]
    <3> DEFINE i == r - cur_start_row'
    <3>1. i \in 0 .. rows_in_mem - 1 /\ cur_start_row' + i = r
      BY <2>3
    <3> HIDE DEF i
    <3>2. mem_buffer'[i] = Contents[cur_start_row' + i]
      BY <3>1, <2>2, AccessFacts
    <3> QED
      BY <3>1, <3>2 DEF i
  <2>5. CASE ~ InBuffer(start, end)
    BY <2>4, <2>5, <2>2, <1>4, FlushedFacts
  <2>6. CASE ~ dirty
    <3>1. Flushed = backing_store
      BY <2>6 DEF Flushed
    <3> QED
      BY <3>1, <2>4, <2>2, <1>4, FlushedFacts
  <2> QED
    BY <2>1, <2>5, <2>6
<1>9. Unmoved' /\ Unused'
  BY <1>1, <1>2, StateFacts DEF ArrayInv, Unmoved, Unused
<1> QED
  BY <1>5, <1>6, <1>7, <1>8, <1>9 DEF ArrayInv

\* A refused access may have moved the buffer.
LEMMA AccessFailsInv ==
  ASSUME ArrayInv, rows_in_mem > 0, NEW start \in RowNumbers, NEW end \in 1 .. rows_in_array + 1,
         NEW writable \in BOOLEAN, start < end, AccessFails(start, end, writable)
  PROVE  ArrayInv'
<1>1. strip' = Failed /\ seen' = <<>> /\ rows_in_mem' = rows_in_mem /\ b_s_open' = b_s_open
      /\ first_undef_row' = first_undef_row
  BY DEF AccessFails, bufferVars
<1>2. StripInBuffer'
  BY <1>1 DEF StripInBuffer, Failed
<1>3. strip' \in [start : 0 .. rows_in_array, end : 0 .. rows_in_array, writable : BOOLEAN]
  BY <1>1, RowsAssumption DEF Failed
<1>4. WritableIsDirty'
  BY <1>1 DEF WritableIsDirty, Failed
<1>5. Unused'
  <2>1. rows_in_mem # 0
    BY StateFacts
  <2> QED
    BY <1>1, <2>1 DEF Unused
<1>6. CASE OutOfReach(start, end) /\ UNCHANGED bufferVars
  <2>1. TypeOK'
    BY <1>3, <1>6 DEF ArrayInv, TypeOK, bufferVars
  <2>2. CleanIsSaved' /\ Unmoved'
    BY <1>6 DEF ArrayInv, CleanIsSaved, Unmoved, bufferVars
  <2> QED
    BY <1>2, <1>4, <1>5, <2>1, <2>2 DEF ArrayInv
<1>7. CASE ~ OutOfReach(start, end) /\ ~ UNCHANGED bufferVars
  <2>1. /\ cur_start_row' = WindowFor(start, end)
        /\ mem_buffer' = BufferAt(start, end)
        /\ backing_store' = IF InBuffer(start, end) THEN backing_store ELSE Flushed
        /\ dirty' = (dirty /\ InBuffer(start, end))
    BY <1>7 DEF AccessFails
  <2>2. /\ WindowFor(start, end) \in RowNumbers
        /\ rows_in_mem = rows_in_array => InBuffer(start, end)
    BY <1>7, WindowFacts DEF ArrayInv
  <2>3. mem_buffer' \in [0 .. rows_in_mem - 1 -> Values]
    <3>1. \A i \in 0 .. rows_in_mem - 1 : BufferAt(start, end)[i] \in Values
      BY <1>7, MoveFacts
    <3>2. BufferAt(start, end) = [i \in 0 .. rows_in_mem - 1 |-> BufferAt(start, end)[i]]
      BY StateFacts DEF BufferAt, Loaded
    <3> QED
      BY <2>1, <3>1, <3>2
  <2>4. TypeOK'
    <3>1. backing_store' \in [RowNumbers -> Values]
      BY <2>1, FlushedType, StateFacts
    <3>2. dirty' \in BOOLEAN
      BY <2>1
    <3>3. b_s_open' = (rows_in_mem' \in 1 .. rows_in_array - 1)
      BY <1>1 DEF ArrayInv, TypeOK
    <3> QED
      BY <1>1, <1>3, <2>1, <2>2, <2>3, <3>1, <3>2, <3>3 DEF ArrayInv, TypeOK
  <2>5. CleanIsSaved'
    <3> SUFFICES ASSUME ~ dirty', NEW r \in RowNumbers, r < first_undef_row',
                        r \in cur_start_row' .. cur_start_row' + rows_in_mem - 1
                 PROVE  mem_buffer'[r - cur_start_row'] = backing_store'[r]
      BY <1>1 DEF CleanIsSaved
    <3> DEFINE i == r - cur_start_row'
    <3>1. i \in 0 .. rows_in_mem - 1 /\ cur_start_row' + i = r
      <4>1. cur_start_row' \in Int /\ rows_in_mem \in Int
        BY <2>1, <2>2, StateFacts
      <4>2. r \in cur_start_row' .. cur_start_row' + rows_in_mem - 1
        OBVIOUS
      <4> QED
        BY ONLY <4>1, <4>2, Offset
    <3> HIDE DEF i
    <3>2. WindowFor(start, end) + i < first_undef_row
      BY <1>1, <2>1, <3>1
    <3>3. mem_buffer'[i] = Contents[r]
      BY <1>7, <2>1, <3>1, <3>2, MoveFacts
    <3>4. Flushed[r] = Contents[r]
      BY <1>1, FlushedFacts
    <3>5. CASE ~ InBuffer(start, end)
      BY <2>1, <3>3, <3>4, <3>5 DEF i
    <3>6. CASE InBuffer(start, end)
      <4>1. ~ dirty
        BY <2>1, <3>6
      <4>2. Flushed = backing_store
        BY <4>1 DEF Flushed
      <4> QED
        BY <2>1, <3>3, <3>4, <3>6, <4>2 DEF i
    <3> QED
      BY <3>5, <3>6
  <2>6. Unmoved'
    <3>1. rows_in_mem = rows_in_array => WindowFor(start, end) = cur_start_row
      BY <2>2 DEF WindowFor
    <3> QED
      BY <1>1, <2>1, <3>1, StateFacts DEF ArrayInv, Unmoved
  <2> QED
    BY <1>2, <1>4, <1>5, <2>4, <2>5, <2>6 DEF ArrayInv
<1>8. CASE ~ OutOfReach(start, end) /\ UNCHANGED bufferVars
  <2>1. TypeOK'
    BY <1>3, <1>8 DEF ArrayInv, TypeOK, bufferVars
  <2>2. CleanIsSaved' /\ Unmoved'
    BY <1>8 DEF ArrayInv, CleanIsSaved, Unmoved, bufferVars
  <2> QED
    BY <1>2, <1>4, <1>5, <2>1, <2>2 DEF ArrayInv
<1> QED
  BY <1>6, <1>7, <1>8 DEF AccessFails

\* The caller writes into the strip it holds, which will be flushed.
LEMMA WriteRowInv ==
  ASSUME ArrayInv, rows_in_mem > 0, NEW r \in RowNumbers, NEW v \in Values, WriteRow(r, v)
  PROVE  ArrayInv'
<1>1. /\ strip.writable /\ r \in strip.start .. strip.end - 1
      /\ mem_buffer' = [mem_buffer EXCEPT ![r - cur_start_row] = v]
      /\ seen' = [seen EXCEPT ![r] = v]
      /\ UNCHANGED <<rows_in_mem, b_s_open, backing_store, cur_start_row, first_undef_row, dirty, strip>>
  BY DEF WriteRow
<1>2. strip.start < strip.end
  BY <1>1, StateFacts
<1>3. InBuffer(strip.start, strip.end) /\ dirty
      /\ seen = [q \in strip.start .. strip.end - 1 |-> mem_buffer[q - cur_start_row]]
  BY <1>1, <1>2 DEF ArrayInv, StripInBuffer, WritableIsDirty
<1>4. \A q \in strip.start .. strip.end - 1 : q - cur_start_row \in 0 .. rows_in_mem - 1
  BY <1>3, StateFacts DEF InBuffer
<1>5. mem_buffer' \in [0 .. rows_in_mem - 1 -> Values]
  BY <1>1, StateFacts
<1>6. TypeOK'
  BY <1>1, <1>5 DEF ArrayInv, TypeOK
<1>7. seen' = [q \in strip.start .. strip.end - 1 |-> mem_buffer'[q - cur_start_row]]
  <2>1. ASSUME NEW q \in strip.start .. strip.end - 1
        PROVE  seen'[q] = mem_buffer'[q - cur_start_row]
    <3>1. q - cur_start_row = r - cur_start_row => q = r
      BY <1>1, StateFacts
    <3> QED
      BY <3>1, <1>1, <1>3, <1>4, StateFacts
  <2> QED
    BY <2>1, <1>1, <1>3
<1>8. StripInBuffer'
  <2>1. strip'.start >= cur_start_row' /\ strip'.end <= cur_start_row' + rows_in_mem'
    BY <1>1, <1>3 DEF InBuffer
  <2>2. strip' = strip
    BY <1>1
  <2>3. seen' = [q \in strip'.start .. strip'.end - 1 |-> mem_buffer'[q - cur_start_row']]
    BY <1>1, <1>7
  <2> QED
    BY <2>1, <2>3 DEF StripInBuffer, InBuffer
<1>9. WritableIsDirty' /\ CleanIsSaved' /\ Unmoved' /\ Unused'
  BY <1>1, <1>3 DEF ArrayInv, WritableIsDirty, CleanIsSaved, Unmoved, Unused
<1> QED
  BY <1>6, <1>8, <1>9 DEF ArrayInv

\* free_pool: the array is as if it had only been requested.
LEMMA FreeInv ==
  ASSUME Free
  PROVE  ArrayInv'
<1>1. TypeOK'
  BY RowsAssumption, GarbageAssumption DEF Free, TypeOK, NoStrip
<1>2. StripInBuffer'
  BY DEF Free, StripInBuffer, NoStrip
<1> QED
  BY <1>1, <1>2, RowsAssumption
  DEF Free, ArrayInv, WritableIsDirty, CleanIsSaved, Unmoved, Unused, NoStrip

\* No step of the array breaks the invariant.
LEMMA NextInv == ArrayInv /\ [Next]_arrayVars => ArrayInv'
<1> SUFFICES ASSUME ArrayInv, [Next]_arrayVars PROVE ArrayInv'
  OBVIOUS
<1>1. CASE UNCHANGED arrayVars
  BY <1>1 DEF arrayVars, bufferVars, ArrayInv, TypeOK, StripInBuffer, InBuffer, WritableIsDirty,
     CleanIsSaved, Unmoved, Unused
<1>2. ASSUME NEW h \in Heights, RealizeWith(h) PROVE ArrayInv'
  BY <1>2, RealizeInv
<1>3. ASSUME rows_in_mem > 0, ArrayNext PROVE ArrayInv'
  <2>1. ASSUME NEW start \in RowNumbers, NEW end \in 1 .. rows_in_array + 1, NEW writable \in BOOLEAN,
               start < end, Access(start, end, writable) \/ AccessFails(start, end, writable)
        PROVE  ArrayInv'
    BY <1>3, <2>1, AccessInv, AccessFailsInv
  <2>2. ASSUME NEW r \in RowNumbers, NEW v \in Values, WriteRow(r, v) PROVE ArrayInv'
    BY <1>3, <2>2, WriteRowInv
  <2> QED
    BY <1>3, <2>1, <2>2 DEF ArrayNext
<1>4. CASE Free
  BY <1>4, FreeInv
<1> QED
  BY <1>1, <1>2, <1>3, <1>4 DEF Next

\* jmemmgr.c:764-891: the strip that the caller holds is in the buffer, and a
\* row that only the buffer has is flushed before the buffer is moved, whatever
\* the sizes and the order of accesses.
THEOREM ArraySafe == Spec => []ArrayInv
<1> QED
  BY InitInv, NextInv, PTL DEF Spec

-----------------------------------------------------------------------------
\* Every row has a content, in the state and in the one after it.
LEMMA ContentsType == ArrayInv => Contents \in [RowNumbers -> Values]
<1> SUFFICES ASSUME ArrayInv PROVE Contents \in [RowNumbers -> Values]
  OBVIOUS
<1>1. ASSUME NEW r \in RowNumbers, r \in cur_start_row .. cur_start_row + rows_in_mem - 1
      PROVE  mem_buffer[r - cur_start_row] \in Values
  <2>1. cur_start_row \in Int /\ rows_in_mem \in Int
    BY StateFacts
  <2>2. r - cur_start_row \in 0 .. rows_in_mem - 1
    BY ONLY <1>1, <2>1, Offset
  <2> QED
    BY <2>2, StateFacts
<1> QED
  BY <1>1, StateFacts DEF Contents

LEMMA NextContentsType == ArrayInv' => Contents' \in [RowNumbers -> Values]
<1>1. (ArrayInv => Contents \in [RowNumbers -> Values])'
  BY ContentsType, PTL
<1> QED
  BY <1>1

\* An access changes no row that was defined, wherever it moves the buffer.
LEMMA DefinedRowsKept ==
  ASSUME ArrayInv, ArrayInv', NEW start \in RowNumbers, NEW end \in 1 .. rows_in_array + 1,
         NEW writable \in BOOLEAN, start < end, Access(start, end, writable),
         NEW r \in RowNumbers, r < first_undef_row
  PROVE  Contents'[r] = Contents[r]
<1>1. /\ rows_in_mem' = rows_in_mem
      /\ first_undef_row' = IF writable /\ first_undef_row < end THEN end ELSE first_undef_row
      /\ cur_start_row' = WindowFor(start, end)
      /\ backing_store' = IF InBuffer(start, end) THEN backing_store ELSE Flushed
  BY DEF Access
<1>2. r < first_undef_row'
  <2>1. first_undef_row \in Int /\ end \in Int /\ r \in Int
    BY StateFacts
  <2> QED
    BY <1>1, <2>1
<1>3. CASE r \in cur_start_row' .. cur_start_row' + rows_in_mem - 1
  <2> DEFINE i == r - cur_start_row'
  <2>1. cur_start_row' \in Int /\ rows_in_mem \in Int
    BY AccessFacts, StateFacts
  <2>2. i \in 0 .. rows_in_mem - 1 /\ cur_start_row' + i = r
    BY ONLY <1>3, <2>1, Offset
  <2>3. Contents'[r] = mem_buffer'[i]
    BY <1>1, <1>2, <1>3 DEF Contents
  <2> HIDE DEF i
  <2>4. mem_buffer'[i] = Contents[cur_start_row' + i]
    BY <2>2, AccessFacts
  <2> QED
    BY <2>2, <2>3, <2>4
<1>4. CASE ~ (r \in cur_start_row' .. cur_start_row' + rows_in_mem - 1)
  <2>1. Contents'[r] = backing_store'[r]
    BY <1>1, <1>4 DEF Contents
  <2>2. CASE ~ InBuffer(start, end)
    BY <2>1, <2>2, <1>1, FlushedFacts
  <2>3. CASE InBuffer(start, end)
    <3>1. cur_start_row' = cur_start_row
      BY <1>1, <2>3 DEF WindowFor
    <3>2. Contents[r] = backing_store[r]
      BY <3>1, <1>4 DEF Contents
    <3> QED
      BY <3>2, <2>1, <2>3, <1>1
  <2> QED
    BY <2>2, <2>3
<1> QED
  BY <1>3, <1>4

\* What the caller sees of an access is what the store holds.
LEMMA StripSeen ==
  ASSUME ArrayInv, ArrayInv', NEW start \in RowNumbers, NEW end \in 1 .. rows_in_array + 1,
         NEW writable \in BOOLEAN, start < end, Access(start, end, writable),
         NEW r \in start .. end - 1
  PROVE  /\ r \in RowNumbers
         /\ mem_buffer'[r - cur_start_row'] =
              IF r < first_undef_row THEN Contents[r] ELSE IF pre_zero THEN Zero ELSE Contents'[r]
         /\ writable /\ pre_zero /\ r >= first_undef_row => Contents'[r] = Zero
<1> DEFINE i == r - cur_start_row'
<1>1. /\ cur_start_row' \in Int /\ rows_in_mem \in Int /\ first_undef_row \in Int /\ r \in Int
      /\ start \in Int /\ end \in Int /\ start >= 0
      /\ start >= cur_start_row' /\ end <= cur_start_row' + rows_in_mem /\ end <= rows_in_array
  BY AccessFacts, StateFacts
<1>2. r \in RowNumbers
  BY <1>1, StateFacts
<1>3. r \in cur_start_row' .. cur_start_row' + rows_in_mem - 1
  <2>1. r \in start .. end - 1
    OBVIOUS
  <2> QED
    BY ONLY <1>1, <2>1, Within
<1>4. i \in 0 .. rows_in_mem - 1 /\ cur_start_row' + i = r
  BY ONLY <1>1, <1>3, Offset
<1>5. /\ rows_in_mem' = rows_in_mem
      /\ first_undef_row' = IF writable /\ first_undef_row < end THEN end ELSE first_undef_row
      /\ ~ (~ writable /\ ~ pre_zero /\ first_undef_row < end)
  BY DEF Access, Undefined
<1>6. r < first_undef_row' => Contents'[r] = mem_buffer'[i]
  BY <1>2, <1>3, <1>5 DEF Contents
<1> HIDE DEF i
<1>7. r < first_undef_row => mem_buffer'[i] = Contents[r]
  BY <1>4, AccessFacts
<1>8. pre_zero /\ r >= first_undef_row => mem_buffer'[i] = Zero
  BY <1>4, AccessFacts
<1>9. writable => r < first_undef_row'
  BY <1>1, <1>5
<1>10. ~ (r < first_undef_row) => r >= first_undef_row
  BY <1>1
<1>11. ~ (r < first_undef_row) /\ ~ pre_zero => writable
  BY <1>1, <1>5
<1>12. mem_buffer'[i] =
         IF r < first_undef_row THEN Contents[r] ELSE IF pre_zero THEN Zero ELSE Contents'[r]
  BY <1>6, <1>7, <1>8, <1>9, <1>10, <1>11
<1> QED
  BY <1>2, <1>6, <1>8, <1>9, <1>12 DEF i

\* An access of the array is one of the store.
LEMMA AccessStep ==
  ASSUME ArrayInv, ArrayInv', NEW start \in RowNumbers, NEW end \in 1 .. rows_in_array + 1,
         NEW writable \in BOOLEAN, start < end, Access(start, end, writable)
  PROVE  Store!Access(start, end, writable)
<1>1. /\ first_undef_row' = IF writable /\ first_undef_row < end THEN end ELSE first_undef_row
      /\ cur_start_row' = WindowFor(start, end)
      /\ strip' = [start |-> start, end |-> end, writable |-> writable]
      /\ seen' = [r \in start .. end - 1 |-> mem_buffer'[r - WindowFor(start, end)]]
  BY DEF Access
<1>2. ~ Store!Illegal(start, end, writable)
  BY DEF Access, OutOfReach, Undefined, Store!Illegal
<1>3. Contents' \in [Store!RowNumbers -> Values]
  BY NextContentsType DEF Store!RowNumbers
<1>4. \A r \in Store!RowNumbers : r < first_undef_row => Contents'[r] = Contents[r]
  BY DefinedRowsKept DEF Store!RowNumbers
<1>5. \A r \in start .. end - 1 :
        mem_buffer'[r - cur_start_row'] =
          IF r < first_undef_row THEN Contents[r] ELSE IF pre_zero THEN Zero ELSE Contents'[r]
  BY StripSeen
<1>6. seen' = [r \in Store!RowsOf(start, end) |->
                IF r < first_undef_row THEN Contents[r] ELSE IF pre_zero THEN Zero ELSE Contents'[r]]
  BY <1>1, <1>5 DEF Store!RowsOf
<1>7. writable /\ pre_zero =>
        \A r \in Store!RowsOf(start, end) : r >= first_undef_row => Contents'[r] = Zero
  BY StripSeen DEF Store!RowsOf
<1> QED
  BY <1>1, <1>2, <1>3, <1>4, <1>6, <1>7 DEF Store!Access

\* Moving the buffer changes the contents of no row, not even of those that are
\* not defined.
LEMMA MovedContents ==
  ASSUME ArrayInv, NEW start \in RowNumbers, NEW end \in 1 .. rows_in_array + 1,
         start < end, ~ OutOfReach(start, end), NEW r \in RowNumbers,
         rows_in_mem' = rows_in_mem, first_undef_row' = first_undef_row,
         cur_start_row' = WindowFor(start, end), WindowFor(start, end) \in RowNumbers,
         mem_buffer' = BufferAt(start, end),
         backing_store' = IF InBuffer(start, end) THEN backing_store ELSE Flushed
  PROVE  Contents'[r] = Contents[r]
<1>1. CASE r \in cur_start_row' .. cur_start_row' + rows_in_mem - 1 /\ r < first_undef_row
  <2> DEFINE i == r - cur_start_row'
  <2>1. cur_start_row' \in Int /\ rows_in_mem \in Int
    BY StateFacts
  <2>2. i \in 0 .. rows_in_mem - 1 /\ cur_start_row' + i = r
    BY ONLY <1>1, <2>1, Offset
  <2>3. Contents'[r] = mem_buffer'[i]
    BY <1>1 DEF Contents
  <2> HIDE DEF i
  <2>4. WindowFor(start, end) + i < first_undef_row
    BY <1>1, <2>2
  <2> QED
    BY <2>2, <2>3, <2>4, MoveFacts
<1>2. CASE ~ (r \in cur_start_row' .. cur_start_row' + rows_in_mem - 1) /\ r < first_undef_row
  <2>1. Contents'[r] = backing_store'[r]
    BY <1>2 DEF Contents
  <2>2. CASE InBuffer(start, end)
    BY <1>2, <2>1, <2>2 DEF Contents, WindowFor
  <2>3. CASE ~ InBuffer(start, end)
    BY <1>2, <2>1, <2>3, FlushedFacts
  <2> QED
    BY <2>2, <2>3
<1>3. CASE ~ (r < first_undef_row)
  <2>1. Contents'[r] = backing_store'[r] /\ Contents[r] = backing_store[r]
    BY <1>3 DEF Contents
  <2>2. ~ (r - cur_start_row \in Transferred(cur_start_row))
    <3>1. cur_start_row + (r - cur_start_row) = r
      BY StateFacts
    <3> QED
      BY <1>3, <3>1 DEF Transferred
  <2>3. Flushed[r] = backing_store[r]
    BY <2>2 DEF Flushed
  <2> QED
    BY <2>1, <2>3
<1> QED
  BY <1>1, <1>2, <1>3

\* The buffer is no reason to refuse an access: without a backing store it has
\* all rows.
LEMMA RefuseStep ==
  ASSUME ArrayInv, rows_in_mem > 0, NEW start \in RowNumbers, NEW end \in 1 .. rows_in_array + 1,
         NEW writable \in BOOLEAN, start < end, AccessFails(start, end, writable)
  PROVE  Store!Refuse(start, end, writable)
<1>1. strip' = Failed /\ seen' = <<>> /\ first_undef_row' = first_undef_row
      /\ rows_in_mem' = rows_in_mem
  BY DEF AccessFails, bufferVars
<1>2. ~ b_s_open => rows_in_mem = rows_in_array /\ cur_start_row = 0
  <2>1. b_s_open = (rows_in_mem \in 1 .. rows_in_array - 1)
    BY DEF ArrayInv, TypeOK
  <2>2. ~ (rows_in_mem \in 1 .. rows_in_array - 1) => rows_in_mem = rows_in_array
    BY StateFacts
  <2> QED
    BY <2>1, <2>2 DEF ArrayInv, Unmoved
<1>3. rows_in_mem = rows_in_array /\ cur_start_row = 0 /\ ~ (end > rows_in_array) => InBuffer(start, end)
  BY RowsAssumption DEF InBuffer
<1>4. rows_in_mem # 0
  BY StateFacts
<1>5. Store!Illegal(start, end, writable)
  BY <1>2, <1>3, <1>4 DEF AccessFails, OutOfReach, Undefined, Store!Illegal
<1>6. Contents' = Contents
  <2>1. CASE UNCHANGED bufferVars
    BY <2>1 DEF Contents, bufferVars
  <2>2. CASE ~ OutOfReach(start, end) /\ ~ UNCHANGED bufferVars
    <3>1. /\ cur_start_row' = WindowFor(start, end)
          /\ mem_buffer' = BufferAt(start, end)
          /\ backing_store' = IF InBuffer(start, end) THEN backing_store ELSE Flushed
      BY <2>2 DEF AccessFails
    <3>2. WindowFor(start, end) \in RowNumbers
      BY <2>2, WindowFacts DEF ArrayInv
    <3>3. ASSUME NEW r \in RowNumbers PROVE Contents'[r] = Contents[r]
      BY <2>2, <3>1, <3>2, <1>1, MovedContents
    <3> QED
      BY <3>3 DEF Contents
  <2> QED
    BY <2>1, <2>2 DEF AccessFails
<1> QED
  BY <1>1, <1>5, <1>6 DEF Store!Refuse, Store!Failed, Failed

\* So is a write.
LEMMA WriteStep ==
  ASSUME ArrayInv, rows_in_mem > 0, NEW r \in RowNumbers, NEW v \in Values, WriteRow(r, v)
  PROVE  Store!Write(r, v)
<1>1. /\ strip.writable /\ r \in strip.start .. strip.end - 1
      /\ mem_buffer' = [mem_buffer EXCEPT ![r - cur_start_row] = v]
      /\ seen' = [seen EXCEPT ![r] = v]
      /\ UNCHANGED <<rows_in_mem, b_s_open, backing_store, cur_start_row, first_undef_row, dirty, strip>>
  BY DEF WriteRow
<1>2. strip.start < strip.end
  BY <1>1, StateFacts
<1>3. InBuffer(strip.start, strip.end) /\ strip.end <= first_undef_row
  BY <1>1, <1>2 DEF ArrayInv, StripInBuffer, WritableIsDirty
<1>4. r \in cur_start_row .. cur_start_row + rows_in_mem - 1 /\ r < first_undef_row
  <2>1. /\ r \in Int /\ cur_start_row \in Int /\ rows_in_mem \in Int /\ first_undef_row \in Int
        /\ strip.start \in Int /\ strip.end \in Int
    BY StateFacts
  <2>2. cur_start_row <= strip.start /\ strip.end <= cur_start_row + rows_in_mem
    BY <1>3, <2>1 DEF InBuffer
  <2> QED
    BY ONLY <1>1, <1>3, <2>1, <2>2
<1>5. ASSUME NEW q \in RowNumbers
      PROVE  Contents'[q] = IF q = r THEN v ELSE Contents[q]
  <2>1. cur_start_row \in Int /\ rows_in_mem \in Int
    BY StateFacts
  <2>2. CASE q \in cur_start_row .. cur_start_row + rows_in_mem - 1 /\ q < first_undef_row
    <3>1. q - cur_start_row \in 0 .. rows_in_mem - 1
      BY ONLY <2>1, <2>2, Offset
    <3>2. Contents'[q] = mem_buffer'[q - cur_start_row] /\ Contents[q] = mem_buffer[q - cur_start_row]
      BY <1>1, <2>2 DEF Contents
    <3>3. q - cur_start_row = r - cur_start_row <=> q = r
      BY <2>1
    <3> QED
      BY <1>1, <3>1, <3>2, <3>3, StateFacts
  <2>3. CASE ~ (q \in cur_start_row .. cur_start_row + rows_in_mem - 1 /\ q < first_undef_row)
    <3>1. Contents'[q] = backing_store[q] /\ Contents[q] = backing_store[q]
      BY <1>1, <2>3 DEF Contents
    <3> QED
      BY <3>1, <2>3, <1>4
  <2> QED
    BY <2>2, <2>3
<1>6. Contents' = [Contents EXCEPT ![r] = v]
  BY <1>5 DEF Contents
<1> QED
  BY <1>1, <1>6 DEF Store!Write, Store!RowsOf

\* Giving the array its buffer is not seen.
LEMMA RealizeStep ==
  ASSUME ArrayInv, NEW h \in Heights, RealizeWith(h)
  PROVE  UNCHANGED <<Contents, first_undef_row, strip, seen>>
<1>1. first_undef_row = 0 /\ first_undef_row' = 0 /\ backing_store' = backing_store
      /\ strip' = strip /\ seen' = seen
  BY DEF RealizeWith, ArrayInv, Unused
<1>2. \A r \in RowNumbers : ~ (r < 0)
  BY RowsAssumption
<1>3. Contents = [r \in RowNumbers |-> backing_store[r]]
  BY <1>1, <1>2 DEF Contents
<1>4. Contents' = [r \in RowNumbers |-> backing_store[r]]
  BY <1>1, <1>2 DEF Contents
<1> QED
  BY <1>1, <1>3, <1>4

\* Every step of the array is a step of the store or a stutter.
LEMMA StoreStep == ArrayInv /\ ArrayInv' /\ [Next]_arrayVars
                     => [Store!Next]_<<Contents, first_undef_row, strip, seen>>
<1> SUFFICES ASSUME ArrayInv, ArrayInv', [Next]_arrayVars
             PROVE  [Store!Next]_<<Contents, first_undef_row, strip, seen>>
  OBVIOUS
<1>1. CASE UNCHANGED arrayVars
  BY <1>1 DEF arrayVars, bufferVars, Contents
<1>2. ASSUME NEW h \in Heights, RealizeWith(h)
      PROVE  UNCHANGED <<Contents, first_undef_row, strip, seen>>
  BY <1>2, RealizeStep
<1>3. ASSUME rows_in_mem > 0, ArrayNext PROVE Store!Next
  <2>1. ASSUME NEW start \in RowNumbers, NEW end \in 1 .. rows_in_array + 1, NEW writable \in BOOLEAN,
               start < end, strip # Failed, Access(start, end, writable) \/ AccessFails(start, end, writable)
        PROVE  Store!Next
    <3>1. Store!Access(start, end, writable) \/ Store!Refuse(start, end, writable)
      BY <1>3, <2>1, AccessStep, RefuseStep
    <3> QED
      BY <2>1, <3>1 DEF Store!Next, Store!RowNumbers, Store!Failed, Failed
  <2>2. ASSUME NEW r \in RowNumbers, NEW v \in Values, WriteRow(r, v) PROVE Store!Next
    <3>1. Store!Write(r, v)
      BY <1>3, <2>2, WriteStep
    <3> QED
      BY <3>1 DEF Store!Next, Store!RowNumbers
  <2> QED
    BY <1>3, <2>1, <2>2 DEF ArrayNext
<1>4. CASE Free
  <2>1. Contents' \in [Store!RowNumbers -> Values]
    BY NextContentsType DEF Store!RowNumbers
  <2> QED
    BY <1>4, <2>1 DEF Free, Store!Next, Store!Release, NoStrip, Store!NoStrip
<1> QED
  BY <1>1, <1>2, <1>3, <1>4 DEF Next

\* They begin alike.
LEMMA StoreInit == Init => Store!Init
<1> SUFFICES ASSUME Init PROVE Store!Init
  OBVIOUS
<1>1. Contents \in [Store!RowNumbers -> Values]
  BY InitInv, ContentsType DEF Store!RowNumbers
<1> QED
  BY <1>1 DEF Init, ArrayInit, Store!Init, NoStrip, Store!NoStrip

\* jmemmgr.c:485: the caller of a virtual array sees the rows it has written,
\* however few of them fit into memory and in whatever order it accesses them.
THEOREM Refinement == Spec => ImplementsRowStore
<1>1. Init => Store!Init
  BY StoreInit
<1>2. ArrayInv /\ ArrayInv' /\ [Next]_arrayVars
        => [Store!Next]_<<Contents, first_undef_row, strip, seen>>
  BY StoreStep
<1>3. Spec => []ArrayInv
  BY ArraySafe
<1> QED
  BY <1>1, <1>2, <1>3, PTL DEF Spec, ImplementsRowStore, Store!Spec

-----------------------------------------------------------------------------
(***************************************************************************)
(* The inductive invariant of the memory manager                           *)
(***************************************************************************)

HIDE DEF RowNumbers

\* What the manager keeps count of.
Pool == [used : Int, left : Int]
MemType(m) == m \in [small : [Pools -> Seq(Pool)], large : [Pools -> Seq(Int)], total : Int, obtained : Int]
Arrays == [rows : Nat \ {0}, width : Nat \ {0}, maxaccess : Nat \ {0},
           in_mem : Nat, b_s_open : BOOLEAN, observed : BOOLEAN]
ManagerType ==
  /\ MemType(mem) /\ open_files \in Int /\ arrays \in Seq(Arrays)
  /\ backend \in {"file", "mac", "nobs"} /\ max_memory_to_use \in Int
  /\ state \in {"open", "realizing", "error", "destroyed"}

\* An array has no buffer yet, one for all its rows, or one for some strips.
Buffered(a) == a.in_mem \in {0, a.rows} \/ (a.in_mem < a.rows /\ a.in_mem % a.maxaccess = 0)
ArraysBuffered == \A k \in DOMAIN arrays : Buffered(arrays[k])

\* The array of module VirtualArray is the observed one of the list.
ObservedIsArray ==
  /\ \A k \in DOMAIN arrays : arrays[k].observed =>
       arrays[k].rows = rows_in_array /\ arrays[k].maxaccess = maxaccess /\ arrays[k].in_mem = rows_in_mem
  /\ \A k, l \in DOMAIN arrays : arrays[k].observed /\ arrays[l].observed => k = l
  /\ (\A k \in DOMAIN arrays : ~ arrays[k].observed) => rows_in_mem = 0

\* Only an error leaves a backing store that has no buffer.
StoresHaveBuffers ==
  state # "error" => \A k \in DOMAIN arrays : arrays[k].b_s_open => arrays[k].in_mem # 0

\* The buffers that are there keep to the plan, and the plan to what is available.
PlanHolds ==
  /\ plan.arrays \in 0 .. Len(arrays) /\ plan.max_minheights \in Nat \ {0} /\ plan.avail \in Int
  /\ plan.least = SumFunctionOnSet(LeastSpace, 1 .. plan.arrays)
  /\ \A k \in 1 .. plan.arrays :
       arrays[k].in_mem <= plan.max_minheights * arrays[k].maxaccess /\ arrays[k].in_mem <= arrays[k].rows
  /\ \/ SumFunctionOnSet(FullSpace, 1 .. plan.arrays) <= plan.avail
     \/ plan.max_minheights = 1
     \/ plan.max_minheights * plan.least <= plan.avail

\* Arrays are realized in the order of the list, those of one call together.
PlanFollowed ==
  /\ state = "open" =>
       \E u \in 0 .. Len(arrays) : Unrealized = 1 .. u /\ (u = 0 /\ arrays # <<>> => PlanHolds)
  /\ state = "realizing" =>
       PlanHolds /\ \E d \in 0 .. plan.arrays : Unrealized = d + 1 .. plan.arrays

ManagerInv ==
  ManagerType /\ ArraysBuffered /\ ObservedIsArray /\ StoresHaveBuffers /\ PlanFollowed /\ NothingLost

-----------------------------------------------------------------------------
\* A set of numbers has a least one, the one that FirstOf gives.
LEMMA FirstFacts ==
  ASSUME NEW S \in SUBSET Nat, S # {}
  PROVE  FirstOf(S) \in S /\ \A j \in S : FirstOf(S) <= j
<1> DEFINE HasLeast(T) == \E k \in T : \A j \in T : k <= j
           Good == {n \in Nat : \A T \in SUBSET Nat : (\E x \in T : x <= n) => HasLeast(T)}
<1>1. 0 \in Good
  <2> SUFFICES ASSUME NEW T \in SUBSET Nat, NEW x \in T, x <= 0 PROVE HasLeast(T)
    OBVIOUS
  <2>1. x = 0
    OBVIOUS
  <2> QED
    BY <2>1
<1>2. ASSUME NEW n \in Nat, n \in Good PROVE n + 1 \in Good
  <2> SUFFICES ASSUME NEW T \in SUBSET Nat, NEW x \in T, x <= n + 1 PROVE HasLeast(T)
    OBVIOUS
  <2>1. CASE \E y \in T : y <= n
    BY <1>2, <2>1
  <2>2. CASE ~ \E y \in T : y <= n
    <3>1. x = n + 1 /\ \A j \in T : x <= j
      BY <2>2
    <3> QED
      BY <3>1
  <2> QED
    BY <2>1, <2>2
<1>3. PICK x \in S : TRUE
  OBVIOUS
<1>4. x \in Good
  <2> HIDE DEF Good
  <2>1. x \in Nat
    OBVIOUS
  <2> QED
    BY <1>1, <1>2, <2>1, NumberInduction
<1>5. HasLeast(S)
  BY <1>4
<1> QED
  BY <1>5 DEF FirstOf

\* What is rounded up is a number.
LEMMA RoundUpFacts == ASSUME NEW size \in Int PROVE RoundUp(size) \in Int
<1>1. ALIGN \in Nat \ {0}
  BY SystemAssumption
<1>2. (size + ALIGN - 1) \div ALIGN \in Int
  BY <1>1
<1> DEFINE units == (size + ALIGN - 1) \div ALIGN
<1> HIDE DEF units
<1>3. units * ALIGN \in Int
  BY <1>1, <1>2 DEF units
<1> QED
  BY <1>3 DEF units, RoundUp

-----------------------------------------------------------------------------
\* The bytes of each pool of a list.
SmallBytes(m, p) == [k \in DOMAIN m.small[p] |-> m.small[p][k].used + m.small[p][k].left + HEADER]
LargeBytes(m, p) == [k \in DOMAIN m.large[p] |-> m.large[p][k] + HEADER]
Held(m) == InPools(m, PERMANENT) + InPools(m, IMAGE)

\* The account of a pool is the sum over its two lists.
LEMMA BytesFacts ==
  ASSUME NEW m, MemType(m), NEW p \in Pools
  PROVE  /\ m.small[p] \in Seq(Pool) /\ m.large[p] \in Seq(Int) /\ m.total \in Int /\ m.obtained \in Int
         /\ SmallBytes(m, p) \in Seq(Int) /\ Len(SmallBytes(m, p)) = Len(m.small[p])
         /\ LargeBytes(m, p) \in Seq(Int) /\ Len(LargeBytes(m, p)) = Len(m.large[p])
         /\ InPools(m, p) = SumFunction(SmallBytes(m, p)) + SumFunction(LargeBytes(m, p))
         /\ InPools(m, p) \in Int
<1>1. m.small[p] \in Seq(Pool) /\ m.large[p] \in Seq(Int) /\ m.total \in Int /\ m.obtained \in Int
  BY DEF MemType
<1>2. HEADER \in Int
  BY SystemAssumption
<1>3. SmallBytes(m, p) \in Seq(Int) /\ Len(SmallBytes(m, p)) = Len(m.small[p])
  <2> DEFINE s == m.small[p]
  <2>1. DOMAIN s = 1 .. Len(s) /\ Len(s) \in Nat /\ \A k \in 1 .. Len(s) : s[k] \in Pool
    BY <1>1
  <2>2. SmallBytes(m, p) = [k \in 1 .. Len(s) |-> s[k].used + s[k].left + HEADER]
    BY <2>1 DEF SmallBytes
  <2> HIDE DEF s
  <2>3. \A k \in 1 .. Len(s) : s[k].used + s[k].left + HEADER \in Int
    BY <1>2, <2>1 DEF Pool
  <2> QED
    BY <2>1, <2>2, <2>3 DEF s
<1>4. LargeBytes(m, p) \in Seq(Int) /\ Len(LargeBytes(m, p)) = Len(m.large[p])
  <2> DEFINE s == m.large[p]
  <2>1. DOMAIN s = 1 .. Len(s) /\ Len(s) \in Nat /\ \A k \in 1 .. Len(s) : s[k] \in Int
    BY <1>1
  <2>2. LargeBytes(m, p) = [k \in 1 .. Len(s) |-> s[k] + HEADER]
    BY <2>1 DEF LargeBytes
  <2> HIDE DEF s
  <2>3. \A k \in 1 .. Len(s) : s[k] + HEADER \in Int
    BY <1>2, <2>1
  <2> QED
    BY <2>1, <2>2, <2>3 DEF s
<1>5. InPools(m, p) = SumFunction(SmallBytes(m, p)) + SumFunction(LargeBytes(m, p))
  BY DEF InPools, SmallBytes, LargeBytes
<1>6. SumFunction(SmallBytes(m, p)) \in Int /\ SumFunction(LargeBytes(m, p)) \in Int
  BY <1>3, <1>4, SumOfSequence
<1> QED
  BY <1>1, <1>3, <1>4, <1>5, <1>6

\* What one pool grows by is what all grow by.
LEMMA HeldChanges ==
  ASSUME NEW m, MemType(m), NEW m2, MemType(m2), NEW p \in Pools, NEW n \in Int,
         \A q \in Pools : q # p => m2.small[q] = m.small[q] /\ m2.large[q] = m.large[q],
         InPools(m2, p) = InPools(m, p) + n
  PROVE  Held(m2) = Held(m) + n /\ Held(m) \in Int
<1>1. \A q \in Pools : q # p => InPools(m2, q) = InPools(m, q)
  BY DEF InPools
<1>2. \A q \in Pools : InPools(m, q) \in Int
  BY BytesFacts
<1>3. CASE p = PERMANENT
  BY <1>1, <1>2, <1>3 DEF Held, Pools, PERMANENT, IMAGE
<1>4. CASE p = IMAGE
  BY <1>1, <1>2, <1>4 DEF Held, Pools, PERMANENT, IMAGE
<1> QED
  BY <1>3, <1>4 DEF Pools

\* Memory m2 is m with n bytes more, which the pools have.
Grown(m, m2, n) ==
  /\ MemType(m2) /\ Held(m) \in Int /\ Held(m2) = Held(m) + n
  /\ m2.total = m.total + n /\ m2.obtained = m.obtained + n

\* Whatever slop is asked for is a number of bytes.
LEMMA SlopFacts ==
  ASSUME NEW m, NEW p \in Pools, NEW size \in Int, NEW slop \in Slops(Slop(m, p, size))
  PROVE  slop \in Int
<1>1. Slop(m, p, size) \in Int
  BY SystemAssumption DEF Slop
<1> DEFINE first == Slop(m, p, size)
<1> HIDE DEF first
<1>2. \A d \in {2, 4, 8, 16, 32, 64, 128, 256} : first \div d \in Int
  BY <1>1 DEF first
<1> QED
  BY <1>1, <1>2 DEF Slops, first

\* alloc_small takes from a pool what it gives, or gets a pool of the system.
LEMMA SmallKept ==
  ASSUME NEW m, MemType(m), NEW p \in Pools, NEW size \in Int, NEW m2 \in SmallAllocations(m, p, size)
  PROVE  \E n \in Int : Grown(m, m2, n)
<1>1. m.small[p] \in Seq(Pool) /\ HEADER \in Int /\ InPools(m, p) \in Int
  BY BytesFacts, SystemAssumption
<1>2. CASE WithRoom(m, p, size) # {}
  <2> DEFINE k == FirstOf(WithRoom(m, p, size))
             new == [used |-> m.small[p][k].used + size, left |-> m.small[p][k].left - size]
  <2>1. k \in 1 .. Len(m.small[p])
    <3>1. WithRoom(m, p, size) \in SUBSET Nat /\ WithRoom(m, p, size) \subseteq 1 .. Len(m.small[p])
      BY <1>1 DEF WithRoom
    <3> QED
      BY <1>2, <3>1, FirstFacts
  <2>2. m2 = [m EXCEPT !.small[p][k] = new]
    BY <1>2 DEF SmallAllocations
  <2>3. m.small[p][k] \in Pool
    BY <1>1, <2>1
  <2> HIDE DEF k
  <2>4. new \in Pool /\ new.used + new.left = m.small[p][k].used + m.small[p][k].left
    BY <2>3 DEF Pool
  <2> HIDE DEF new
  <2>5. /\ m2.small = [m.small EXCEPT ![p] = [@ EXCEPT ![k] = new]]
        /\ m2.large = m.large /\ m2.total = m.total /\ m2.obtained = m.obtained
    BY <2>2 DEF MemType
  <2>6. m2.small[p] = [m.small[p] EXCEPT ![k] = new] /\ \A q \in Pools : q # p => m2.small[q] = m.small[q]
    BY <2>5 DEF MemType
  <2>7. m2.small[p] \in Seq(Pool) /\ Len(m2.small[p]) = Len(m.small[p])
    BY <1>1, <2>1, <2>4, <2>6
  <2>8. MemType(m2)
    BY <2>2, <2>5, <2>6, <2>7 DEF MemType
  <2>9. InPools(m2, p) = InPools(m, p) + 0
    <3>1. SmallBytes(m2, p) = SmallBytes(m, p)
      <4>1. \A i \in 1 .. Len(m.small[p]) : m2.small[p][i].used + m2.small[p][i].left + HEADER
                                              = m.small[p][i].used + m.small[p][i].left + HEADER
        <5> TAKE i \in 1 .. Len(m.small[p])
        <5>1. CASE i = k
          BY <5>1, <2>4, <2>6, <1>1, <2>1
        <5>2. CASE i # k
          BY <5>2, <2>6, <1>1
        <5> QED
          BY <5>1, <5>2
      <4>2. DOMAIN m2.small[p] = 1 .. Len(m.small[p]) /\ DOMAIN m.small[p] = 1 .. Len(m.small[p])
        BY <2>7, <1>1
      <4> QED
        BY ONLY <4>1, <4>2 DEF SmallBytes
    <3>2. LargeBytes(m2, p) = LargeBytes(m, p)
      BY <2>5 DEF LargeBytes
    <3> QED
      BY <1>1, <3>1, <3>2, <2>8, BytesFacts
  <2>10. Grown(m, m2, 0)
    <3>1. Held(m2) = Held(m) + 0 /\ Held(m) \in Int
      <4>1. \A q \in Pools : q # p => m2.small[q] = m.small[q] /\ m2.large[q] = m.large[q]
        BY <2>5, <2>6
      <4>2. 0 \in Int
        OBVIOUS
      <4> QED
        BY <4>1, <4>2, <2>8, <2>9, HeldChanges
    <3>2. m.total + 0 = m.total /\ m.obtained + 0 = m.obtained
      BY BytesFacts
    <3> QED
      BY <3>1, <3>2, <2>5, <2>8 DEF Grown
  <2> QED
    BY <2>10
<1>3. CASE WithRoom(m, p, size) = {}
  <2>1. PICK slop \in Slops(Slop(m, p, size)) : m2 = NewPool(m, p, size, slop)
    BY <1>3 DEF SmallAllocations
  <2> DEFINE new == [used |-> size, left |-> slop]
             n == size + HEADER + slop
  <2>2. slop \in Int /\ new \in Pool /\ n \in Int
    BY <1>1, SlopFacts DEF Pool
  <2>3. /\ m2.small = [m.small EXCEPT ![p] = Append(@, new)]
        /\ m2.large = m.large /\ m2.total = m.total + n /\ m2.obtained = m.obtained + n
        /\ m2 = [small |-> m2.small, large |-> m2.large, total |-> m2.total, obtained |-> m2.obtained]
    <3>1. m.total \in Int /\ m.obtained \in Int
      BY DEF MemType
    <3>2. m.total + size + HEADER + slop = m.total + n /\ m.obtained + size + HEADER + slop = m.obtained + n
      BY <2>2, <1>1, <3>1
    <3>3. m2 = [m EXCEPT !.small = [m.small EXCEPT ![p] = Append(@, new)],
                         !.total = m.total + n, !.obtained = m.obtained + n]
      BY <2>1, <3>2 DEF NewPool, MemType
    <3> HIDE DEF n, new
    <3> QED
      BY <3>3 DEF MemType
  <2> HIDE DEF new
  <2>4. m2.small[p] = Append(m.small[p], new) /\ \A q \in Pools : q # p => m2.small[q] = m.small[q]
    BY <2>3 DEF MemType
  <2>5. m2.small[p] \in Seq(Pool)
    BY <1>1, <2>2, <2>4
  <2>6. MemType(m2)
    <3>1. m2.small \in [Pools -> Seq(Pool)]
      BY <2>3, <2>4, <2>5 DEF MemType
    <3>2. m2.total \in Int /\ m2.obtained \in Int /\ m2.large \in [Pools -> Seq(Int)]
      BY <2>2, <2>3 DEF MemType
    <3> QED
      BY <3>1, <3>2, <2>3 DEF MemType
  <2>7. InPools(m2, p) = InPools(m, p) + n
    <3>1. LargeBytes(m2, p) = LargeBytes(m, p)
      BY <2>3 DEF LargeBytes
    <3>2. SmallBytes(m2, p) = SmallBytes(m, p) \o <<n>>
      <4> DEFINE s == m.small[p]
                 t == SmallBytes(m, p)
      <4>1. Len(t) = Len(s) /\ t \in Seq(Int) /\ Len(s) \in Nat
        BY BytesFacts, <1>1
      <4>2. /\ DOMAIN Append(s, new) = 1 .. Len(s) + 1
            /\ \A i \in 1 .. Len(s) : Append(s, new)[i] = s[i]
            /\ Append(s, new)[Len(s) + 1] = new
        BY <1>1, <2>2
      <4>3. /\ DOMAIN (t \o <<n>>) = 1 .. Len(s) + 1
            /\ \A i \in 1 .. Len(s) : (t \o <<n>>)[i] = t[i]
            /\ (t \o <<n>>)[Len(s) + 1] = n
        <5> HIDE DEF t, n, s
        <5> QED
          BY <4>1, <2>2
      <4>4. \A i \in 1 .. Len(s) : t[i] = s[i].used + s[i].left + HEADER
        BY <1>1 DEF SmallBytes
      <4>5. new.used + new.left + HEADER = n
        BY <2>2, <1>1 DEF new
      <4>6. SmallBytes(m2, p) = [i \in 1 .. Len(s) + 1 |->
                                   Append(s, new)[i].used + Append(s, new)[i].left + HEADER]
        BY <2>4, <4>2 DEF SmallBytes
      <4>7. ASSUME NEW i \in 1 .. Len(s) + 1
            PROVE  Append(s, new)[i].used + Append(s, new)[i].left + HEADER = (t \o <<n>>)[i]
        <5>1. i \in 1 .. Len(s) \/ i = Len(s) + 1
          BY <4>1
        <5> HIDE DEF s, t, n
        <5> QED
          BY <5>1, <4>2, <4>3, <4>4, <4>5
      <4>8. t \o <<n>> = [i \in 1 .. Len(s) + 1 |-> (t \o <<n>>)[i]]
        <5> HIDE DEF s, t, n
        <5>1. t \o <<n>> \in Seq(Int)
          BY <4>1, <2>2
        <5> QED
          BY <5>1, <4>3
      <4> HIDE DEF s, t, n
      <4> QED
        BY <4>6, <4>7, <4>8 DEF t
    <3>3. SumFunction(SmallBytes(m2, p)) = SumFunction(SmallBytes(m, p)) + n
      <4> HIDE DEF n
      <4>1. SmallBytes(m, p) \in Seq(Int) /\ <<n>> \in Seq(Int)
        BY <2>2, BytesFacts
      <4> QED
        BY <4>1, <3>2, <2>2, SumOfBoth, SumOfOne
    <3>4. SumFunction(SmallBytes(m, p)) \in Int /\ SumFunction(LargeBytes(m, p)) \in Int
      BY BytesFacts, SumOfSequence
    <3>5. /\ InPools(m, p) = SumFunction(SmallBytes(m, p)) + SumFunction(LargeBytes(m, p))
          /\ InPools(m2, p) = SumFunction(SmallBytes(m2, p)) + SumFunction(LargeBytes(m2, p))
      BY <2>6, BytesFacts
    <3> HIDE DEF n
    <3> QED
      BY <2>2, <3>1, <3>3, <3>4, <3>5
  <2>8. Grown(m, m2, n)
    <3>1. Held(m2) = Held(m) + n /\ Held(m) \in Int
      <4> HIDE DEF n
      <4>1. \A q \in Pools : q # p => m2.small[q] = m.small[q] /\ m2.large[q] = m.large[q]
        BY <2>3, <2>4
      <4>2. n \in Int /\ InPools(m2, p) = InPools(m, p) + n
        BY <2>2, <2>7
      <4> QED
        BY <4>1, <4>2, <2>6, HeldChanges
    <3> QED
      BY <3>1, <2>3, <2>6 DEF Grown
  <2> HIDE DEF n
  <2> QED
    BY <2>2, <2>8
<1> QED
  BY <1>2, <1>3

\* alloc_large gets a pool of its own; alloc_sarray gets one for each chunk.
LEMMA LargeGrows ==
  ASSUME NEW m, MemType(m), NEW p \in Pools, NEW sizes \in Seq(Int), NEW m2, NEW n \in Int,
         n = SumFunction([k \in 1 .. Len(sizes) |-> sizes[k] + HEADER]),
         m2 = [m EXCEPT !.large[p] = sizes \o @, !.total = @ + n, !.obtained = @ + n]
  PROVE  Grown(m, m2, n)
<1> DEFINE new == [k \in 1 .. Len(sizes) |-> sizes[k] + HEADER]
           l == m.large[p]
           t == LargeBytes(m, p)
<1>1. /\ l \in Seq(Int) /\ t \in Seq(Int) /\ Len(t) = Len(l) /\ HEADER \in Int
      /\ m.total \in Int /\ m.obtained \in Int
  BY BytesFacts, SystemAssumption
<1>2. new \in Seq(Int) /\ Len(new) = Len(sizes) /\ Len(sizes) \in Nat
  <2>1. \A k \in 1 .. Len(sizes) : sizes[k] + HEADER \in Int
    BY <1>1
  <2> QED
    BY <2>1
<1>3. /\ m2.large = [m.large EXCEPT ![p] = sizes \o l] /\ m2.small = m.small
      /\ m2.total = m.total + n /\ m2.obtained = m.obtained + n
      /\ m2 = [small |-> m2.small, large |-> m2.large, total |-> m2.total, obtained |-> m2.obtained]
  BY DEF MemType
<1>4. m2.large[p] = sizes \o l /\ \A q \in Pools : q # p => m2.large[q] = m.large[q] /\ m2.small[q] = m.small[q]
  BY <1>3 DEF MemType
<1>5. MemType(m2)
  <2>1. sizes \o l \in Seq(Int)
    BY <1>1
  <2>2. m2.large \in [Pools -> Seq(Int)] /\ m2.small \in [Pools -> Seq(Pool)]
    BY <1>3, <2>1 DEF MemType
  <2>3. m2.total \in Int /\ m2.obtained \in Int
    BY <1>1, <1>3
  <2> QED
    BY <2>2, <2>3, <1>3 DEF MemType
<1>6. LargeBytes(m2, p) = new \o t
  <2> DEFINE all == sizes \o l
             both == new \o t
  <2>1. /\ Len(l) \in Nat /\ DOMAIN all = 1 .. Len(sizes) + Len(l)
        /\ \A i \in 1 .. Len(sizes) : all[i] = sizes[i]
        /\ \A i \in 1 .. Len(l) : all[Len(sizes) + i] = l[i]
    <3> HIDE DEF l
    <3> QED
      BY <1>1, ConcatFacts
  <2>2. /\ both \in Seq(Int) /\ DOMAIN both = 1 .. Len(sizes) + Len(l)
        /\ \A i \in 1 .. Len(sizes) : both[i] = new[i]
        /\ \A i \in 1 .. Len(l) : both[Len(sizes) + i] = t[i]
    <3> HIDE DEF new, t, l
    <3>1. /\ new \o t \in Seq(Int) /\ DOMAIN (new \o t) = 1 .. Len(new) + Len(t)
          /\ \A i \in 1 .. Len(new) : (new \o t)[i] = new[i]
          /\ \A i \in 1 .. Len(t) : (new \o t)[Len(new) + i] = t[i]
      BY <1>1, <1>2, ConcatFacts
    <3> QED
      BY <3>1, <1>1, <1>2
  <2>3. \A i \in 1 .. Len(l) : t[i] = l[i] + HEADER
    BY <1>1 DEF LargeBytes
  <2>4. LargeBytes(m2, p) = [i \in 1 .. Len(sizes) + Len(l) |-> all[i] + HEADER]
    BY <1>4, <2>1 DEF LargeBytes
  <2>5. \A i \in 1 .. Len(sizes) : new[i] = sizes[i] + HEADER
    OBVIOUS
  <2>6. ASSUME NEW i \in 1 .. Len(sizes) + Len(l) PROVE all[i] + HEADER = both[i]
    <3>1. CASE i <= Len(sizes)
      <4>1. i \in 1 .. Len(sizes)
        BY <3>1, <2>1, <1>2
      <4> HIDE DEF all, both, new, t, l
      <4> QED
        BY <4>1, <2>1, <2>2, <2>5
    <3>2. CASE ~ (i <= Len(sizes))
      <4>1. i - Len(sizes) \in 1 .. Len(l) /\ Len(sizes) + (i - Len(sizes)) = i
        BY <3>2, <2>1, <1>2
      <4> DEFINE j == i - Len(sizes)
      <4> HIDE DEF all, both, new, t, l, j
      <4>2. j \in 1 .. Len(l) /\ Len(sizes) + j = i
        BY <4>1 DEF j
      <4>3. all[Len(sizes) + j] = l[j] /\ both[Len(sizes) + j] = t[j] /\ t[j] = l[j] + HEADER
        BY <4>2, <2>1, <2>2, <2>3
      <4> QED
        BY <4>2, <4>3
    <3> QED
      BY <3>1, <3>2
  <2>7. both = [i \in 1 .. Len(sizes) + Len(l) |-> both[i]]
    <3> HIDE DEF both
    <3> QED
      BY <2>2
  <2> HIDE DEF all, both
  <2>8. LargeBytes(m2, p) = both
    BY <2>4, <2>6, <2>7
  <2> QED
    BY <2>8 DEF both
<1>7. InPools(m2, p) = InPools(m, p) + n
  <2>1. SmallBytes(m2, p) = SmallBytes(m, p)
    BY <1>3 DEF SmallBytes
  <2>2. SumFunction(LargeBytes(m2, p)) = n + SumFunction(t)
    <3> HIDE DEF t
    <3>1. n = SumFunction(new)
      OBVIOUS
    <3> HIDE DEF new
    <3> QED
      BY <3>1, <1>1, <1>2, <1>6, SumOfBoth
  <2>3. SumFunction(SmallBytes(m, p)) \in Int /\ SumFunction(t) \in Int
    BY BytesFacts, SumOfSequence
  <2>4. /\ InPools(m, p) = SumFunction(SmallBytes(m, p)) + SumFunction(t)
        /\ InPools(m2, p) = SumFunction(SmallBytes(m2, p)) + SumFunction(LargeBytes(m2, p))
    BY <1>5, BytesFacts
  <2> HIDE DEF t
  <2> QED
    BY <2>1, <2>2, <2>3, <2>4
<1>8. Held(m2) = Held(m) + n /\ Held(m) \in Int
  <2>1. \A q \in Pools : q # p => m2.small[q] = m.small[q] /\ m2.large[q] = m.large[q]
    BY <1>4
  <2> QED
    BY ONLY MemType(m), n \in Int, p \in Pools, <1>5, <1>7, <2>1, HeldChanges
<1> QED
  BY <1>3, <1>5, <1>8 DEF Grown

\* alloc_large counts what it gets.
LEMMA LargeKept ==
  ASSUME NEW m, MemType(m), NEW p \in Pools, NEW size \in Int
  PROVE  \E n \in Int : Grown(m, LargeAllocation(m, p, size), n)
<1> DEFINE n == size + HEADER
           m2 == LargeAllocation(m, p, size)
<1>1. HEADER \in Int /\ n \in Int /\ m.total \in Int /\ m.obtained \in Int
  BY SystemAssumption DEF MemType
<1>2. <<size>> \in Seq(Int) /\ Len(<<size>>) = 1 /\ <<size>>[1] = size
  OBVIOUS
<1>3. n = SumFunction([k \in 1 .. Len(<<size>>) |-> <<size>>[k] + HEADER])
  <2>1. [k \in 1 .. Len(<<size>>) |-> <<size>>[k] + HEADER] = <<n>>
    BY <1>1, <1>2
  <2> HIDE DEF n
  <2> QED
    BY <2>1, <1>1, SumOfOne
<1>4. m2 = [m EXCEPT !.large[p] = <<size>> \o @, !.total = @ + n, !.obtained = @ + n]
  <2>1. m.total + size + HEADER = m.total + n /\ m.obtained + size + HEADER = m.obtained + n
    BY <1>1
  <2> HIDE DEF n
  <2> QED
    BY <2>1 DEF LargeAllocation, MemType
<1> HIDE DEF n, m2
<1>5. Grown(m, m2, n)
  BY <1>1, <1>2, <1>3, <1>4, LargeGrows
<1> QED
  BY <1>1, <1>5 DEF m2

\* The rows of a chunk, and how many chunks there are.
LEMMA ChunkFacts ==
  ASSUME NEW width \in Nat \ {0}, NEW rows \in Nat \ {0}, width <= MAX_ALLOC_CHUNK - HEADER
  PROVE  /\ Len(Chunks(width, rows)) \in Nat
         /\ \A k \in 1 .. Len(Chunks(width, rows)) : Chunks(width, rows)[k] \in Int
<1> DEFINE most == (MAX_ALLOC_CHUNK - HEADER) \div width
           n == RowsPerChunk(width, rows)
           count == (rows + n - 1) \div n
<1>1. MAX_ALLOC_CHUNK \in Int /\ HEADER \in Int
  BY SystemAssumption
<1>2. most \in Int /\ most >= 1
  BY <1>1
<1>3. n \in Nat \ {0}
  <2> HIDE DEF most
  <2>1. n = IF most < rows THEN most ELSE rows
    BY DEF RowsPerChunk, most
  <2> QED
    BY <2>1, <1>2
<1> HIDE DEF n
<1>4. count \in Nat
  BY <1>3
<1> HIDE DEF count
<1>5. \A k \in 1 .. count : (IF k < count THEN n ELSE rows - (count - 1) * n) * width \in Int
  <2>1. (count - 1) * n \in Int
    BY <1>3, <1>4
  <2>2. n * width \in Int /\ (rows - (count - 1) * n) * width \in Int
    <3> DEFINE rest == rows - (count - 1) * n
    <3>1. rest \in Int
      BY <2>1
    <3> HIDE DEF rest
    <3> QED
      BY <1>3, <3>1 DEF rest
  <2> QED
    BY <2>2
<1>6. Chunks(width, rows) = [k \in 1 .. count |-> (IF k < count THEN n ELSE rows - (count - 1) * n) * width]
  BY DEF Chunks, n, count
<1> QED
  BY <1>4, <1>5, <1>6

\* alloc_sarray counts its chunks, also when only some of them were got.
LEMMA ChunksKept ==
  ASSUME NEW m, MemType(m), NEW p \in Pools, NEW width \in Nat \ {0}, NEW rows \in Nat \ {0},
         width <= MAX_ALLOC_CHUNK - HEADER, NEW done \in 0 .. Len(Chunks(width, rows))
  PROVE  \E n \in Int : Grown(m, SomeChunks(m, p, width, rows, done), n)
<1> DEFINE sizes == [k \in 1 .. done |-> RoundUp(Chunks(width, rows)[(done + 1) - k])]
           bytes == [k \in 1 .. done |-> sizes[k] + HEADER]
           n == SumFunction(bytes)
<1>1. done \in Nat /\ HEADER \in Int /\ Len(Chunks(width, rows)) \in Nat
  BY ChunkFacts, SystemAssumption
<1>2. \A k \in 1 .. done : RoundUp(Chunks(width, rows)[(done + 1) - k]) \in Int
  <2> TAKE k \in 1 .. done
  <2>1. (done + 1) - k \in 1 .. Len(Chunks(width, rows))
    BY <1>1
  <2> QED
    BY <2>1, ChunkFacts, RoundUpFacts
<1>3. sizes \in Seq(Int) /\ Len(sizes) = done
  BY <1>1, <1>2
<1>4. SomeChunks(m, p, width, rows, done) = [m EXCEPT !.large[p] = sizes \o @, !.total = @ + n, !.obtained = @ + n]
  BY DEF SomeChunks
<1> HIDE DEF sizes
<1>5. bytes \in Seq(Int)
  <2>1. \A k \in 1 .. done : sizes[k] + HEADER \in Int
    BY <1>1, <1>3
  <2> QED
    BY <1>1, <2>1
<1>6. n = SumFunction([k \in 1 .. Len(sizes) |-> sizes[k] + HEADER])
  BY <1>3
<1> HIDE DEF bytes
<1>7. n \in Int
  BY <1>5, SumOfSequence
<1> HIDE DEF n
<1> DEFINE m2 == SomeChunks(m, p, width, rows, done)
<1> HIDE DEF m2
<1>8. m2 = [m EXCEPT !.large[p] = sizes \o @, !.total = @ + n, !.obtained = @ + n]
  BY <1>4 DEF m2
<1>9. Grown(m, m2, n)
  BY <1>3, <1>6, <1>7, <1>8, LargeGrows
<1> QED
  BY <1>7, <1>9 DEF m2

\* What free_pool gives back is what the pool has.
LEMMA FreedFacts ==
  ASSUME NEW m, MemType(m), NEW p \in Pools
  PROVE  /\ MemType(Freed(m, p)) /\ InPools(m, p) \in Int
         /\ InPools(Freed(m, p), p) = 0
         /\ \A q \in Pools : q # p => InPools(Freed(m, p), q) = InPools(m, q)
         /\ Freed(m, p).total = m.total - InPools(m, p)
         /\ Freed(m, p).obtained = m.obtained - InPools(m, p)
<1> DEFINE m2 == Freed(m, p)
<1>1. InPools(m, p) \in Int /\ m.total \in Int /\ m.obtained \in Int
  BY BytesFacts
<1> DEFINE n == InPools(m, p)
<1> HIDE DEF n
<1>6. m2 = [m EXCEPT !.small[p] = <<>>, !.large[p] = <<>>, !.total = @ - n, !.obtained = @ - n]
  BY DEF Freed, n
<1> HIDE DEF m2
<1>7. /\ m2.small = [m.small EXCEPT ![p] = <<>>] /\ m2.large = [m.large EXCEPT ![p] = <<>>]
      /\ m2.total = m.total - n /\ m2.obtained = m.obtained - n
      /\ m2 = [small |-> m2.small, large |-> m2.large, total |-> m2.total, obtained |-> m2.obtained]
  BY <1>6 DEF MemType
<1>2. /\ m2.small = [m.small EXCEPT ![p] = <<>>] /\ m2.large = [m.large EXCEPT ![p] = <<>>]
      /\ m2.total = m.total - InPools(m, p) /\ m2.obtained = m.obtained - InPools(m, p)
      /\ m2 = [small |-> m2.small, large |-> m2.large, total |-> m2.total, obtained |-> m2.obtained]
  BY <1>7 DEF n
<1>3. MemType(m2)
  <2>1. <<>> \in Seq(Pool) /\ <<>> \in Seq(Int)
    OBVIOUS
  <2>2. m2.small \in [Pools -> Seq(Pool)] /\ m2.large \in [Pools -> Seq(Int)]
    BY <1>2, <2>1 DEF MemType
  <2>3. m2.total \in Int /\ m2.obtained \in Int
    BY <1>1, <1>2
  <2> QED
    BY <1>2, <2>2, <2>3 DEF MemType
<1>4. InPools(m2, p) = 0
  <2>1. m2.small[p] = <<>> /\ m2.large[p] = <<>>
    BY <1>2 DEF MemType
  <2>2. SmallBytes(m2, p) = <<>> /\ LargeBytes(m2, p) = <<>>
    BY <2>1 DEF SmallBytes, LargeBytes
  <2> QED
    BY <2>2, <1>3, BytesFacts, SumOfNone
<1>5. \A q \in Pools : q # p => InPools(m2, q) = InPools(m, q)
  <2> SUFFICES ASSUME NEW q \in Pools, q # p PROVE InPools(m2, q) = InPools(m, q)
    OBVIOUS
  <2>1. m2.small[q] = m.small[q] /\ m2.large[q] = m.large[q]
    BY <1>2 DEF MemType
  <2> QED
    BY <2>1 DEF InPools
<1> QED
  BY <1>1, <1>2, <1>3, <1>4, <1>5 DEF m2

-----------------------------------------------------------------------------
\* The list of arrays, element by element.
LEMMA ListFacts ==
  ASSUME ManagerType
  PROVE  /\ DOMAIN arrays = 1 .. Len(arrays) /\ Len(arrays) \in Nat
         /\ \A k \in 1 .. Len(arrays) :
              /\ arrays[k] \in Arrays
              /\ arrays[k].rows \in Nat \ {0} /\ arrays[k].width \in Nat \ {0}
              /\ arrays[k].maxaccess \in Nat \ {0} /\ arrays[k].in_mem \in Nat
              /\ arrays[k].b_s_open \in BOOLEAN /\ arrays[k].observed \in BOOLEAN
<1>1. arrays \in Seq(Arrays)
  BY DEF ManagerType
<1>2. DOMAIN arrays = 1 .. Len(arrays) /\ Len(arrays) \in Nat /\ \A k \in 1 .. Len(arrays) : arrays[k] \in Arrays
  BY <1>1
<1> QED
  BY <1>2 DEF Arrays

\* There are as many open stores as arrays at most.
LEMMA StoresFinite ==
  ASSUME ManagerType
  PROVE  IsFiniteSet(OpenStores) /\ OpenStores \subseteq 1 .. Len(arrays) /\ Cardinality(OpenStores) \in Nat
<1>1. OpenStores \subseteq 1 .. Len(arrays) /\ Len(arrays) \in Nat
  BY ListFacts DEF OpenStores
<1>2. IsFiniteSet(1 .. Len(arrays))
  BY <1>1, FS_Interval
<1>3. IsFiniteSet(OpenStores)
  BY <1>1, <1>2, FS_Subset
<1> QED
  BY <1>1, <1>3, FS_CardinalityType

\* A set that is moved by one keeps its size.
LEMMA MovedSize ==
  ASSUME NEW S \in SUBSET Int, IsFiniteSet(S)
  PROVE  Cardinality({k + 1 : k \in S}) = Cardinality(S)
<1> DEFINE T == {k + 1 : k \in S}
           f == [k \in S |-> k + 1]
<1>1. f \in [S -> T] /\ (\A a, b \in S : f[a] = f[b] => a = b) /\ \A t \in T : \E k \in S : f[k] = t
  OBVIOUS
<1>2. f \in Bijection(S, T)
  <2> HIDE DEF f, T
  <2>1. f \in Injection(S, T)
    BY <1>1 DEF Injection, IsInjective
  <2>2. f \in Surjection(S, T)
    BY <1>1 DEF Surjection
  <2> QED
    BY <2>1, <2>2 DEF Bijection
<1> HIDE DEF f, T
<1>3. Cardinality(T) = Cardinality(S)
  BY <1>2, FS_Bijection DEF ExistsBijection
<1> QED
  BY <1>3 DEF T

-----------------------------------------------------------------------------
\* What is in the pools and what was got of the system change together.
Base(s) == IF s = "destroyed" THEN 0 ELSE CONTROL
Counted(m, s) == m.total = Base(s) + Held(m) /\ m.obtained = m.total

\* NothingLost is about the sum over both pools.
LEMMA CountedFacts ==
  ASSUME NEW m, MemType(m), NEW s
  PROVE  (m.total = Base(s) + InPools(m, PERMANENT) + InPools(m, IMAGE) /\ m.obtained = m.total)
           <=> Counted(m, s)
<1>1. InPools(m, PERMANENT) \in Int /\ InPools(m, IMAGE) \in Int
  BY BytesFacts DEF Pools
<1>2. Base(s) \in Int
  BY SystemAssumption DEF Base
<1>3. Base(s) + InPools(m, PERMANENT) + InPools(m, IMAGE) = Base(s) + Held(m)
  BY <1>1, <1>2 DEF Held
<1> QED
  BY <1>3 DEF Counted

\* What is counted stays counted if lists and accounts grow by the same.
LEMMA GrownCounted ==
  ASSUME NEW m, MemType(m), NEW m2, NEW n \in Int, Grown(m, m2, n), NEW s, Counted(m, s)
  PROVE  MemType(m2) /\ Counted(m2, s)
<1>1. /\ MemType(m2) /\ Held(m) \in Int /\ Held(m2) = Held(m) + n
      /\ m2.total = m.total + n /\ m2.obtained = m.obtained + n
      /\ m.total = Base(s) + Held(m) /\ m.obtained = m.total
  BY DEF Grown, Counted
<1>2. Base(s) \in Int
  BY SystemAssumption DEF Base
<1>3. m2.total = Base(s) + Held(m2) /\ m2.obtained = m2.total
  BY <1>1, <1>2
<1> QED
  BY <1>1, <1>3 DEF Counted

\* NothingLost, split into memory and files; the next lemma is its primed form.
LEMMA LostFacts ==
  ASSUME MemType(mem)
  PROVE  NothingLost <=> Counted(mem, state) /\ open_files = Cardinality(OpenStores)
BY CountedFacts DEF NothingLost, Base

LEMMA NextLostFacts ==
  ASSUME MemType(mem')
  PROVE  NothingLost' <=> Counted(mem', state') /\ open_files' = Cardinality(OpenStores')
<1>1. (MemType(mem) => (NothingLost <=> Counted(mem, state) /\ open_files = Cardinality(OpenStores)))'
  BY LostFacts, PTL
<1> QED
  BY <1>1

\* An allocation that leaves the arrays alone.
LEMMA OnlyMemory ==
  ASSUME ManagerInv, NEW n \in Int, Grown(mem, mem', n),
         UNCHANGED <<arrayVars, backend, max_memory_to_use, arrays, plan, open_files, state>>
  PROVE  ManagerInv'
<1>1. Counted(mem, state) /\ open_files = Cardinality(OpenStores)
  BY LostFacts DEF ManagerInv, ManagerType
<1>2. MemType(mem') /\ Counted(mem', state)
  BY <1>1, GrownCounted DEF ManagerInv, ManagerType
<1>3. NothingLost'
  <2>1. OpenStores' = OpenStores
    BY DEF OpenStores
  <2> QED
    BY <1>1, <1>2, <2>1, NextLostFacts
<1>4. ManagerType'
  BY <1>2 DEF ManagerInv, ManagerType
<1>5. ArraysBuffered' /\ StoresHaveBuffers'
  BY DEF ManagerInv, ArraysBuffered, StoresHaveBuffers
<1>6. ObservedIsArray'
  BY DEF ManagerInv, ObservedIsArray, arrayVars, bufferVars
<1>7. PlanFollowed'
  <2>1. LeastSpace' = LeastSpace /\ FullSpace' = FullSpace /\ Unrealized' = Unrealized
    BY DEF LeastSpace, FullSpace, Unrealized
  <2>2. PlanHolds' = PlanHolds
    BY <2>1 DEF PlanHolds
  <2> QED
    BY <2>1, <2>2 DEF ManagerInv, PlanFollowed
<1> QED
  BY <1>3, <1>4, <1>5, <1>6, <1>7 DEF ManagerInv

\* A small object.
LEMMA AllocSmallInv == ASSUME ManagerInv, AllocSmall PROVE ManagerInv'
<1>1. PICK p \in Pools, size \in Sizes : mem' \in SmallAllocations(mem, p, RoundUp(size))
  BY DEF AllocSmall
<1>2. RoundUp(size) \in Int
  BY ObjectsAssumption, RoundUpFacts
<1>3. PICK n \in Int : Grown(mem, mem', n)
  BY <1>1, <1>2, SmallKept DEF ManagerInv, ManagerType
<1> QED
  BY <1>3, OnlyMemory DEF AllocSmall

\* A large object.
LEMMA AllocLargeInv == ASSUME ManagerInv, AllocLarge PROVE ManagerInv'
<1>1. PICK p \in Pools, size \in Sizes : mem' = LargeAllocation(mem, p, RoundUp(size))
  BY DEF AllocLarge
<1>2. RoundUp(size) \in Int
  BY ObjectsAssumption, RoundUpFacts
<1>3. PICK n \in Int : Grown(mem, mem', n)
  BY <1>1, <1>2, LargeKept DEF ManagerInv, ManagerType
<1> QED
  BY <1>3, OnlyMemory DEF AllocLarge

\* A request that is refused: the lists are as before.
LEMMA AllocFailsInv == ASSUME ManagerInv, AllocFails PROVE ManagerInv'
<1>1. /\ state = "open" /\ state' = "error"
      /\ UNCHANGED <<arrayVars, backend, max_memory_to_use, mem, arrays, plan, open_files>>
  BY DEF AllocFails
<1>2. ManagerType'
  BY <1>1 DEF ManagerInv, ManagerType
<1>3. ArraysBuffered' /\ StoresHaveBuffers'
  BY <1>1 DEF ManagerInv, ArraysBuffered, StoresHaveBuffers
<1>4. ObservedIsArray'
  BY <1>1 DEF ManagerInv, ObservedIsArray, arrayVars, bufferVars
<1>5. PlanFollowed'
  BY <1>1 DEF PlanFollowed
<1>6. NothingLost'
  <2>1. OpenStores' = OpenStores /\ InPools(mem', PERMANENT) = InPools(mem, PERMANENT)
        /\ InPools(mem', IMAGE) = InPools(mem, IMAGE)
    BY <1>1 DEF OpenStores
  <2> QED
    BY <1>1, <2>1 DEF ManagerInv, NothingLost
<1> QED
  BY <1>2, <1>3, <1>4, <1>5, <1>6 DEF ManagerInv

-----------------------------------------------------------------------------
\* A new array at the head of the list: the others move by one.
LEMMA Prepended ==
  ASSUME ManagerType, NEW a \in Arrays, arrays' = <<a>> \o arrays
  PROVE  /\ arrays' \in Seq(Arrays) /\ Len(arrays') = Len(arrays) + 1
         /\ DOMAIN arrays' = 1 .. Len(arrays) + 1 /\ arrays'[1] = a
         /\ \A k \in 1 .. Len(arrays) : arrays'[k + 1] = arrays[k]
<1>1. arrays \in Seq(Arrays)
  BY DEF ManagerType
<1>2. /\ <<a>> \o arrays \in Seq(Arrays) /\ Len(<<a>> \o arrays) = Len(arrays) + 1
      /\ DOMAIN (<<a>> \o arrays) = 1 .. Len(arrays) + 1 /\ (<<a>> \o arrays)[1] = a
  BY <1>1
<1>3. ASSUME NEW k \in 1 .. Len(arrays) PROVE (<<a>> \o arrays)[k + 1] = arrays[k]
  BY <1>1
<1> QED
  BY <1>2, <1>3

\* An array joins the list at its head, where those without buffers are.
LEMMA RequestVirtArrayInv == ASSUME ManagerInv, RequestVirtArray PROVE ManagerInv'
<1>1. /\ state = "open" /\ UNCHANGED <<arrayVars, backend, max_memory_to_use, plan, open_files, state>>
  BY DEF RequestVirtArray, Open
<1>2. PICK a \in {Observed} \union {Other(o) : o \in OtherArrays} :
        /\ a.observed => \A k \in DOMAIN arrays : ~ arrays[k].observed
        /\ mem' \in SmallAllocations(mem, IMAGE, RoundUp(CONTROL))
        /\ arrays' = <<a>> \o arrays
  BY DEF RequestVirtArray
<1>3. /\ a \in Arrays /\ a.in_mem = 0 /\ a.b_s_open = FALSE
      /\ a.observed => a.rows = rows_in_array /\ a.maxaccess = maxaccess
  <2>1. CASE a = Observed
    BY <2>1, ObjectsAssumption, RowsAssumption, AccessAssumption DEF Observed, Arrays
  <2>2. ASSUME NEW o \in OtherArrays, a = Other(o)
        PROVE  a \in Arrays /\ a.in_mem = 0 /\ a.b_s_open = FALSE /\ ~ a.observed
    <3>1. {o.rows, o.width, o.maxaccess} \subseteq Nat \ {0}
      BY ObjectsAssumption
    <3> QED
      BY <2>2, <3>1 DEF Other, Arrays
  <2> QED
    BY <1>2, <2>1, <2>2
<1>4. ManagerType /\ MemType(mem) /\ Len(arrays) \in Nat /\ DOMAIN arrays = 1 .. Len(arrays)
  BY ListFacts DEF ManagerInv, ManagerType
<1>5. /\ arrays' \in Seq(Arrays) /\ Len(arrays') = Len(arrays) + 1
      /\ DOMAIN arrays' = 1 .. Len(arrays) + 1 /\ arrays'[1] = a
      /\ \A k \in 1 .. Len(arrays) : arrays'[k + 1] = arrays[k]
  BY <1>2, <1>3, <1>4, Prepended
<1>6. \A k \in DOMAIN arrays' : k = 1 \/ (k - 1 \in DOMAIN arrays /\ arrays'[k] = arrays[k - 1])
  <2> TAKE k \in DOMAIN arrays'
  <2>1. k = 1 \/ (k - 1 \in 1 .. Len(arrays) /\ (k - 1) + 1 = k)
    BY <1>4, <1>5
  <2> QED
    BY <2>1, <1>4, <1>5
<1>7. \A k \in DOMAIN arrays : k + 1 \in DOMAIN arrays' /\ arrays'[k + 1] = arrays[k]
  BY <1>4, <1>5
<1>8. OpenStores' = {k + 1 : k \in OpenStores} /\ Cardinality(OpenStores') = Cardinality(OpenStores)
  <2>1. ASSUME NEW k \in OpenStores' PROVE k \in {l + 1 : l \in OpenStores}
    <3>1. k \in DOMAIN arrays' /\ arrays'[k].b_s_open
      BY <2>1 DEF OpenStores
    <3>2. k # 1
      BY <3>1, <1>3, <1>5
    <3>3. k - 1 \in OpenStores /\ k = (k - 1) + 1
      BY <3>1, <3>2, <1>5, <1>6 DEF OpenStores
    <3> QED
      BY <3>3
  <2>2. ASSUME NEW l \in OpenStores PROVE l + 1 \in OpenStores'
    BY <1>7 DEF OpenStores
  <2>3. OpenStores' = {k + 1 : k \in OpenStores}
    BY <2>1, <2>2
  <2>4. OpenStores \in SUBSET Int /\ IsFiniteSet(OpenStores)
    BY <1>4, StoresFinite
  <2> QED
    BY <2>3, <2>4, MovedSize
<1>9. MemType(mem') /\ NothingLost'
  <2>1. IMAGE \in Pools /\ RoundUp(CONTROL) \in Int
    BY SystemAssumption, RoundUpFacts DEF Pools
  <2>2. PICK n \in Int : Grown(mem, mem', n)
    BY <1>2, <1>4, <2>1, SmallKept
  <2>3. Counted(mem, state) /\ open_files = Cardinality(OpenStores)
    BY <1>4, LostFacts DEF ManagerInv
  <2>4. MemType(mem') /\ Counted(mem', state)
    BY <1>4, <2>2, <2>3, GrownCounted
  <2> QED
    BY <1>1, <1>8, <2>3, <2>4, NextLostFacts
<1>10. ManagerType'
  BY <1>1, <1>5, <1>9 DEF ManagerInv, ManagerType
<1>11. ArraysBuffered'
  <2>1. Buffered(a)
    BY <1>3 DEF Buffered
  <2> QED
    BY <2>1, <1>5, <1>6 DEF ManagerInv, ArraysBuffered, Buffered
<1>12. StoresHaveBuffers'
  BY <1>1, <1>3, <1>5, <1>6 DEF ManagerInv, StoresHaveBuffers
<1>13. ObservedIsArray'
  <2>1. rows_in_mem' = rows_in_mem
    BY <1>1 DEF arrayVars, bufferVars
  <2>2. ASSUME NEW k \in DOMAIN arrays', arrays'[k].observed
        PROVE  arrays'[k].rows = rows_in_array /\ arrays'[k].maxaccess = maxaccess /\ arrays'[k].in_mem = rows_in_mem'
    <3>1. CASE k = 1
      <4>1. rows_in_mem = 0
        BY <2>2, <3>1, <1>2, <1>5 DEF ManagerInv, ObservedIsArray
      <4> QED
        BY <2>1, <2>2, <3>1, <4>1, <1>3, <1>5
    <3>2. CASE k # 1
      BY <2>1, <2>2, <3>2, <1>6 DEF ManagerInv, ObservedIsArray
    <3> QED
      BY <3>1, <3>2
  <2>3. ASSUME NEW k \in DOMAIN arrays', NEW l \in DOMAIN arrays', arrays'[k].observed, arrays'[l].observed
        PROVE  k = l
    <3>1. CASE a.observed
      BY <2>3, <3>1, <1>2, <1>6
    <3>2. CASE ~ a.observed
      <4>1. k - 1 \in DOMAIN arrays /\ l - 1 \in DOMAIN arrays /\ arrays[k - 1].observed /\ arrays[l - 1].observed
        BY <2>3, <3>2, <1>5, <1>6
      <4>2. k - 1 = l - 1
        BY <4>1 DEF ManagerInv, ObservedIsArray
      <4> QED
        BY <4>2, <1>5
    <3> QED
      BY <3>1, <3>2
  <2>4. (\A k \in DOMAIN arrays' : ~ arrays'[k].observed) => rows_in_mem' = 0
    <3>1. (\A k \in DOMAIN arrays' : ~ arrays'[k].observed) => \A k \in DOMAIN arrays : ~ arrays[k].observed
      BY <1>7
    <3> QED
      BY <2>1, <3>1 DEF ManagerInv, ObservedIsArray
  <2> QED
    BY <2>2, <2>3, <2>4 DEF ObservedIsArray
<1>14. PlanFollowed'
  <2>1. PICK u \in 0 .. Len(arrays) : Unrealized = 1 .. u
    BY <1>1 DEF ManagerInv, PlanFollowed
  <2>2. Unrealized' = 1 .. u + 1
    <3>1. ASSUME NEW k \in Unrealized' PROVE k \in 1 .. u + 1
      <4>1. k \in DOMAIN arrays' /\ arrays'[k].in_mem = 0
        BY <3>1 DEF Unrealized
      <4>2. k = 1 \/ k - 1 \in Unrealized
        BY <4>1, <1>6 DEF Unrealized
      <4> QED
        BY <4>1, <4>2, <2>1, <1>5
    <3>2. ASSUME NEW k \in 1 .. u + 1 PROVE k \in Unrealized'
      <4>1. CASE k = 1
        BY <4>1, <1>3, <1>4, <1>5 DEF Unrealized
      <4>2. CASE k # 1
        <5>1. k - 1 \in Unrealized /\ (k - 1) + 1 = k
          BY <4>2, <2>1
        <5>2. k - 1 \in DOMAIN arrays /\ arrays[k - 1].in_mem = 0
          BY <5>1 DEF Unrealized
        <5>3. k \in DOMAIN arrays' /\ arrays'[k] = arrays[k - 1]
          BY <5>1, <5>2, <1>7
        <5> QED
          BY <5>2, <5>3 DEF Unrealized
      <4> QED
        BY <4>1, <4>2
    <3> QED
      BY <3>1, <3>2
  <2>3. u + 1 \in 0 .. Len(arrays') /\ u + 1 # 0
    BY <1>5, <1>4
  <2> QED
    BY <1>1, <2>2, <2>3 DEF PlanFollowed
<1> QED
  BY <1>9, <1>10, <1>11, <1>12, <1>13, <1>14 DEF ManagerInv

-----------------------------------------------------------------------------
\* The sums that a realize_virt_arrays starts from.
LEMMA SumNotNegative ==
  ASSUME NEW S, IsFiniteSet(S), NEW f, \A x \in S : f[x] \in Nat
  PROVE  SumFunctionOnSet(f, S) \in Nat /\ \A x \in S : f[x] <= SumFunctionOnSet(f, S)
<1> DEFINE Good == {T \in SUBSET S : SumFunctionOnSet(f, T) \in Nat}
<1>1. {} \in Good
  BY SumEmpty
<1>2. ASSUME NEW T \in SUBSET S, NEW x \in S \ T, T \in Good
      PROVE  T \union {x} \in Good
  <2>1. IsFiniteSet(T) /\ Ints(f, T \union {x})
    BY FS_Subset DEF Ints
  <2>2. SumFunctionOnSet(f, T \union {x}) = f[x] + SumFunctionOnSet(f, T)
    BY <2>1, SumAdd
  <2> QED
    BY <1>2, <2>2
<1>3. \A T \in SUBSET S : T \in Good
  <2> TAKE T \in SUBSET S
  <2>1. IsFiniteSet(T) /\ \A U \in SUBSET T : \A x \in T \ U : U \in Good => U \union {x} \in Good
    BY <1>2, FS_Subset
  <2> HIDE DEF Good
  <2> QED
    BY <1>1, <2>1, SetInduction
<1>4. ASSUME NEW x \in S PROVE f[x] <= SumFunctionOnSet(f, S)
  <2>1. SumFunctionOnSet(f, S) = f[x] + SumFunctionOnSet(f, S \ {x})
    BY SumRemove DEF Ints
  <2>2. SumFunctionOnSet(f, S \ {x}) \in Nat
    BY <1>3
  <2> QED
    BY <2>1, <2>2
<1> QED
  BY <1>3, <1>4

\* The space that some of the arrays need is a sum of numbers that are not negative.
LEMMA SpaceFacts ==
  ASSUME ManagerType, NEW S \in SUBSET (1 .. Len(arrays))
  PROVE  /\ IsFiniteSet(S)
         /\ \A k \in S : LeastSpace[k] \in Nat \ {0} /\ FullSpace[k] \in Nat
         /\ SumFunctionOnSet(LeastSpace, S) \in Nat /\ SumFunctionOnSet(FullSpace, S) \in Nat
         /\ S # {} => SumFunctionOnSet(LeastSpace, S) >= 1
<1>1. IsFiniteSet(S)
  <2>1. IsFiniteSet(1 .. Len(arrays))
    BY ListFacts, FS_Interval
  <2> QED
    BY <2>1, FS_Subset
<1>2. \A k \in S : LeastSpace[k] \in Nat \ {0} /\ FullSpace[k] \in Nat
  <2> TAKE k \in S
  <2> DEFINE a == arrays[k]
  <2>1. a.rows \in Nat \ {0} /\ a.width \in Nat \ {0} /\ a.maxaccess \in Nat \ {0} /\ k \in DOMAIN arrays
    BY ListFacts
  <2>2. LeastSpace[k] = a.maxaccess * a.width /\ FullSpace[k] = a.rows * a.width
    BY <2>1 DEF LeastSpace, FullSpace
  <2> HIDE DEF a
  <2> DEFINE r == a.rows
             w == a.width
             x == a.maxaccess
  <2>3. r \in Nat \ {0} /\ w \in Nat \ {0} /\ x \in Nat \ {0}
    BY <2>1
  <2> HIDE DEF r, w, x
  <2>4. x * w \in Nat \ {0} /\ r * w \in Nat
    BY <2>3
  <2> QED
    BY <2>2, <2>4 DEF r, w, x
<1>3. /\ SumFunctionOnSet(LeastSpace, S) \in Nat /\ SumFunctionOnSet(FullSpace, S) \in Nat
      /\ \A k \in S : LeastSpace[k] <= SumFunctionOnSet(LeastSpace, S)
  <2>1. (\A k \in S : LeastSpace[k] \in Nat) /\ \A k \in S : FullSpace[k] \in Nat
    BY <1>2
  <2>2. SumFunctionOnSet(LeastSpace, S) \in Nat /\ \A k \in S : LeastSpace[k] <= SumFunctionOnSet(LeastSpace, S)
    BY <1>1, <2>1, SumNotNegative
  <2>3. SumFunctionOnSet(FullSpace, S) \in Nat
    BY <1>1, <2>1, SumNotNegative
  <2> QED
    BY <2>2, <2>3
<1>4. ASSUME S # {} PROVE SumFunctionOnSet(LeastSpace, S) >= 1
  <2>1. PICK k \in S : TRUE
    BY <1>4
  <2>2. LeastSpace[k] \in Nat \ {0} /\ LeastSpace[k] <= SumFunctionOnSet(LeastSpace, S)
    BY <1>2, <1>3
  <2> QED
    BY <1>3, <2>2
<1> QED
  BY <1>1, <1>2, <1>3, <1>4

\* Whatever the system-dependent part is, it names a number of bytes.
LEMMA AvailableFacts ==
  ASSUME ManagerType, NEW avail \in Available
  PROVE  avail \in Int
<1>1. maximum_space \in Int /\ mem.total \in Int /\ max_memory_to_use \in Int
  <2>1. Unrealized \subseteq 1 .. Len(arrays)
    BY ListFacts DEF Unrealized
  <2> QED
    BY <2>1, SpaceFacts, BytesFacts DEF maximum_space, ManagerType, MemType
<1>2. CASE backend = "file"
  BY <1>1, <1>2 DEF Available, FileAvailable
<1>3. CASE backend = "nobs"
  BY <1>1, <1>3 DEF Available, NobsAvailable
<1>4. CASE backend = "mac"
  <2>1. avail \in MacAvailable
    BY <1>4 DEF Available
  <2> DEFINE limit == max_memory_to_use - mem.total
             needed == IF maximum_space > limit /\ limit > 0 THEN limit ELSE maximum_space
             slop == (needed \div 16) + MAC_SLOP
             Capped(n) == IF n > limit /\ limit > 0 THEN limit ELSE n
  <2>2. limit \in Int
    BY <1>1
  <2> HIDE DEF limit
  <2>3. needed \in Int
    BY <1>1, <2>2
  <2> HIDE DEF needed
  <2>4. slop \in Int
    BY <2>3, SystemAssumption
  <2> HIDE DEF slop
  <2>5. \A n \in Int : Capped(n) \in Int
    BY <2>2
  <2>6. \A free \in FreeBlocks : (IF free < slop THEN 0 ELSE free - slop) \in Int
    BY <2>4, SystemAssumption
  <2>7. PICK free \in FreeBlocks : avail = Capped(IF free < slop THEN 0 ELSE free - slop)
    BY <2>1 DEF MacAvailable, limit, needed, slop
  <2> HIDE DEF Capped
  <2> QED
    BY <2>5, <2>6, <2>7
<1> QED
  BY <1>2, <1>3, <1>4 DEF ManagerType

\* The plan of realize_virt_arrays keeps to what is available.
LEMMA BeginRealizeInv == ASSUME ManagerInv, BeginRealize PROVE ManagerInv'
<1>1. /\ state = "open" /\ state' = "realizing" /\ Unrealized # {}
      /\ UNCHANGED <<arrayVars, backend, max_memory_to_use, mem, arrays, open_files>>
  BY DEF BeginRealize
<1>2. ManagerType
  BY DEF ManagerInv
<1>3. PICK avail \in Available :
        plan' = [avail |-> avail, least |-> space_per_minheight, max_minheights |-> MinHeights(avail),
                 arrays |-> Cardinality(Unrealized)]
  BY DEF BeginRealize
<1>4. PICK u \in 0 .. Len(arrays) : Unrealized = 1 .. u
  BY <1>1 DEF ManagerInv, PlanFollowed
<1>5. u \in Nat \ {0} /\ Cardinality(Unrealized) = u /\ Len(arrays) \in Nat /\ u <= Len(arrays)
  <2>1. Len(arrays) \in Nat
    BY <1>2, ListFacts
  <2>2. u # 0
    BY <1>1, <1>4
  <2>3. Cardinality(1 .. u) = u
    BY <2>1, FS_Interval
  <2> QED
    BY <2>1, <2>2, <2>3, <1>4
<1>6. 1 .. u \in SUBSET (1 .. Len(arrays)) /\ 1 .. u # {}
  <2>1. ASSUME NEW k \in 1 .. u PROVE k \in 1 .. Len(arrays)
    BY <1>5
  <2>2. 1 \in 1 .. u
    BY <1>5
  <2> QED
    BY <2>1, <2>2
<1>7. /\ space_per_minheight = SumFunctionOnSet(LeastSpace, 1 .. u) /\ space_per_minheight \in Nat \ {0}
      /\ maximum_space = SumFunctionOnSet(FullSpace, 1 .. u) /\ maximum_space \in Nat /\ avail \in Int
  <2>1. SumFunctionOnSet(LeastSpace, 1 .. u) \in Nat \ {0} /\ SumFunctionOnSet(FullSpace, 1 .. u) \in Nat
    BY <1>2, <1>6, SpaceFacts
  <2> QED
    BY <2>1, <1>2, <1>4, AvailableFacts DEF space_per_minheight, maximum_space
<1>8. /\ MinHeights(avail) \in Nat \ {0}
      /\ maximum_space <= avail \/ MinHeights(avail) = 1 \/ MinHeights(avail) * space_per_minheight <= avail
  <2>1. CASE avail >= maximum_space
    BY <2>1, <1>7 DEF MinHeights
  <2>2. CASE ~ (avail >= maximum_space) /\ avail < space_per_minheight
    BY <2>2, <1>7 DEF MinHeights
  <2>3. CASE ~ (avail >= maximum_space) /\ ~ (avail < space_per_minheight)
    <3> DEFINE s == space_per_minheight
               q == avail \div s
    <3>1. MinHeights(avail) = q
      BY <2>3 DEF MinHeights
    <3> HIDE DEF s
    <3>2. s \in Nat /\ s > 0 /\ avail \in Nat /\ avail >= s
      BY <2>3, <1>7 DEF s
    <3>3. q \in Nat /\ avail % s \in 0 .. s - 1 /\ avail = (s * q) + (avail % s)
      BY <3>2
    <3> DEFINE r == avail % s
    <3> HIDE DEF q, r
    <3>4. s * q \in Nat /\ r \in 0 .. s - 1 /\ avail = s * q + r
      BY <3>2, <3>3 DEF r
    <3>5. q # 0
      <4>1. q = 0 => s * q = 0
        BY <3>2
      <4> QED
        BY <4>1, <3>2, <3>4
    <3>6. q * s = s * q
      BY <3>2, <3>3
    <3>7. q * s <= avail
      BY <3>2, <3>4, <3>6
    <3> QED
      BY <3>1, <3>3, <3>5, <3>7 DEF s
  <2> QED
    BY <2>1, <2>2, <2>3
<1>9. LeastSpace' = LeastSpace /\ FullSpace' = FullSpace /\ Unrealized' = Unrealized
  BY <1>1 DEF LeastSpace, FullSpace, Unrealized
<1>10. /\ plan'.arrays = u /\ plan'.max_minheights = MinHeights(avail) /\ plan'.avail = avail
       /\ plan'.least = space_per_minheight
  BY <1>3, <1>5
<1>11. PlanHolds'
  <2>1. plan'.arrays \in 0 .. Len(arrays') /\ plan'.max_minheights \in Nat \ {0} /\ plan'.avail \in Int
    BY <1>1, <1>5, <1>7, <1>8, <1>10
  <2>2. plan'.least = SumFunctionOnSet(LeastSpace', 1 .. plan'.arrays)
    BY <1>7, <1>9, <1>10
  <2>3. ASSUME NEW k \in 1 .. plan'.arrays
        PROVE  arrays'[k].in_mem <= plan'.max_minheights * arrays'[k].maxaccess /\ arrays'[k].in_mem <= arrays'[k].rows
    <3>1. k \in 1 .. u /\ k \in 1 .. Len(arrays)
      BY <2>3, <1>5, <1>10
    <3>2. arrays[k].in_mem = 0
      BY <3>1, <1>4 DEF Unrealized
    <3>3. arrays[k].maxaccess \in Nat /\ arrays[k].rows \in Nat
      BY <3>1, <1>2, ListFacts
    <3> DEFINE h == plan'.max_minheights
               x == arrays[k].maxaccess
    <3>4. h \in Nat /\ x \in Nat
      BY <3>3, <2>1
    <3> HIDE DEF h, x
    <3>5. 0 <= h * x
      BY <3>4
    <3> QED
      BY <3>2, <3>3, <3>5, <1>1 DEF h, x
  <2>4. \/ SumFunctionOnSet(FullSpace', 1 .. plan'.arrays) <= plan'.avail
        \/ plan'.max_minheights = 1
        \/ plan'.max_minheights * plan'.least <= plan'.avail
    BY <1>7, <1>8, <1>9, <1>10
  <2> QED
    BY <2>1, <2>2, <2>3, <2>4 DEF PlanHolds
<1>12. PlanFollowed'
  <2>1. 0 \in 0 .. plan'.arrays /\ Unrealized' = 0 + 1 .. plan'.arrays
    BY <1>4, <1>5, <1>9, <1>10
  <2> QED
    BY <1>1, <1>11, <2>1 DEF PlanFollowed
<1>13. ManagerType' /\ ArraysBuffered' /\ StoresHaveBuffers'
  BY <1>1 DEF ManagerInv, ManagerType, ArraysBuffered, StoresHaveBuffers
<1>14. ObservedIsArray'
  BY <1>1 DEF ManagerInv, ObservedIsArray, arrayVars, bufferVars
<1>15. NothingLost'
  <2>1. OpenStores' = OpenStores /\ InPools(mem', PERMANENT) = InPools(mem, PERMANENT)
        /\ InPools(mem', IMAGE) = InPools(mem, IMAGE)
    BY <1>1 DEF OpenStores
  <2> QED
    BY <1>1, <2>1 DEF ManagerInv, NothingLost
<1> QED
  BY <1>12, <1>13, <1>14, <1>15 DEF ManagerInv

-----------------------------------------------------------------------------
\* The array that is realized next.
LEMMA NextArray ==
  ASSUME ManagerInv, state = "realizing", Unrealized # {}
  PROVE  /\ PlanHolds /\ FirstOf(Unrealized) \in 1 .. plan.arrays
         /\ Unrealized = FirstOf(Unrealized) .. plan.arrays
         /\ FirstOf(Unrealized) \in 1 .. Len(arrays) /\ plan.arrays \in 0 .. Len(arrays)
         /\ arrays[FirstOf(Unrealized)].in_mem = 0 /\ ~ arrays[FirstOf(Unrealized)].b_s_open
<1>1. PlanHolds
  BY DEF ManagerInv, PlanFollowed
<1>2. PICK d \in 0 .. plan.arrays : Unrealized = d + 1 .. plan.arrays
  BY DEF ManagerInv, PlanFollowed
<1>3. plan.arrays \in 0 .. Len(arrays) /\ Len(arrays) \in Nat /\ d \in Nat /\ plan.arrays \in Nat
  BY <1>1, ListFacts DEF PlanHolds, ManagerInv
<1> DEFINE k == FirstOf(Unrealized)
<1>4. k \in Unrealized /\ \A j \in Unrealized : k <= j
  <2>1. Unrealized \in SUBSET Nat
    BY <1>2, <1>3
  <2> QED
    BY <2>1, FirstFacts
<1> HIDE DEF k
<1>5. k = d + 1
  <2>1. d + 1 \in Unrealized
    BY <1>2, <1>3, <1>4
  <2> QED
    BY <2>1, <1>2, <1>3, <1>4
<1>6. k \in 1 .. plan.arrays /\ k \in 1 .. Len(arrays)
  BY <1>2, <1>3, <1>4
<1>7. k \in DOMAIN arrays /\ arrays[k].in_mem = 0
  BY <1>4 DEF Unrealized
<1>8. ~ arrays[k].b_s_open
  BY <1>7 DEF ManagerInv, StoresHaveBuffers
<1> QED
  BY <1>1, <1>2, <1>3, <1>5, <1>6, <1>7, <1>8 DEF k

\* jmemmgr.c:493: a buffer of some strips or of all rows, as many as the plan allows.
LEMMA BufferRowsFacts ==
  ASSUME NEW a \in Arrays, plan.max_minheights \in Nat \ {0}
  PROVE  /\ BufferRows(a) \in 1 .. a.rows
         /\ BufferRows(a) = a.rows \/ BufferRows(a) % a.maxaccess = 0
         /\ BufferRows(a) <= plan.max_minheights * a.maxaccess
<1> DEFINE r == a.rows
           x == a.maxaccess
           m == plan.max_minheights
           q == (r - 1) \div x
<1>1. r \in Nat \ {0} /\ x \in Nat \ {0} /\ m \in Nat \ {0}
  BY DEF Arrays
<1>2. BufferRows(a) = IF q + 1 <= m THEN r ELSE m * x
  BY DEF BufferRows
<1> HIDE DEF r, x, m
<1>3. r - 1 \in Nat /\ x \in Nat /\ x > 0
  BY <1>1
<1> DEFINE rest == (r - 1) % x
<1>4. q \in Nat /\ rest \in 0 .. x - 1 /\ r - 1 = (x * q) + rest
  BY <1>3
<1> HIDE DEF q, rest
<1>5. x * q \in Nat /\ m * x \in Nat /\ x * q = q * x
  BY <1>1, <1>4
<1>6. CASE q + 1 <= m
  <2>1. (q + 1) * x = q * x + x
    BY <1>1, <1>4
  <2>2. (q + 1) * x <= m * x
    BY <1>1, <1>4, <1>6
  <2>3. r <= m * x
    BY <1>1, <1>4, <1>5, <2>1, <2>2
  <2> QED
    BY <2>3, <1>1, <1>2, <1>6 DEF r, x, m
<1>7. CASE ~ (q + 1 <= m)
  <2>1. m * x <= q * x
    BY <1>1, <1>4, <1>7
  <2>2. m * x < r
    BY <1>1, <1>4, <1>5, <2>1
  <2>3. m * x >= 1
    BY <1>1
  <2>4. (m * x) % x = 0
    BY <1>1
  <2>5. BufferRows(a) = m * x
    BY <1>2, <1>7
  <2> QED
    BY <2>2, <2>3, <2>4, <2>5, <1>1, <1>5 DEF r, x, m
<1> QED
  BY <1>6, <1>7

\* One array of the list gets a buffer or a backing store.
LEMMA Changed ==
  ASSUME ManagerType, NEW k \in 1 .. Len(arrays), NEW h \in Nat, NEW stored \in BOOLEAN,
         arrays' = [arrays EXCEPT ![k] = [@ EXCEPT !.in_mem = h, !.b_s_open = stored]]
  PROVE  /\ arrays' \in Seq(Arrays) /\ Len(arrays') = Len(arrays) /\ DOMAIN arrays' = DOMAIN arrays
         /\ DOMAIN arrays = 1 .. Len(arrays)
         /\ \A l \in 1 .. Len(arrays) : l # k => arrays'[l] = arrays[l]
         /\ arrays'[k].in_mem = h /\ arrays'[k].b_s_open = stored
         /\ \A l \in 1 .. Len(arrays) :
              /\ arrays'[l].rows = arrays[l].rows /\ arrays'[l].width = arrays[l].width
              /\ arrays'[l].maxaccess = arrays[l].maxaccess /\ arrays'[l].observed = arrays[l].observed
         /\ LeastSpace' = LeastSpace /\ FullSpace' = FullSpace
<1> DEFINE new == [arrays[k] EXCEPT !.in_mem = h, !.b_s_open = stored]
<1>1. arrays \in Seq(Arrays) /\ DOMAIN arrays = 1 .. Len(arrays) /\ Len(arrays) \in Nat /\ arrays[k] \in Arrays
  BY ListFacts DEF ManagerType
<1>2. /\ new \in Arrays /\ new.in_mem = h /\ new.b_s_open = stored
      /\ new.rows = arrays[k].rows /\ new.width = arrays[k].width
      /\ new.maxaccess = arrays[k].maxaccess /\ new.observed = arrays[k].observed
  BY <1>1 DEF Arrays
<1>3. arrays' = [arrays EXCEPT ![k] = new]
  OBVIOUS
<1> HIDE DEF new
<1>4. /\ arrays' \in Seq(Arrays) /\ Len(arrays') = Len(arrays) /\ DOMAIN arrays' = DOMAIN arrays
      /\ arrays'[k] = new /\ \A l \in 1 .. Len(arrays) : l # k => arrays'[l] = arrays[l]
  BY <1>1, <1>2, <1>3
<1>5. ASSUME NEW l \in 1 .. Len(arrays)
      PROVE  /\ arrays'[l].rows = arrays[l].rows /\ arrays'[l].width = arrays[l].width
             /\ arrays'[l].maxaccess = arrays[l].maxaccess /\ arrays'[l].observed = arrays[l].observed
  <2>1. CASE l = k
    BY <2>1, <1>2, <1>4
  <2>2. CASE l # k
    BY <2>2, <1>4
  <2> QED
    BY <2>1, <2>2
<1>6. LeastSpace' = LeastSpace /\ FullSpace' = FullSpace
  BY <1>1, <1>4, <1>5 DEF LeastSpace, FullSpace
<1> QED
  BY <1>1, <1>2, <1>4, <1>5, <1>6

\* The assignments to in_mem and b_s_open as one change of an array.
LEMMA TwoFields ==
  ASSUME ManagerType, NEW k \in 1 .. Len(arrays), NEW h, NEW stored
  PROVE  [arrays EXCEPT ![k].in_mem = h, ![k].b_s_open = stored]
           = [arrays EXCEPT ![k] = [@ EXCEPT !.in_mem = h, !.b_s_open = stored]]
<1>1. k \in DOMAIN arrays /\ arrays \in Seq(Arrays)
  BY ListFacts DEF ManagerType
<1> QED
  BY <1>1

LEMMA OneField ==
  ASSUME ManagerType, NEW k \in 1 .. Len(arrays), arrays[k].in_mem = 0, NEW stored
  PROVE  [arrays EXCEPT ![k].b_s_open = stored]
           = [arrays EXCEPT ![k] = [@ EXCEPT !.in_mem = 0, !.b_s_open = stored]]
<1>1. k \in DOMAIN arrays /\ arrays[k] \in Arrays
  BY ListFacts
<1>2. [arrays[k] EXCEPT !.b_s_open = stored] = [arrays[k] EXCEPT !.in_mem = 0, !.b_s_open = stored]
  BY <1>1 DEF Arrays
<1> QED
  BY <1>1, <1>2

\* The files are those of the arrays that have a backing store.
LEMMA StoresAfter ==
  ASSUME ManagerType, NEW k \in 1 .. Len(arrays), NEW h \in Nat, NEW stored \in BOOLEAN,
         arrays' = [arrays EXCEPT ![k] = [@ EXCEPT !.in_mem = h, !.b_s_open = stored]],
         ~ arrays[k].b_s_open, open_files = Cardinality(OpenStores),
         open_files' = IF stored THEN open_files + 1 ELSE open_files
  PROVE  open_files' = Cardinality(OpenStores')
<1>1. IsFiniteSet(OpenStores) /\ k \notin OpenStores /\ Cardinality(OpenStores) \in Nat
  BY StoresFinite DEF OpenStores
<1>2. OpenStores' = IF stored THEN OpenStores \union {k} ELSE OpenStores
  <2>1. ASSUME NEW l PROVE l \in OpenStores' <=> l \in OpenStores \/ (l = k /\ stored)
    <3>1. l \in OpenStores' <=> l \in 1 .. Len(arrays) /\ arrays'[l].b_s_open
      BY Changed DEF OpenStores
    <3>2. l \in OpenStores <=> l \in 1 .. Len(arrays) /\ arrays[l].b_s_open
      BY Changed DEF OpenStores
    <3>3. arrays'[k].b_s_open = stored
      BY Changed
    <3>4. l \in 1 .. Len(arrays) /\ l # k => arrays'[l] = arrays[l]
      BY Changed
    <3> QED
      BY <3>1, <3>2, <3>3, <3>4
  <2> QED
    BY <2>1
<1>3. CASE stored
  BY <1>1, <1>2, <1>3, FS_AddElement
<1>4. CASE ~ stored
  BY <1>2, <1>4
<1> QED
  BY <1>3, <1>4

\* Memory for a buffer: pointers to the rows, and the rows in chunks.
LEMMA BufferGrows ==
  ASSUME MemType(mem), Counted(mem, state), NEW a \in Arrays, NEW h \in Nat \ {0}, Allocatable(a, h),
         NEW m \in SmallAllocations(mem, IMAGE, RoundUp(h * POINTER)),
         NEW done \in 0 .. Len(Chunks(a.width, h)),
         mem' = SomeChunks(m, IMAGE, a.width, h, done)
  PROVE  MemType(mem') /\ Counted(mem', state)
<1>1. IMAGE \in Pools /\ h * POINTER \in Int
  BY SystemAssumption DEF Pools
<1>2. RoundUp(h * POINTER) \in Int
  BY <1>1, RoundUpFacts
<1>3. PICK n \in Int : Grown(mem, m, n)
  BY <1>1, <1>2, SmallKept
<1>4. MemType(m) /\ Counted(m, state)
  BY <1>3, GrownCounted
<1>5. a.width \in Nat \ {0} /\ a.width <= MAX_ALLOC_CHUNK - HEADER
  BY DEF Arrays, Allocatable
<1>6. PICK n2 \in Int : Grown(m, mem', n2)
  BY <1>1, <1>4, <1>5, ChunksKept
<1> QED
  BY <1>4, <1>6, GrownCounted

\* The next array gets a buffer that keeps to the plan.
LEMMA RealizeArrayInv == ASSUME ManagerInv, RealizeArray PROVE ManagerInv'
<1> DEFINE k == FirstOf(Unrealized)
           a == arrays[k]
           h == BufferRows(a)
<1>1. /\ state = "realizing" /\ Unrealized # {}
      /\ UNCHANGED <<backend, max_memory_to_use, plan, state>>
      /\ Allocatable(a, h)
      /\ open_files' = IF h < a.rows THEN open_files + 1 ELSE open_files
      /\ arrays' = [arrays EXCEPT ![k].in_mem = h, ![k].b_s_open = (h < a.rows)]
      /\ IF a.observed THEN RealizeWith(h) ELSE UNCHANGED arrayVars
      /\ \E m \in SmallAllocations(mem, IMAGE, RoundUp(h * POINTER)) :
           mem' = SomeChunks(m, IMAGE, a.width, h, Len(Chunks(a.width, h)))
  BY DEF RealizeArray
<1>2. /\ PlanHolds /\ k \in 1 .. plan.arrays /\ Unrealized = k .. plan.arrays
      /\ k \in 1 .. Len(arrays) /\ plan.arrays \in 0 .. Len(arrays)
      /\ a.in_mem = 0 /\ ~ a.b_s_open
  BY <1>1, NextArray
<1>3. ManagerType /\ MemType(mem) /\ DOMAIN arrays = 1 .. Len(arrays) /\ Len(arrays) \in Nat
  BY ListFacts DEF ManagerInv, ManagerType
<1>4. a \in Arrays /\ a.rows \in Nat \ {0} /\ a.width \in Nat \ {0} /\ a.maxaccess \in Nat \ {0}
  BY <1>2, <1>3, ListFacts
<1> HIDE DEF k
<1>5. /\ h \in 1 .. a.rows /\ (h = a.rows \/ h % a.maxaccess = 0)
      /\ h <= plan.max_minheights * a.maxaccess /\ h \in Nat \ {0}
  <2>1. plan.max_minheights \in Nat \ {0}
    BY <1>2 DEF PlanHolds
  <2> HIDE DEF a
  <2>2. h \in 1 .. a.rows /\ (h = a.rows \/ h % a.maxaccess = 0) /\ h <= plan.max_minheights * a.maxaccess
    BY <2>1, <1>4, BufferRowsFacts
  <2> QED
    BY <2>2, <1>4
<1> HIDE DEF h
<1> DEFINE stored == h < a.rows
<1>6. stored \in BOOLEAN /\ arrays' = [arrays EXCEPT ![k] = [@ EXCEPT !.in_mem = h, !.b_s_open = stored]]
  <2>1. stored \in BOOLEAN
    BY <1>4, <1>5
  <2>2. arrays' = [arrays EXCEPT ![k].in_mem = h, ![k].b_s_open = stored]
    BY <1>1
  <2> HIDE DEF stored
  <2> QED
    BY <2>1, <2>2, <1>2, <1>3, <1>4, TwoFields
<1> HIDE DEF stored
<1>7. /\ arrays' \in Seq(Arrays) /\ Len(arrays') = Len(arrays) /\ DOMAIN arrays' = DOMAIN arrays
      /\ \A l \in 1 .. Len(arrays) : l # k => arrays'[l] = arrays[l]
      /\ arrays'[k].in_mem = h /\ arrays'[k].b_s_open = stored
      /\ \A l \in 1 .. Len(arrays) :
           /\ arrays'[l].rows = arrays[l].rows /\ arrays'[l].width = arrays[l].width
           /\ arrays'[l].maxaccess = arrays[l].maxaccess /\ arrays'[l].observed = arrays[l].observed
      /\ LeastSpace' = LeastSpace /\ FullSpace' = FullSpace
  BY <1>2, <1>3, <1>5, <1>6, Changed
<1>8. MemType(mem') /\ NothingLost'
  <2>1. Counted(mem, state) /\ open_files = Cardinality(OpenStores)
    BY <1>3, LostFacts DEF ManagerInv
  <2>2. MemType(mem') /\ Counted(mem', state)
    <3>1. Len(Chunks(a.width, h)) \in Nat
      BY <1>1, <1>4, <1>5, ChunkFacts DEF Allocatable
    <3>2. Len(Chunks(a.width, h)) \in 0 .. Len(Chunks(a.width, h))
      BY <3>1
    <3> HIDE DEF a
    <3> QED
      BY <3>2, <2>1, <1>1, <1>3, <1>4, <1>5, BufferGrows
  <2>3. open_files' = Cardinality(OpenStores')
    <3>1. open_files' = IF stored THEN open_files + 1 ELSE open_files
      BY <1>1 DEF stored
    <3> QED
      BY <3>1, <2>1, <1>2, <1>3, <1>5, <1>6, StoresAfter
  <2> QED
    BY <1>1, <2>2, <2>3, NextLostFacts
<1>9. ManagerType'
  <2>1. open_files' \in Int
    BY <1>1, <1>3 DEF ManagerType
  <2> QED
    BY <1>1, <1>3, <1>7, <1>8, <2>1 DEF ManagerType
<1>10. ArraysBuffered'
  <2>1. Buffered(arrays'[k])
    BY <1>4, <1>5, <1>7, <1>2 DEF Buffered
  <2>2. ASSUME NEW l \in DOMAIN arrays', l # k PROVE Buffered(arrays'[l])
    BY <2>2, <1>3, <1>7 DEF ManagerInv, ArraysBuffered
  <2>3. \A l \in DOMAIN arrays' : Buffered(arrays'[l])
    BY <2>1, <2>2
  <2> QED
    BY <2>3 DEF ArraysBuffered, Buffered
<1>11. StoresHaveBuffers'
  <2>1. ASSUME NEW l \in DOMAIN arrays', arrays'[l].b_s_open PROVE arrays'[l].in_mem # 0
    <3>1. CASE l = k
      BY <3>1, <1>5, <1>7
    <3>2. CASE l # k
      BY <2>1, <3>2, <1>1, <1>3, <1>7 DEF ManagerInv, StoresHaveBuffers
    <3> QED
      BY <3>1, <3>2
  <2> QED
    BY <2>1 DEF StoresHaveBuffers
<1>12. ObservedIsArray'
  <2>1. rows_in_mem' = IF a.observed THEN h ELSE rows_in_mem
    BY <1>1 DEF RealizeWith, arrayVars, bufferVars
  <2>2. ASSUME NEW l \in DOMAIN arrays', arrays'[l].observed
        PROVE  arrays'[l].rows = rows_in_array /\ arrays'[l].maxaccess = maxaccess /\ arrays'[l].in_mem = rows_in_mem'
    <3>1. l \in DOMAIN arrays /\ arrays[l].observed
      BY <2>2, <1>3, <1>7
    <3>2. arrays'[l].rows = rows_in_array /\ arrays'[l].maxaccess = maxaccess
      BY <3>1, <1>3, <1>7 DEF ManagerInv, ObservedIsArray
    <3>3. arrays[l].in_mem = rows_in_mem
      BY <3>1 DEF ManagerInv, ObservedIsArray
    <3>4. a.observed => l = k
      BY <3>1, <1>2, <1>3 DEF ManagerInv, ObservedIsArray
    <3>5. arrays'[l].in_mem = rows_in_mem'
      <4>1. CASE l = k
        BY <4>1, <3>1, <2>1, <1>7
      <4>2. CASE l # k
        BY <4>2, <3>1, <3>3, <3>4, <2>1, <1>3, <1>7
      <4> QED
        BY <4>1, <4>2
    <3> QED
      BY <3>2, <3>5
  <2>3. \A l, j \in DOMAIN arrays' : arrays'[l].observed /\ arrays'[j].observed => l = j
    BY <1>3, <1>7 DEF ManagerInv, ObservedIsArray
  <2>4. (\A l \in DOMAIN arrays' : ~ arrays'[l].observed) => rows_in_mem' = 0
    <3> SUFFICES ASSUME \A l \in DOMAIN arrays' : ~ arrays'[l].observed PROVE rows_in_mem' = 0
      OBVIOUS
    <3>1. \A l \in DOMAIN arrays : ~ arrays[l].observed
      BY <1>3, <1>7
    <3>2. ~ a.observed
      BY <3>1, <1>2, <1>3
    <3> QED
      BY <3>1, <3>2, <2>1 DEF ManagerInv, ObservedIsArray
  <2> QED
    BY <2>2, <2>3, <2>4 DEF ObservedIsArray
<1>13. PlanFollowed'
  <2>1. plan.arrays \in Nat /\ k \in Nat /\ k <= plan.arrays
    BY <1>2, <1>3
  <2>2. Unrealized' = k + 1 .. plan.arrays
    <3>1. ASSUME NEW l PROVE l \in Unrealized' <=> l \in Unrealized /\ l # k
      <4>1. l \in Unrealized' <=> l \in 1 .. Len(arrays) /\ arrays'[l].in_mem = 0
        BY <1>3, <1>7 DEF Unrealized
      <4>2. l \in Unrealized <=> l \in 1 .. Len(arrays) /\ arrays[l].in_mem = 0
        BY <1>3 DEF Unrealized
      <4>3. l = k => ~ (arrays'[l].in_mem = 0)
        BY <1>5, <1>7
      <4>4. l # k /\ l \in 1 .. Len(arrays) => arrays'[l] = arrays[l]
        BY <1>7
      <4> QED
        BY <4>1, <4>2, <4>3, <4>4
    <3>2. \A l : l \in Unrealized /\ l # k <=> l \in k + 1 .. plan.arrays
      BY <2>1, <1>2
    <3> QED
      BY <3>1, <3>2
  <2>3. PlanHolds'
    <3>1. ASSUME NEW l \in 1 .. plan.arrays
          PROVE  arrays'[l].in_mem <= plan.max_minheights * arrays'[l].maxaccess /\ arrays'[l].in_mem <= arrays'[l].rows
      <4>1. l \in 1 .. Len(arrays)
        BY <1>2, <1>3
      <4>2. CASE l = k
        BY <4>1, <4>2, <1>4, <1>5, <1>7
      <4>3. CASE l # k
        BY <4>1, <4>3, <1>2, <1>7 DEF PlanHolds
      <4> QED
        BY <4>2, <4>3
    <3> QED
      BY <3>1, <1>1, <1>2, <1>7 DEF PlanHolds
  <2>4. k \in 0 .. plan.arrays
    BY <2>1
  <2> QED
    BY <1>1, <2>2, <2>3, <2>4 DEF PlanFollowed
<1> QED
  BY <1>8, <1>9, <1>10, <1>11, <1>12, <1>13 DEF ManagerInv

\* A failure half way: what was got is in the lists, and the file that was opened is known.
LEMMA RealizeFailsInv == ASSUME ManagerInv, RealizeFails PROVE ManagerInv'
<1> DEFINE k == FirstOf(Unrealized)
           a == arrays[k]
           h == BufferRows(a)
<1>1. /\ state = "realizing" /\ Unrealized # {} /\ state' = "error"
      /\ UNCHANGED <<arrayVars, backend, max_memory_to_use, plan>>
  BY DEF RealizeFails
<1>2. /\ PlanHolds /\ k \in 1 .. Len(arrays) /\ a.in_mem = 0 /\ ~ a.b_s_open
  BY <1>1, NextArray
<1>3. ManagerType /\ MemType(mem) /\ DOMAIN arrays = 1 .. Len(arrays) /\ Len(arrays) \in Nat
  BY ListFacts DEF ManagerInv, ManagerType
<1>4. a \in Arrays /\ a.rows \in Nat \ {0} /\ a.width \in Nat \ {0}
  BY <1>2, <1>3, ListFacts
<1>5. h \in Nat \ {0}
  <2>1. plan.max_minheights \in Nat \ {0}
    BY <1>2 DEF PlanHolds
  <2> HIDE DEF a
  <2>2. h \in 1 .. a.rows
    BY <2>1, <1>4, BufferRowsFacts
  <2> QED
    BY <2>2, <1>4
<1>6. Counted(mem, state) /\ Counted(mem, state') /\ open_files = Cardinality(OpenStores)
  <2>1. Counted(mem, state) /\ open_files = Cardinality(OpenStores)
    BY <1>3, LostFacts DEF ManagerInv
  <2> QED
    BY <2>1, <1>1 DEF Counted, Base
<1>7. rows_in_mem' = rows_in_mem /\ PlanFollowed' /\ StoresHaveBuffers'
  BY <1>1 DEF arrayVars, bufferVars, PlanFollowed, StoresHaveBuffers
<1>8. CASE UNCHANGED <<mem, open_files, arrays>>
  <2>1. NothingLost'
    <3>1. OpenStores' = OpenStores
      BY <1>8 DEF OpenStores
    <3> QED
      BY <3>1, <1>3, <1>6, <1>8, NextLostFacts
  <2>2. ManagerType' /\ ArraysBuffered'
    BY <1>1, <1>3, <1>8 DEF ManagerInv, ManagerType, ArraysBuffered
  <2>3. ObservedIsArray'
    BY <1>7, <1>8 DEF ManagerInv, ObservedIsArray
  <2> QED
    BY <2>1, <2>2, <2>3, <1>7 DEF ManagerInv
<1>9. CASE /\ open_files' = IF h < a.rows THEN open_files + 1 ELSE open_files
           /\ arrays' = [arrays EXCEPT ![k].b_s_open = (h < a.rows)]
           /\ \/ UNCHANGED mem
              \/ /\ Allocatable(a, h)
                 /\ \E m \in SmallAllocations(mem, IMAGE, RoundUp(h * POINTER)),
                       done \in 0 .. Len(Chunks(a.width, h)) - 1 :
                      mem' = SomeChunks(m, IMAGE, a.width, h, done)
  <2> HIDE DEF k
  <2> HIDE DEF h
  <2> DEFINE stored == h < a.rows
  <2>1. stored \in BOOLEAN /\ arrays' = [arrays EXCEPT ![k] = [@ EXCEPT !.in_mem = 0, !.b_s_open = stored]]
    <3>1. stored \in BOOLEAN
      BY <1>4, <1>5
    <3>2. arrays' = [arrays EXCEPT ![k].b_s_open = stored]
      BY <1>9
    <3> HIDE DEF stored
    <3> QED
      BY <3>1, <3>2, <1>2, <1>3, <1>4, OneField
  <2>2. open_files' = IF stored THEN open_files + 1 ELSE open_files
    BY <1>9
  <2> HIDE DEF stored
  <2>3. /\ arrays' \in Seq(Arrays) /\ Len(arrays') = Len(arrays) /\ DOMAIN arrays' = DOMAIN arrays
        /\ \A l \in 1 .. Len(arrays) : l # k => arrays'[l] = arrays[l]
        /\ arrays'[k].in_mem = 0
        /\ \A l \in 1 .. Len(arrays) :
             /\ arrays'[l].rows = arrays[l].rows /\ arrays'[l].maxaccess = arrays[l].maxaccess
             /\ arrays'[l].observed = arrays[l].observed
    <3>1. 0 \in Nat
      OBVIOUS
    <3> QED
      BY <3>1, <1>2, <1>3, <2>1, Changed
  <2>4. open_files' = Cardinality(OpenStores')
    <3>1. 0 \in Nat
      OBVIOUS
    <3> QED
      BY <3>1, <1>2, <1>3, <1>6, <2>1, <2>2, StoresAfter
  <2>5. MemType(mem') /\ Counted(mem', state')
    <3>1. CASE UNCHANGED mem
      BY <3>1, <1>3, <1>6
    <3>2. ASSUME Allocatable(a, h), NEW m \in SmallAllocations(mem, IMAGE, RoundUp(h * POINTER)),
                 NEW done \in 0 .. Len(Chunks(a.width, h)) - 1,
                 mem' = SomeChunks(m, IMAGE, a.width, h, done)
          PROVE  MemType(mem') /\ Counted(mem', state')
      <4>1. Len(Chunks(a.width, h)) \in Nat
        BY <3>2, <1>4, <1>5, ChunkFacts DEF Allocatable
      <4>2. done \in 0 .. Len(Chunks(a.width, h))
        BY <4>1
      <4> HIDE DEF a
      <4>3. MemType(mem') /\ Counted(mem', state)
        BY <4>2, <3>2, <1>3, <1>4, <1>5, <1>6, BufferGrows
      <4> QED
        BY <4>3, <1>1 DEF Counted, Base
    <3> QED
      BY <3>1, <3>2, <1>9
  <2>6. NothingLost'
    BY <2>4, <2>5, NextLostFacts
  <2>7. ManagerType'
    <3>1. open_files' \in Int
      BY <2>2, <1>3 DEF ManagerType
    <3> QED
      BY <3>1, <2>3, <2>5, <1>1, <1>3 DEF ManagerType
  <2>8. ArraysBuffered'
    <3>1. ASSUME NEW l \in DOMAIN arrays' PROVE Buffered(arrays'[l])
      <4>1. CASE l = k
        BY <4>1, <2>3 DEF Buffered
      <4>2. CASE l # k
        BY <4>2, <2>3, <1>3 DEF ManagerInv, ArraysBuffered
      <4> QED
        BY <4>1, <4>2
    <3> QED
      BY <3>1 DEF ArraysBuffered, Buffered
  <2>9. ObservedIsArray'
    <3>1. \A l \in DOMAIN arrays : arrays'[l].in_mem = arrays[l].in_mem
      BY <2>3, <1>2, <1>3
    <3> QED
      BY <3>1, <2>3, <1>3, <1>7 DEF ManagerInv, ObservedIsArray
  <2> QED
    BY <2>6, <2>7, <2>8, <2>9, <1>7 DEF ManagerInv
<1> QED
  BY <1>8, <1>9 DEF RealizeFails

\* All arrays have their buffers.
LEMMA EndRealizeInv == ASSUME ManagerInv, EndRealize PROVE ManagerInv'
<1>1. /\ state = "realizing" /\ Unrealized = {} /\ state' = "open"
      /\ UNCHANGED <<arrayVars, backend, max_memory_to_use, mem, arrays, plan, open_files>>
  BY DEF EndRealize
<1>2. ManagerType' /\ ArraysBuffered' /\ StoresHaveBuffers'
  BY <1>1 DEF ManagerInv, ManagerType, ArraysBuffered, StoresHaveBuffers
<1>3. ObservedIsArray'
  BY <1>1 DEF ManagerInv, ObservedIsArray, arrayVars, bufferVars
<1>4. PlanFollowed'
  <2>1. LeastSpace' = LeastSpace /\ FullSpace' = FullSpace /\ Unrealized' = Unrealized
    BY <1>1 DEF LeastSpace, FullSpace, Unrealized
  <2>2. PlanHolds
    BY <1>1 DEF ManagerInv, PlanFollowed
  <2>3. PlanHolds'
    BY <1>1, <2>1, <2>2 DEF PlanHolds
  <2>4. Unrealized' = 1 .. 0 /\ 0 \in 0 .. Len(arrays')
    <3>1. Len(arrays) \in Nat
      BY ListFacts DEF ManagerInv
    <3> QED
      BY <3>1, <1>1, <2>1
  <2> QED
    BY <1>1, <2>3, <2>4 DEF PlanFollowed
<1>5. NothingLost'
  <2>1. OpenStores' = OpenStores /\ InPools(mem', PERMANENT) = InPools(mem, PERMANENT)
        /\ InPools(mem', IMAGE) = InPools(mem, IMAGE)
    BY <1>1 DEF OpenStores
  <2> QED
    BY <1>1, <2>1 DEF ManagerInv, NothingLost
<1> QED
  BY <1>2, <1>3, <1>4, <1>5 DEF ManagerInv

-----------------------------------------------------------------------------
\* free_pool of the image: no array is left, and no file.
LEMMA Emptied ==
  ASSUME ManagerInv, arrays' = <<>>, Free, open_files' = open_files - Cardinality(OpenStores),
         UNCHANGED <<backend, max_memory_to_use>>, state' \in {"open", "destroyed"},
         MemType(mem'), Counted(mem', state')
  PROVE  ManagerInv'
<1>1. ManagerType /\ Len(arrays') = 0 /\ DOMAIN arrays' = {} /\ <<>> \in Seq(Arrays)
  BY DEF ManagerInv
<1>2. open_files' = 0 /\ open_files' = Cardinality(OpenStores')
  <2>1. OpenStores' = {}
    BY <1>1 DEF OpenStores
  <2>2. open_files = Cardinality(OpenStores) /\ open_files \in Int
    BY DEF ManagerInv, NothingLost, ManagerType
  <2> QED
    BY <2>1, <2>2, FS_EmptySet
<1>3. ManagerType'
  BY <1>1, <1>2 DEF ManagerType
<1>4. ArraysBuffered' /\ StoresHaveBuffers'
  BY <1>1 DEF ArraysBuffered, StoresHaveBuffers
<1>5. ObservedIsArray'
  BY <1>1 DEF ObservedIsArray, Free
<1>6. PlanFollowed'
  <2>1. Unrealized' = 1 .. 0 /\ 0 \in 0 .. Len(arrays')
    BY <1>1 DEF Unrealized
  <2> QED
    BY <2>1 DEF PlanFollowed
<1>7. NothingLost'
  BY <1>2, NextLostFacts
<1> QED
  BY <1>3, <1>4, <1>5, <1>6, <1>7 DEF ManagerInv

\* What free_pool gives back for the image, and then for the permanent pools.
LEMMA FreedCounted ==
  ASSUME NEW m, MemType(m), Counted(m, "open"), NEW m2, m2 = Freed(m, IMAGE)
  PROVE  /\ MemType(m2) /\ Counted(m2, "open")
         /\ LET m3 == Freed(m2, PERMANENT)
            IN  /\ MemType([m3 EXCEPT !.total = 0, !.obtained = @ - CONTROL])
                /\ Counted([m3 EXCEPT !.total = 0, !.obtained = @ - CONTROL], "destroyed")
<1>1. PERMANENT \in Pools /\ IMAGE \in Pools /\ PERMANENT # IMAGE /\ CONTROL \in Int
  BY SystemAssumption DEF Pools, PERMANENT, IMAGE
<1> DEFINE p == InPools(m, PERMANENT)
           i == InPools(m, IMAGE)
           m3 == Freed(m2, PERMANENT)
           m4 == [m3 EXCEPT !.total = 0, !.obtained = @ - CONTROL]
<1>2. p \in Int /\ i \in Int /\ m.total = CONTROL + (p + i) /\ m.obtained = m.total
  BY <1>1, BytesFacts DEF Counted, Base, Held
<1>3. /\ MemType(m2) /\ InPools(m2, IMAGE) = 0 /\ InPools(m2, PERMANENT) = p
      /\ m2.total = m.total - i /\ m2.obtained = m.obtained - i
  BY <1>1, FreedFacts
<1>4. /\ MemType(m3) /\ InPools(m3, PERMANENT) = 0 /\ InPools(m3, IMAGE) = 0
      /\ m3.obtained = m2.obtained - p
  BY <1>1, <1>3, FreedFacts
<1> HIDE DEF p, i, m3
<1>5. m2.total = CONTROL + p /\ m2.obtained = m2.total /\ m3.obtained = CONTROL
  BY <1>1, <1>2, <1>3, <1>4
<1>6. Counted(m2, "open")
  <2>1. Held(m2) = p
    BY <1>2, <1>3 DEF Held
  <2> QED
    BY <2>1, <1>5 DEF Counted, Base
<1>7. m4.small = m3.small /\ m4.large = m3.large /\ m4.total = 0 /\ m4.obtained = 0 /\ MemType(m4)
  <2>1. m3.obtained - CONTROL = 0
    BY <1>1, <1>5
  <2>2. m4 = [m3 EXCEPT !.total = 0, !.obtained = 0]
    BY <2>1, <1>4 DEF MemType
  <2> HIDE DEF m4
  <2>3. m4.small = m3.small /\ m4.large = m3.large /\ m4.total = 0 /\ m4.obtained = 0
    BY <2>2, <1>4 DEF MemType
  <2>4. m4 \in [small : [Pools -> Seq(Pool)], large : [Pools -> Seq(Int)], total : Int, obtained : Int]
    <3>1. 0 \in Int
      OBVIOUS
    <3> QED
      BY <3>1, <2>2, <1>4 DEF MemType
  <2> QED
    BY <2>3, <2>4 DEF MemType
<1> HIDE DEF m4
<1>8. Counted(m4, "destroyed")
  <2>1. InPools(m4, PERMANENT) = 0 /\ InPools(m4, IMAGE) = 0
    BY <1>4, <1>7 DEF InPools
  <2> QED
    BY <2>1, <1>7 DEF Counted, Base, Held
<1> QED
  BY <1>3, <1>6, <1>7, <1>8 DEF m3, m4

\* free_pool of the image gives back what its lists hold and closes the files.
LEMMA FreeImageInv == ASSUME ManagerInv, FreeImage PROVE ManagerInv'
<1>1. /\ state \in {"open", "error"} /\ state' = "open" /\ mem' = Freed(mem, IMAGE) /\ arrays' = <<>>
      /\ open_files' = open_files - Cardinality(OpenStores) /\ Free
      /\ UNCHANGED <<backend, max_memory_to_use>>
  BY DEF FreeImage
<1>2. MemType(mem) /\ Counted(mem, "open")
  <2>1. Counted(mem, state)
    BY LostFacts DEF ManagerInv, ManagerType
  <2> QED
    BY <2>1, <1>1 DEF ManagerInv, ManagerType, Counted, Base
<1>3. MemType(mem') /\ Counted(mem', "open")
  BY <1>1, <1>2, FreedCounted
<1> QED
  BY <1>1, <1>3, Emptied

\* self_destruct gives back everything.
LEMMA SelfDestructInv == ASSUME ManagerInv, SelfDestruct PROVE ManagerInv'
<1> DEFINE m2 == Freed(mem, IMAGE)
           m3 == Freed(m2, PERMANENT)
<1>1. /\ state \in {"open", "error"} /\ state' = "destroyed" /\ arrays' = <<>>
      /\ mem' = [m3 EXCEPT !.total = 0, !.obtained = @ - CONTROL]
      /\ open_files' = open_files - Cardinality(OpenStores) /\ Free
      /\ UNCHANGED <<backend, max_memory_to_use>>
  BY DEF SelfDestruct
<1>2. MemType(mem) /\ Counted(mem, "open")
  <2>1. Counted(mem, state)
    BY LostFacts DEF ManagerInv, ManagerType
  <2> QED
    BY <2>1, <1>1 DEF ManagerInv, ManagerType, Counted, Base
<1>3. MemType(mem') /\ Counted(mem', "destroyed")
  BY <1>1, <1>2, FreedCounted
<1> HIDE DEF m2, m3
<1> QED
  BY <1>1, <1>3, Emptied

\* Using an array changes no account.
LEMMA UseArrayInv == ASSUME ManagerInv, UseArray PROVE ManagerInv'
<1>1. ArrayNext /\ UNCHANGED <<backend, max_memory_to_use, mem, arrays, plan, open_files, state>>
  BY DEF UseArray, poolVars
<1>2. rows_in_mem' = rows_in_mem
  BY <1>1 DEF ArrayNext, Access, AccessFails, WriteRow, bufferVars
<1>3. ManagerType' /\ ArraysBuffered' /\ StoresHaveBuffers'
  BY <1>1 DEF ManagerInv, ManagerType, ArraysBuffered, StoresHaveBuffers
<1>4. ObservedIsArray'
  BY <1>1, <1>2 DEF ManagerInv, ObservedIsArray
<1>5. PlanFollowed'
  <2>1. LeastSpace' = LeastSpace /\ FullSpace' = FullSpace /\ Unrealized' = Unrealized
    BY <1>1 DEF LeastSpace, FullSpace, Unrealized
  <2>2. PlanHolds' = PlanHolds
    BY <1>1, <2>1 DEF PlanHolds
  <2> QED
    BY <1>1, <2>1, <2>2 DEF ManagerInv, PlanFollowed
<1>6. NothingLost'
  <2>1. OpenStores' = OpenStores /\ InPools(mem', PERMANENT) = InPools(mem, PERMANENT)
        /\ InPools(mem', IMAGE) = InPools(mem, IMAGE)
    BY <1>1 DEF OpenStores
  <2> QED
    BY <1>1, <2>1 DEF ManagerInv, NothingLost
<1> QED
  BY <1>3, <1>4, <1>5, <1>6 DEF ManagerInv

\* A stutter.
LEMMA ManagerUnchanged == ASSUME ManagerInv, UNCHANGED allVars PROVE ManagerInv'
<1>1. UNCHANGED <<arrayVars, backend, max_memory_to_use, mem, arrays, plan, open_files, state>>
  BY DEF allVars, poolVars
<1>2. Held(mem) \in Int /\ MemType(mem)
  BY BytesFacts DEF ManagerInv, ManagerType, Held, Pools
<1>3. Grown(mem, mem', 0)
  <2>1. Held(mem) = Held(mem) + 0 /\ mem.total + 0 = mem.total /\ mem.obtained + 0 = mem.obtained
    BY <1>2, BytesFacts DEF Pools
  <2> QED
    BY <2>1, <1>1, <1>2 DEF Grown
<1>4. 0 \in Int
  OBVIOUS
<1> QED
  BY <1>1, <1>3, <1>4, OnlyMemory

\* The manager begins with its control block alone.
LEMMA ManagerStart == ManagerInit => ManagerInv
<1> SUFFICES ASSUME ManagerInit PROVE ManagerInv
  OBVIOUS
<1>1. /\ ArrayInit /\ backend \in {"file", "mac", "nobs"}
      /\ max_memory_to_use \in IF backend = "nobs" THEN {0} ELSE Limits
      /\ arrays = <<>> /\ open_files = 0 /\ state = "open"
      /\ mem = [small |-> [p \in Pools |-> <<>>], large |-> [p \in Pools |-> <<>>],
                total |-> CONTROL, obtained |-> CONTROL]
  BY DEF ManagerInit
<1>2. MemType(mem) /\ CONTROL \in Int
  <2>1. <<>> \in Seq(Pool) /\ <<>> \in Seq(Int) /\ CONTROL \in Int
    BY SystemAssumption
  <2> QED
    BY <1>1, <2>1 DEF MemType
<1>3. ManagerType
  <2>1. <<>> \in Seq(Arrays) /\ max_memory_to_use \in Int
    BY <1>1, SystemAssumption
  <2> QED
    BY <1>1, <1>2, <2>1 DEF ManagerType
<1>4. DOMAIN arrays = {} /\ Len(arrays) = 0
  BY <1>1
<1>5. ArraysBuffered /\ StoresHaveBuffers /\ ObservedIsArray
  BY <1>1, <1>4 DEF ArraysBuffered, StoresHaveBuffers, ObservedIsArray, ArrayInit
<1>6. PlanFollowed
  <2>1. Unrealized = 1 .. 0 /\ 0 \in 0 .. Len(arrays)
    BY <1>4 DEF Unrealized
  <2> QED
    BY <2>1, <1>1 DEF PlanFollowed
<1>7. NothingLost
  <2>1. OpenStores = {}
    BY <1>4 DEF OpenStores
  <2>2. \A p \in Pools : InPools(mem, p) = 0
    <3> TAKE p \in Pools
    <3>1. mem.small[p] = <<>> /\ mem.large[p] = <<>>
      BY <1>1
    <3>2. SmallBytes(mem, p) = <<>> /\ LargeBytes(mem, p) = <<>>
      BY <3>1 DEF SmallBytes, LargeBytes
    <3> QED
      BY <3>2, <1>2, BytesFacts, SumOfNone
  <2>3. Counted(mem, state)
    <3>1. Held(mem) = 0 /\ mem.total = CONTROL /\ mem.obtained = CONTROL
      BY <1>1, <2>2 DEF Held, Pools
    <3> QED
      BY <3>1, <1>1, <1>2 DEF Counted, Base
  <2> QED
    BY <1>1, <1>2, <2>1, <2>3, LostFacts, FS_EmptySet
<1> QED
  BY <1>3, <1>5, <1>6, <1>7 DEF ManagerInv

\* The invariant is inductive.
LEMMA ManagerStep == ManagerInv /\ [ManagerNext]_allVars => ManagerInv'
BY AllocSmallInv, AllocLargeInv, AllocFailsInv, RequestVirtArrayInv, BeginRealizeInv, RealizeArrayInv,
   RealizeFailsInv, EndRealizeInv, FreeImageInv, SelfDestructInv, UseArrayInv, ManagerUnchanged
   DEF ManagerNext

\* So it holds in every state.
LEMMA ManagerSafe == ManagerSpec => []ManagerInv
BY ManagerStart, ManagerStep, PTL DEF ManagerSpec

\* jmemmgr.c:972-991 and 1001-1022: what was allocated is counted and given back, down to the
\* last byte and the last temporary file, even when a realize_virt_arrays failed in
\* the middle, whatever was asked for and whatever the system refused.
THEOREM MemoryReturned == ManagerSpec => []NothingLost
<1>1. ManagerInv => NothingLost
  BY DEF ManagerInv
<1> QED
  BY <1>1, ManagerSafe, PTL

-----------------------------------------------------------------------------
\* A plan that is followed bounds the space of all buffers together.
LEMMA PlanBounds ==
  ASSUME ManagerInv, PlanHolds
  PROVE  SumFunctionOnSet([k \in DOMAIN arrays |-> arrays[k].in_mem * arrays[k].width], 1 .. plan.arrays)
           <= (IF plan.avail > plan.least THEN plan.avail ELSE plan.least)
<1> DEFINE S == 1 .. plan.arrays
           g == [k \in DOMAIN arrays |-> arrays[k].in_mem * arrays[k].width]
           mh == plan.max_minheights
           taken == SumFunctionOnSet(g, S)
           full == SumFunctionOnSet(FullSpace, S)
<1>1. ManagerType /\ Len(arrays) \in Nat /\ DOMAIN arrays = 1 .. Len(arrays) /\ S \in SUBSET (1 .. Len(arrays))
  <2>1. ManagerType /\ Len(arrays) \in Nat /\ DOMAIN arrays = 1 .. Len(arrays)
    BY ListFacts DEF ManagerInv
  <2>2. plan.arrays \in 0 .. Len(arrays)
    BY DEF PlanHolds
  <2> QED
    BY <2>1, <2>2
<1> HIDE DEF S
<1>2. /\ IsFiniteSet(S) /\ SumFunctionOnSet(LeastSpace, S) \in Nat /\ full \in Nat
      /\ \A k \in S : LeastSpace[k] \in Nat /\ FullSpace[k] \in Nat
  BY <1>1, SpaceFacts
<1>3. mh \in Nat \ {0} /\ plan.avail \in Int /\ plan.least = SumFunctionOnSet(LeastSpace, S)
  BY DEF PlanHolds, S
<1>4. ASSUME NEW k \in S
      PROVE  g[k] \in Int /\ g[k] <= mh * LeastSpace[k] /\ g[k] <= 1 * FullSpace[k]
  <2> DEFINE i == arrays[k].in_mem
             w == arrays[k].width
             x == arrays[k].maxaccess
             r == arrays[k].rows
  <2>1. k \in 1 .. Len(arrays)
    BY <1>1
  <2>2. i \in Nat /\ w \in Nat /\ x \in Nat /\ r \in Nat
    BY <2>1, <1>1, ListFacts
  <2>3. i <= mh * x /\ i <= r
    BY DEF PlanHolds, S
  <2>4. g[k] = i * w /\ LeastSpace[k] = x * w /\ FullSpace[k] = r * w
    BY <2>1, <1>1 DEF LeastSpace, FullSpace
  <2> HIDE DEF i, w, x, r, g
  <2>5. mh * x \in Nat /\ (mh * x) * w = mh * (x * w)
    BY <1>3, <2>2
  <2>6. i * w <= (mh * x) * w
    <3> DEFINE y == mh * x
    <3>1. y \in Nat /\ i <= y
      BY <2>3, <2>5
    <3> HIDE DEF y
    <3>2. i * w <= y * w
      BY <3>1, <2>2
    <3> QED
      BY <3>2 DEF y
  <2>7. i * w <= r * w /\ i * w \in Int /\ r * w \in Int
    BY <2>2, <2>3
  <2> QED
    BY <2>4, <2>5, <2>6, <2>7
<1> HIDE DEF g, mh
<1>5. Ints(g, S) /\ Ints(LeastSpace, S) /\ Ints(FullSpace, S)
  BY <1>2, <1>4 DEF Ints
<1>6. taken \in Int
  BY <1>2, <1>5, SumRemove
<1>7. taken <= mh * plan.least
  BY <1>2, <1>3, <1>4, <1>5, SumAtMost
<1>8. taken <= full
  <2>1. 1 \in Int
    OBVIOUS
  <2>2. taken <= 1 * full
    BY <2>1, <1>2, <1>4, <1>5, SumAtMost
  <2> QED
    BY <2>2, <1>2, <1>6
<1>9. full <= plan.avail \/ mh = 1 \/ mh * plan.least <= plan.avail
  BY DEF PlanHolds, mh, S
<1> HIDE DEF taken, full
<1>10. CASE full <= plan.avail
  BY <1>10, <1>2, <1>3, <1>6, <1>8 DEF taken, g, S
<1>11. CASE mh = 1
  BY <1>11, <1>2, <1>3, <1>6, <1>7 DEF taken, g, S
<1>12. CASE mh * plan.least <= plan.avail
  <2> DEFINE most == mh * plan.least
  <2>1. most \in Int /\ taken <= most /\ most <= plan.avail
    BY <1>12, <1>2, <1>3, <1>7
  <2> HIDE DEF most
  <2>2. taken <= plan.avail
    BY <2>1, <1>3, <1>6
  <2> QED
    BY <2>2, <1>2, <1>3, <1>6 DEF taken, g, S
<1> QED
  BY <1>9, <1>10, <1>11, <1>12

\* jmemmgr.c:492-503: the buffers of a call are whole strips and keep to the space
\* that was available, unless the least they can do with is more.
THEOREM SpaceKept == ManagerSpec => []BuffersFit
<1>1. ManagerInv => BuffersFit
  <2> SUFFICES ASSUME ManagerInv, state = "open", Unrealized = {}, arrays # <<>>
               PROVE  /\ \A k \in DOMAIN arrays :
                           LET a == arrays[k]
                           IN  a.in_mem = a.rows \/ (a.in_mem < a.rows /\ a.in_mem > 0 /\ a.in_mem % a.maxaccess = 0)
                      /\ PlanHolds
    BY PlanBounds DEF BuffersFit
  <2>1. ASSUME NEW k \in DOMAIN arrays
        PROVE  arrays[k].in_mem = arrays[k].rows \/ (arrays[k].in_mem < arrays[k].rows /\ arrays[k].in_mem > 0
                                                      /\ arrays[k].in_mem % arrays[k].maxaccess = 0)
    <3>1. arrays[k].in_mem # 0
      BY <2>1 DEF Unrealized
    <3>2. arrays[k].in_mem \in Nat
      BY <2>1, ListFacts DEF ManagerInv
    <3> QED
      BY <3>1, <3>2, <2>1 DEF ManagerInv, ArraysBuffered, Buffered
  <2>2. PlanHolds
    <3>1. PICK u \in 0 .. Len(arrays) : Unrealized = 1 .. u /\ (u = 0 /\ arrays # <<>> => PlanHolds)
      BY DEF ManagerInv, PlanFollowed
    <3>2. u = 0
      <4>1. Len(arrays) \in Nat
        BY ListFacts DEF ManagerInv
      <4>2. u >= 1 => 1 \in Unrealized
        BY <3>1, <4>1
      <4> QED
        BY <4>1, <4>2
    <3> QED
      BY <3>1, <3>2
  <2> QED
    BY <2>1, <2>2
<1> QED
  BY <1>1, ManagerSafe, PTL

-----------------------------------------------------------------------------
\* The manager gives the array of module VirtualArray a height that the module allows.
LEMMA HeightGiven ==
  ASSUME ManagerInv, RealizeArray, arrays[FirstOf(Unrealized)].observed
  PROVE  BufferRows(arrays[FirstOf(Unrealized)]) \in Heights
<1> DEFINE k == FirstOf(Unrealized)
           a == arrays[k]
           h == BufferRows(a)
<1>1. PlanHolds /\ k \in 1 .. Len(arrays)
  BY NextArray DEF RealizeArray
<1>2. k \in DOMAIN arrays /\ a \in Arrays
  BY <1>1, ListFacts DEF ManagerInv
<1>3. a.rows = rows_in_array /\ a.maxaccess = maxaccess
  BY <1>2 DEF ManagerInv, ObservedIsArray
<1>4. plan.max_minheights \in Nat \ {0}
  BY <1>1 DEF PlanHolds
<1> HIDE DEF a
<1>5. h \in 1 .. a.rows /\ (h = a.rows \/ h % a.maxaccess = 0)
  BY <1>2, <1>4, BufferRowsFacts
<1> HIDE DEF h
<1>6. h \in Heights
  BY <1>3, <1>5 DEF Heights
<1> QED
  BY <1>6 DEF h, a, k

\* Every step of the manager is one of the array, or leaves it alone.
LEMMA ArrayStep == ManagerInv /\ [ManagerNext]_allVars => [Next]_arrayVars
<1> SUFFICES ASSUME ManagerInv, [ManagerNext]_allVars PROVE [Next]_arrayVars
  OBVIOUS
<1>1. CASE AllocSmall \/ AllocLarge \/ AllocFails \/ RequestVirtArray \/ BeginRealize \/ RealizeFails \/ EndRealize
  BY <1>1 DEF AllocSmall, AllocLarge, AllocFails, RequestVirtArray, BeginRealize, RealizeFails, EndRealize
<1>2. CASE RealizeArray
  <2>1. CASE arrays[FirstOf(Unrealized)].observed
    <3>1. RealizeWith(BufferRows(arrays[FirstOf(Unrealized)]))
      BY <1>2, <2>1 DEF RealizeArray
    <3> QED
      BY <3>1, <1>2, <2>1, HeightGiven DEF Next
  <2>2. CASE ~ arrays[FirstOf(Unrealized)].observed
    BY <1>2, <2>2 DEF RealizeArray
  <2> QED
    BY <2>1, <2>2
<1>3. CASE FreeImage \/ SelfDestruct
  BY <1>3 DEF FreeImage, SelfDestruct, Next
<1>4. CASE UseArray
  BY <1>4 DEF UseArray, Next
<1>5. CASE UNCHANGED allVars
  BY <1>5 DEF allVars
<1> QED
  BY <1>1, <1>2, <1>3, <1>4, <1>5 DEF ManagerNext

\* jmemmgr.c:485: the plan of realize_virt_arrays, whatever memory it finds, gives a
\* virtual array a buffer with which it works.
LEMMA ManagerImplementsArray == ManagerSpec => Spec
<1>1. ManagerInit => Init
  BY DEF ManagerInit, Init
<1> QED
  BY <1>1, ArrayStep, ManagerSafe, PTL DEF ManagerSpec, Spec

\* In a manager of memory too, the strip that the caller holds is in the buffer.
THEOREM ManagedArraySafe == ManagerSpec => []ArrayInv
BY ManagerImplementsArray, ArraySafe

\* jmemmgr.c:485-511: whatever buffer realize_virt_arrays finds room for, between
\* whatever other objects, and even when it was freed and requested again, the
\* caller of a virtual array sees the rows it has written.
THEOREM ManagerRefinement == ManagerSpec => ImplementsRowStore
BY ManagerImplementsArray, Refinement
=============================================================================
