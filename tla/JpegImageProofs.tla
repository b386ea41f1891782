-------------------------- MODULE JpegImageProofs --------------------------
(***************************************************************************)
(* Theorems about the JPEG class: what it owns, in which order it calls    *)
(* libjpeg, what a call that succeeds has done and what a call that fails  *)
(* leaves behind, for images of every size, any memory and any limit on    *)
(* streams.                                                                *)
(***************************************************************************)
EXTENDS JpegImage, TLAPS

(***************************************************************************)
(* The inductive invariant                                                 *)
(***************************************************************************)

Opening == {"openInput", "openOutput"}
Opened  == {"readHeader", "start", "readScanlines", "closeInput",
            "startCompress", "writeScanlines", "closeOutput"}

\* The type of the variables.
TypeOK ==
  /\ pc \in {"idle", "gone"} \union Opening \union Opened
  /\ Height \in Nat /\ Rows \in [0 .. Height - 1 -> Int]
  /\ heap \in Int /\ files \in Nat /\ failures \in Nat /\ live \in Nat
  /\ scanline \in Nat /\ image_height \in Nat
  /\ disk \in Seq(Int)

\* The process runs, or it has ended for a reason that is not a misuse of
\* libjpeg; it has the row buffers of the object until it is aborted.
ProcessInv ==
  /\ process \in {"running", "bad_alloc", "out_of_memory", "bad_data", "write_error"}
  /\ process # "running" => pc = "gone"
  /\ process # "bad_alloc" => heap = Height /\ (pc = "gone" => Height = 0)

\* The state of the libjpeg object that each statement finds.
CalledInState ==
  /\ pc \in {"openInput", "readHeader"} => global_state = "DSTATE_START"
  /\ pc = "start" => global_state = "DSTATE_READY"
  /\ pc = "readScanlines" => global_state = "DSTATE_SCANNING"
  /\ pc \in {"openOutput", "startCompress"} => global_state = "CSTATE_START"
  /\ pc = "writeScanlines" => global_state = "CSTATE_SCANNING"

\* The first n rows of the object are those of the file that is read.
RowsRead(n) == \A k \in 0 .. n - 1 : k < Height => Rows[k] = k

\* Rows up to scanline have been read.
ReadingInv ==
  /\ pc = "readScanlines" => image_height = Height /\ RowsRead(scanline)
  /\ pc = "closeInput" => RowsRead(Height)
  /\ pc = "idle" /\ returned = "read" => RowsRead(Height)

\* The file that is written has the first n rows of the object.
Written(n) == n <= Height /\ Len(disk) = n /\ \A k \in 1 .. n : disk[k] = Rows[k - 1]

\* Rows up to scanline have been written.
WritingInv ==
  /\ pc = "startCompress" => image_height = Height /\ disk = <<>>
  /\ pc = "writeScanlines" => image_height = Height /\ Written(scanline)
  /\ pc = "closeOutput" => Written(Height)
  /\ pc = "idle" /\ returned = "written" => Written(Height)

\* What a call holds and what failed calls have left.
LeakInv ==
  process = "running" =>
    /\ pc \in Opening \union Opened => live \in 1 .. failures + 1
    /\ pc \in Opened => files \in 1 .. failures + 1
    /\ pc \in {"idle", "gone"} => live <= failures
    /\ pc \notin Opened => files <= failures

JpegInv == TypeOK /\ ProcessInv /\ CalledInState /\ ReadingInv /\ WritingInv /\ LeakInv

(***************************************************************************)
(* Facts about the rows                                                    *)
(***************************************************************************)

\* Clear() deletes as many row buffers as the object has rows.
LEMMA DeletedRows ==
  ASSUME Height \in Nat, Rows \in [0 .. Height - 1 -> Int]
  PROVE  Deleted = Height
<1>1. CASE Rows = NULL
  <2>1. DOMAIN Rows = {}
    BY <1>1 DEF NULL
  <2>2. DOMAIN Rows = 0 .. Height - 1
    OBVIOUS
  <2>3. Height = 0
    BY <2>1, <2>2
  <2>. QED
    BY <1>1, <2>3 DEF Deleted
<1>2. CASE Rows # NULL
  BY <1>2 DEF Deleted
<1>. QED
  BY <1>1, <1>2

\* No rows is an array of rows, of none.
LEMMA NoRows == NULL \in [0 .. 0 - 1 -> Int]
  BY DEF NULL, Uninitialised

\* Where Clear() leaves the object.
LEMMA ClearStep ==
  ASSUME TypeOK, ProcessInv, process # "bad_alloc", Clear
  PROVE  Rows' \in [0 .. Height' - 1 -> Int] /\ Height' = 0 /\ heap' = 0
  BY DeletedRows, NoRows DEF TypeOK, ProcessInv, Clear

\* Where Allocate() leaves it, whatever it was before.
LEMMA AllocatedStep ==
  ASSUME TypeOK, ProcessInv, process # "bad_alloc", NEW h \in Heights, NEW c, Allocated(h, c)
  PROVE  Height' = h /\ h \in Nat /\ heap' = Height' /\ Rows' \in [0 .. Height' - 1 -> Int]
<1>1. heap' = h
  BY DeletedRows, HeightsAssumption DEF TypeOK, ProcessInv, Allocated
<1>. QED
  BY <1>1, HeightsAssumption DEF Allocated, Uninitialised

(***************************************************************************)
(* The steps                                                               *)
(***************************************************************************)

LEMMA JpegInit == Init => JpegInv
  BY NoRows DEF Init, LibjpegInit, JpegInv, TypeOK, ProcessInv, CalledInState, ReadingInv,
     WritingInv, LeakInv, Opening, Opened

\* libjpeg exits in the middle of a call: the destructor of the object runs.
LEMMA ExitStep ==
  ASSUME JpegInv, process = "running", pc \in Opening \union Opened,
         NEW cause \in {"bad_data", "out_of_memory", "write_error"}, Exit(cause)
  PROVE  JpegInv'
<1>1. Rows' \in [0 .. Height' - 1 -> Int] /\ Height' = 0 /\ heap' = 0
  BY ClearStep DEF JpegInv, Exit
<1>2. process' = cause /\ pc' = "gone" /\ files' = 0 /\ live' = live - 1
      /\ UNCHANGED <<disk, returned, failures, scanline, image_height>>
  BY DEF Exit, error_exit
<1>3. live \in Nat /\ live > 0
  BY DEF JpegInv, TypeOK, LeakInv
<1>. QED
  BY <1>1, <1>2, <1>3 DEF JpegInv, TypeOK, ProcessInv, CalledInState, ReadingInv,
     WritingInv, LeakInv, Opening, Opened

\* new throws in the middle of a call, or outside one.
LEMMA AbortStep == JpegInv /\ process = "running" /\ Aborts => JpegInv'
  BY DEF JpegInv, Aborts, image, object, TypeOK, ProcessInv, CalledInState, ReadingInv,
     WritingInv, LeakInv, Opening, Opened

LEMMA AllocateStep == JpegInv /\ Allocate => JpegInv'
<1> SUFFICES ASSUME JpegInv, Allocate PROVE JpegInv'
  OBVIOUS
<1>1. process = "running" /\ pc = "idle"
  BY DEF Allocate, At
<1>2. CASE Aborts
  BY <1>1, <1>2, AbortStep
<1>3. ASSUME NEW h \in Heights, NEW c \in Channels, Allocated(h, c),
             Return("allocated"), UNCHANGED <<files, disk, library>>
      PROVE  JpegInv'
  <2>1. Height' = h /\ h \in Nat /\ heap' = Height' /\ Rows' \in [0 .. Height' - 1 -> Int]
    BY <1>1, <1>3, AllocatedStep DEF JpegInv
  <2>. QED
    BY <1>1, <1>3, <2>1 DEF JpegInv, Return, library, object, TypeOK, ProcessInv, CalledInState,
       ReadingInv, WritingInv, LeakInv, Opening, Opened
<1>. QED
  BY <1>2, <1>3 DEF Allocate

LEMMA DestructorStep == JpegInv /\ Destructor => JpegInv'
<1> SUFFICES ASSUME JpegInv, Destructor PROVE JpegInv'
  OBVIOUS
<1>1. process = "running" /\ pc = "idle"
  BY DEF Destructor, At
<1>2. Rows' \in [0 .. Height' - 1 -> Int] /\ Height' = 0 /\ heap' = 0
  BY <1>1, ClearStep DEF JpegInv, Destructor
<1>. QED
  BY <1>1, <1>2 DEF JpegInv, Destructor, library, object, TypeOK, ProcessInv, CalledInState,
     ReadingInv, WritingInv, LeakInv, Opening, Opened

LEMMA CallReadStep == JpegInv /\ CallRead => JpegInv'
<1> SUFFICES ASSUME JpegInv, CallRead PROVE JpegInv'
  OBVIOUS
<1>1. process = "running" /\ pc = "idle"
  BY DEF CallRead, At
<1>2. Rows' \in [0 .. Height' - 1 -> Int] /\ Height' = 0 /\ heap' = 0
  BY <1>1, ClearStep DEF JpegInv, CallRead
<1>3. CASE Create("DSTATE_START") /\ Goto("openInput") /\ UNCHANGED files
  BY <1>1, <1>2, <1>3 DEF JpegInv, CallRead, Create, Goto, TypeOK, ProcessInv, CalledInState,
     ReadingInv, WritingInv, LeakInv, Opening, Opened
<1>4. CASE CreateFails /\ files' = 0 /\ Goto("gone")
  BY <1>1, <1>2, <1>4 DEF JpegInv, CallRead, CreateFails, object, Goto, TypeOK, ProcessInv,
     CalledInState, ReadingInv, WritingInv, LeakInv, Opening, Opened
<1>. QED
  BY <1>3, <1>4 DEF CallRead

LEMMA CallWriteStep == JpegInv /\ CallWrite => JpegInv'
<1> SUFFICES ASSUME JpegInv, CallWrite PROVE JpegInv'
  OBVIOUS
<1>1. process = "running" /\ pc = "idle" /\ disk' = disk
  BY DEF CallWrite, At
<1>2. CASE Create("CSTATE_START") /\ Goto("openOutput") /\ UNCHANGED <<image, files>>
  BY <1>1, <1>2 DEF JpegInv, Create, Goto, image, TypeOK, ProcessInv, CalledInState,
     ReadingInv, WritingInv, LeakInv, Opening, Opened
<1>3. CASE CreateFails /\ Clear /\ files' = 0 /\ Goto("gone")
  <2>1. Rows' \in [0 .. Height' - 1 -> Int] /\ Height' = 0 /\ heap' = 0
    BY <1>1, <1>3, ClearStep DEF JpegInv
  <2>. QED
    BY <1>1, <1>3, <2>1 DEF JpegInv, CreateFails, object, Goto, TypeOK, ProcessInv,
       CalledInState, ReadingInv, WritingInv, LeakInv, Opening, Opened
<1>. QED
  BY <1>2, <1>3 DEF CallWrite

\* A call that returns false may keep its stream and its libjpeg object.
LEMMA OpenInputStep == JpegInv /\ OpenInput => JpegInv'
<1> SUFFICES ASSUME JpegInv, OpenInput PROVE JpegInv'
  OBVIOUS
<1>1. process = "running" /\ pc = "openInput" /\ UNCHANGED <<image, disk>>
  BY DEF OpenInput, At
<1>2. CASE files < MaxFiles /\ files' = files + 1 /\ Goto("readHeader") /\ UNCHANGED library
  BY <1>1, <1>2, MaxFilesAssumption DEF JpegInv, Goto, image, library, object, TypeOK, ProcessInv,
     CalledInState, ReadingInv, WritingInv, LeakInv, Opening, Opened
<1>3. CASE ReturnFalse /\ UNCHANGED files
  BY <1>1, <1>3 DEF JpegInv, ReturnFalse, image, TypeOK, ProcessInv, CalledInState, ReadingInv,
     WritingInv, LeakInv, Opening, Opened
<1>. QED
  BY <1>2, <1>3 DEF OpenInput

LEMMA ReadHeaderStep == JpegInv /\ ReadHeader => JpegInv'
<1> SUFFICES ASSUME JpegInv, ReadHeader PROVE JpegInv'
  OBVIOUS
<1>1. process = "running" /\ pc = "readHeader" /\ global_state = "DSTATE_START"
  BY DEF ReadHeader, At, JpegInv, CalledInState
<1>2. CASE jpeg_read_header /\ Goto("start") /\ UNCHANGED <<image, files, disk>>
  BY <1>1, <1>2 DEF JpegInv, jpeg_read_header, Checked, Goto, image, TypeOK, ProcessInv,
     CalledInState, ReadingInv, WritingInv, LeakInv, Opening, Opened
<1>3. CASE Exit("bad_data")
  BY <1>1, <1>3, ExitStep DEF Opening, Opened
<1>. QED
  BY <1>2, <1>3 DEF ReadHeader

LEMMA StartReadingStep == JpegInv /\ StartReading => JpegInv'
<1> SUFFICES ASSUME JpegInv, StartReading PROVE JpegInv'
  OBVIOUS
<1>1. process = "running" /\ pc = "start" /\ global_state = "DSTATE_READY"
  BY DEF StartReading, At, JpegInv, CalledInState
<1>2. ASSUME NEW h \in Heights, NEW c \in Channels, jpeg_start_decompress(h), Allocated(h, c),
             Goto("readScanlines"), UNCHANGED <<files, disk>>
      PROVE  JpegInv'
  <2>1. Height' = h /\ h \in Nat /\ heap' = Height' /\ Rows' \in [0 .. Height' - 1 -> Int]
    BY <1>1, <1>2, AllocatedStep DEF JpegInv
  <2>2. scanline' = 0 /\ image_height' = Height' /\ global_state' = "DSTATE_SCANNING"
        /\ process' = "running" /\ live' = live
    BY <1>1, <1>2, <2>1 DEF jpeg_start_decompress, Checked
  <2>. QED
    BY <1>1, <1>2, <2>1, <2>2 DEF JpegInv, Goto, TypeOK, ProcessInv, CalledInState,
       ReadingInv, WritingInv, LeakInv, Opening, Opened, RowsRead
<1>3. CASE Exit("bad_data")
  BY <1>1, <1>3, ExitStep DEF Opening, Opened
<1>4. CASE Aborts
  BY <1>1, <1>4, AbortStep
<1>. QED
  BY <1>2, <1>3, <1>4 DEF StartReading

\* One more row is where it belongs, and the rows before it stay.
LEMMA ReadScanlineStep == JpegInv /\ ReadScanline => JpegInv'
<1> SUFFICES ASSUME JpegInv, ReadScanline PROVE JpegInv'
  OBVIOUS
<1>1. process = "running" /\ pc = "readScanlines" /\ scanline < image_height
      /\ global_state = "DSTATE_SCANNING" /\ image_height = Height /\ RowsRead(scanline)
  BY DEF ReadScanline, At, MoreScanlines, JpegInv, CalledInState, ReadingInv
<1>2. scanline' = scanline + 1 /\ process' = process
      /\ UNCHANGED <<global_state, image_height, live>>
  BY <1>1 DEF ReadScanline, ProcessScanline, Checked, NextScanline
<1>3. Rows' = [Rows EXCEPT ![scanline] = scanline]
      /\ UNCHANGED <<pc, Height, Components, heap, files, disk, returned, failures>>
  BY DEF ReadScanline
<1>4. scanline \in 0 .. Height - 1 /\ Rows' \in [0 .. Height - 1 -> Int]
  BY <1>1, <1>3 DEF JpegInv, TypeOK
<1>5. RowsRead(scanline)'
  <2>1. ASSUME NEW k \in 0 .. scanline, k < Height PROVE Rows'[k] = k
    <3>1. CASE k = scanline
      BY <1>3, <1>4, <3>1 DEF JpegInv, TypeOK
    <3>2. CASE k < scanline
      BY <1>1, <1>3, <1>4, <2>1, <3>2 DEF JpegInv, TypeOK, RowsRead
    <3>. QED
      BY <1>4, <3>1, <3>2
  <2>. QED
    BY <1>2, <1>3, <1>4, <2>1 DEF RowsRead
<1>. QED
  BY <1>1, <1>2, <1>3, <1>4, <1>5 DEF JpegInv, TypeOK, ProcessInv, CalledInState,
     ReadingInv, WritingInv, LeakInv, Opening, Opened

LEMMA FinishReadingStep == JpegInv /\ FinishReading => JpegInv'
<1> SUFFICES ASSUME JpegInv, FinishReading PROVE JpegInv'
  OBVIOUS
<1>1. process = "running" /\ pc = "readScanlines" /\ ~ (scanline < image_height)
      /\ global_state = "DSTATE_SCANNING" /\ image_height = Height /\ RowsRead(scanline)
  BY DEF FinishReading, At, MoreScanlines, JpegInv, CalledInState, ReadingInv
<1>2. RowsRead(Height)
  BY <1>1 DEF RowsRead, JpegInv, TypeOK
<1>3. CASE Finish("DSTATE_SCANNING", "DSTATE_START") /\ Goto("closeInput")
           /\ UNCHANGED <<image, files, disk>>
  <2>1. UNCHANGED <<Rows, Height, heap, files, disk, scanline, image_height, live>>
        /\ process' = process /\ pc' = "closeInput" /\ UNCHANGED <<returned, failures>>
    BY <1>1, <1>3 DEF Finish, Goto, image
  <2>2. RowsRead(Height)'
    BY <1>2, <2>1 DEF RowsRead
  <2>. QED
    BY <1>1, <2>1, <2>2 DEF JpegInv, TypeOK, ProcessInv, CalledInState,
       ReadingInv, WritingInv, LeakInv, Opening, Opened
<1>4. CASE Exit("bad_data")
  BY <1>1, <1>4, ExitStep DEF Opening, Opened
<1>. QED
  BY <1>3, <1>4 DEF FinishReading

LEMMA CloseInputStep == JpegInv /\ CloseInput => JpegInv'
<1> SUFFICES ASSUME JpegInv, CloseInput PROVE JpegInv'
  OBVIOUS
<1>1. process = "running" /\ pc = "closeInput" /\ RowsRead(Height)
      /\ live \in 1 .. failures + 1 /\ files \in 1 .. failures + 1
  BY DEF CloseInput, At, JpegInv, ReadingInv, LeakInv, Opened
<1>2. UNCHANGED <<Rows, Height, heap, disk, scanline, image_height, process, failures>>
      /\ live' = live - 1 /\ files' = files - 1 /\ pc' = "idle" /\ returned' = "read"
  BY DEF CloseInput, Destroy, Return, image
<1>3. RowsRead(Height)'
  BY <1>1, <1>2 DEF RowsRead
<1>. QED
  BY <1>1, <1>2, <1>3 DEF JpegInv, TypeOK, ProcessInv, CalledInState,
     ReadingInv, WritingInv, LeakInv, Opening, Opened

\* The components are looked at with the file open already: a call that refuses
\* them keeps the stream.
LEMMA OpenOutputStep == JpegInv /\ OpenOutput => JpegInv'
<1> SUFFICES ASSUME JpegInv, OpenOutput PROVE JpegInv'
  OBVIOUS
<1>1. process = "running" /\ pc = "openOutput" /\ UNCHANGED image
      /\ global_state = "CSTATE_START"
  BY DEF OpenOutput, At, JpegInv, CalledInState
<1>2. ASSUME files' = files + 1, disk' = <<>>, image_height' = Height, Goto("startCompress"),
             UNCHANGED <<global_state, scanline, live, process>>
      PROVE  JpegInv'
  BY <1>1, <1>2 DEF JpegInv, Goto, image, TypeOK, ProcessInv, CalledInState,
     ReadingInv, WritingInv, LeakInv, Opening, Opened
<1>3. ASSUME files' = files + 1, disk' = <<>>, ReturnFalse
      PROVE  JpegInv'
  BY <1>1, <1>3 DEF JpegInv, ReturnFalse, image, TypeOK, ProcessInv, CalledInState,
     ReadingInv, WritingInv, LeakInv, Opening, Opened
<1>4. ASSUME ReturnFalse, UNCHANGED <<files, disk>>
      PROVE  JpegInv'
  BY <1>1, <1>4 DEF JpegInv, ReturnFalse, image, TypeOK, ProcessInv, CalledInState,
     ReadingInv, WritingInv, LeakInv, Opening, Opened
<1>. QED
  BY <1>2, <1>3, <1>4 DEF OpenOutput

LEMMA StartWritingStep == JpegInv /\ StartWriting => JpegInv'
<1> SUFFICES ASSUME JpegInv, StartWriting PROVE JpegInv'
  OBVIOUS
<1>1. process = "running" /\ pc = "startCompress" /\ global_state = "CSTATE_START"
      /\ image_height = Height /\ disk = <<>>
  BY DEF StartWriting, At, JpegInv, CalledInState, WritingInv
<1>2. CASE jpeg_start_compress /\ Goto("writeScanlines") /\ UNCHANGED <<image, files, disk>>
  BY <1>1, <1>2 DEF JpegInv, jpeg_start_compress, Checked, Goto, image, TypeOK, ProcessInv,
     CalledInState, ReadingInv, WritingInv, LeakInv, Opening, Opened, Written
<1>3. CASE Exit("out_of_memory")
  BY <1>1, <1>3, ExitStep DEF Opening, Opened
<1>. QED
  BY <1>2, <1>3 DEF StartWriting

\* One more row is in the file, behind the rows that are there.
LEMMA WriteScanlineStep == JpegInv /\ WriteScanline => JpegInv'
<1> SUFFICES ASSUME JpegInv, WriteScanline PROVE JpegInv'
  OBVIOUS
<1>1. process = "running" /\ pc = "writeScanlines" /\ scanline < image_height
      /\ global_state = "CSTATE_SCANNING" /\ image_height = Height /\ Written(scanline)
  BY DEF WriteScanline, At, MoreScanlines, JpegInv, CalledInState, WritingInv
<1>2. CASE /\ ProcessScanline("CSTATE_SCANNING")
           /\ disk' = Append(disk, Rows[scanline])
           /\ UNCHANGED <<pc, image, files, returned, failures>>
  <2>1. scanline' = scanline + 1 /\ process' = process
        /\ UNCHANGED <<global_state, image_height, live, pc, Rows, Height, heap, files, returned, failures>>
    BY <1>1, <1>2 DEF ProcessScanline, Checked, NextScanline, image
  <2>2. Height \in Nat /\ scanline \in 0 .. Height - 1 /\ Rows[scanline] \in Int /\ disk \in Seq(Int)
    BY <1>1 DEF JpegInv, TypeOK
  <2>3. disk' \in Seq(Int) /\ Len(disk') = scanline + 1
    BY <1>1, <1>2, <2>2 DEF Written
  <2>4. ASSUME NEW k \in 1 .. scanline + 1 PROVE disk'[k] = Rows[k - 1]
    BY <1>1, <1>2, <2>2 DEF Written
  <2>5. Written(scanline)'
    BY <2>1, <2>2, <2>3, <2>4 DEF Written
  <2>. QED
    BY <1>1, <2>1, <2>3, <2>5 DEF JpegInv, TypeOK, ProcessInv, CalledInState,
       ReadingInv, WritingInv, LeakInv, Opening, Opened
<1>3. CASE Exit("write_error")
  BY <1>1, <1>3, ExitStep DEF Opening, Opened
<1>. QED
  BY <1>2, <1>3 DEF WriteScanline

LEMMA FinishWritingStep == JpegInv /\ FinishWriting => JpegInv'
<1> SUFFICES ASSUME JpegInv, FinishWriting PROVE JpegInv'
  OBVIOUS
<1>1. process = "running" /\ pc = "writeScanlines" /\ ~ (scanline < image_height)
      /\ global_state = "CSTATE_SCANNING" /\ image_height = Height /\ Written(scanline)
  BY DEF FinishWriting, At, MoreScanlines, JpegInv, CalledInState, WritingInv
<1>2. Written(Height)
  BY <1>1 DEF Written, JpegInv, TypeOK
<1>3. CASE Finish("CSTATE_SCANNING", "CSTATE_START") /\ Goto("closeOutput")
           /\ UNCHANGED <<image, files, disk>>
  <2>1. UNCHANGED <<Rows, Height, heap, files, disk, scanline, image_height, live>>
        /\ process' = process /\ pc' = "closeOutput" /\ UNCHANGED <<returned, failures>>
    BY <1>1, <1>3 DEF Finish, Goto, image
  <2>2. Written(Height)'
    BY <1>2, <2>1 DEF Written
  <2>. QED
    BY <1>1, <2>1, <2>2 DEF JpegInv, TypeOK, ProcessInv, CalledInState,
       ReadingInv, WritingInv, LeakInv, Opening, Opened
<1>4. CASE Exit("write_error")
  BY <1>1, <1>4, ExitStep DEF Opening, Opened
<1>. QED
  BY <1>3, <1>4 DEF FinishWriting

LEMMA CloseOutputStep == JpegInv /\ CloseOutput => JpegInv'
<1> SUFFICES ASSUME JpegInv, CloseOutput PROVE JpegInv'
  OBVIOUS
<1>1. process = "running" /\ pc = "closeOutput" /\ Written(Height)
      /\ live \in 1 .. failures + 1 /\ files \in 1 .. failures + 1
  BY DEF CloseOutput, At, JpegInv, WritingInv, LeakInv, Opened
<1>2. UNCHANGED <<Rows, Height, heap, disk, scanline, image_height, process, failures>>
      /\ live' = live - 1 /\ files' = files - 1 /\ pc' = "idle" /\ returned' = "written"
  BY DEF CloseOutput, Destroy, Return, image
<1>3. Written(Height)'
  BY <1>1, <1>2 DEF Written
<1>. QED
  BY <1>1, <1>2, <1>3 DEF JpegInv, TypeOK, ProcessInv, CalledInState,
     ReadingInv, WritingInv, LeakInv, Opening, Opened

(***************************************************************************)
(* The theorems                                                            *)
(***************************************************************************)

LEMMA JpegStep == JpegInv /\ [Next]_jpVars => JpegInv'
<1> SUFFICES ASSUME JpegInv, [Next]_jpVars PROVE JpegInv'
  OBVIOUS
<1>1. CASE UNCHANGED jpVars
  BY <1>1 DEF JpegInv, jpVars, image, library, object, TypeOK, ProcessInv, CalledInState,
     ReadingInv, WritingInv, LeakInv, RowsRead, Written
<1>2. CASE CallStep
  BY <1>2, OpenInputStep, ReadHeaderStep, StartReadingStep, ReadScanlineStep, FinishReadingStep,
     CloseInputStep, OpenOutputStep, StartWritingStep, WriteScanlineStep, FinishWritingStep,
     CloseOutputStep DEF CallStep
<1>. QED
  BY <1>1, <1>2, CallReadStep, AllocateStep, CallWriteStep, DestructorStep DEF Next

\* What the JPEG class keeps true between any two statements, for images of
\* every height, any number of libjpeg objects and of streams: Read(), Write(),
\* Allocate() and the destructor, with every failure in them.
THEOREM JpegSafe == Spec => []JpegInv
  BY JpegInit, JpegStep, PTL DEF Spec

\* Clear() and the destructor leave no row buffer behind and delete none twice,
\* whatever was called before and wherever libjpeg exits.
THEOREM RowsStayOwned == Spec => []RowsOwned
<1>1. JpegInv => RowsOwned
  BY DeletedRows DEF JpegInv, TypeOK, ProcessInv, RowsOwned
<1>. QED
  BY <1>1, JpegSafe, PTL

\* A call of Read() or Write() that returns true has handled every row, in
\* order; libjpeg is never called in a state it does not expect, and never left
\* before the last row.
THEOREM SuccessComplete == Spec => []SuccessIsComplete
<1>1. JpegInv => CallsInOrder
  BY DEF JpegInv, ProcessInv, CallsInOrder
<1>2. JpegInv => ReadComplete
  BY DEF JpegInv, TypeOK, ReadingInv, RowsRead, ReadComplete
<1>3. JpegInv => WriteComplete
  <2> SUFFICES ASSUME JpegInv, pc = "idle", returned = "written"
               PROVE  disk = [k \in 1 .. Height |-> Rows[k - 1]]
    BY DEF WriteComplete
  <2>1. disk \in Seq(Int) /\ Len(disk) = Height /\ \A k \in 1 .. Height : disk[k] = Rows[k - 1]
    BY DEF JpegInv, TypeOK, WritingInv, Written
  <2>. QED
    BY <2>1
<1>4. JpegInv => SuccessIsComplete
  BY <1>1, <1>2, <1>3 DEF SuccessIsComplete
<1>. QED
  BY <1>4, JpegSafe, PTL

\* A call that returns true releases what it took: streams and libjpeg objects
\* that stay are those of calls that returned false, at most one of each.
THEOREM LeaksAreFailures == Spec => []OnlyFailuresLeak
<1>1. JpegInv => OnlyFailuresLeak
  BY DEF JpegInv, TypeOK, LeakInv, OnlyFailuresLeak, InCall, Opening, Opened
<1>. QED
  BY <1>1, JpegSafe, PTL
=============================================================================
