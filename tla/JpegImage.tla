----------------------------- MODULE JpegImage -----------------------------
(***************************************************************************)
(* The JPEG class of Tools/JPEG.cpp: one object, whose client calls Read,  *)
(* Allocate and Write in any order before it is destroyed (Input and       *)
(* Output of the two programs are two such objects).  A call that fails    *)
(* inside libjpeg exits the process, which destroys the object too, as the *)
(* objects of the programs are global.                                     *)
(*                                                                         *)
(* A row read from a file is represented by its index there; a new row     *)
(* holds nothing.  The heap is the number of row buffers on it.            *)
(***************************************************************************)
EXTENDS Libjpeg, Sequences

CONSTANTS
  Heights,      \* heights of the images that are read and allocated
  Channels,     \* their numbers of components
  MaxFiles      \* FOPEN_MAX: streams that can be open

ASSUME HeightsAssumption  == Heights \subseteq Nat \ {0}
ASSUME ChannelsAssumption == Channels \subseteq Nat \ {0}
ASSUME MaxFilesAssumption == MaxFiles \in Nat \ {0}

VARIABLES
  pc,           \* the statement of Read or Write that is next, or "idle"
  Rows,         \* Rows[k]: what row k holds; NULL when there are none
  Height, Components,
  heap,         \* row buffers allocated and not deleted
  files,        \* streams opened and not closed
  disk,         \* the rows of the output file, top down
  returned,     \* what the last call did
  failures      \* calls that returned false

image   == <<Rows, Height, Components, heap>>
library == <<object, live, process>>
jpVars  == <<pc, image, files, disk, returned, failures, library>>

Uninitialised == -1
NULL == [k \in {} |-> Uninitialised]

Init ==
  /\ LibjpegInit
  /\ pc = "idle"
  /\ Rows = NULL /\ Height = 0 /\ Components = 0
  /\ heap = 0 /\ files = 0
  /\ disk = <<>>
  /\ returned = "nothing" /\ failures = 0

At(label) == process = "running" /\ pc = label

\* The call in progress returns true, having done what.
Return(what) == pc' = "idle" /\ returned' = what /\ UNCHANGED failures

\* The call in progress returns false; its object is out of scope.
ReturnFalse ==
  /\ pc' = "idle" /\ returned' = "false" /\ failures' = failures + 1
  /\ global_state' = "none"
  /\ UNCHANGED <<scanline, image_height, live, process>>

Goto(label) == pc' = label /\ UNCHANGED <<returned, failures>>

\* The rows that Clear() deletes.
Deleted == IF Rows = NULL THEN 0 ELSE Height

Clear ==
  /\ heap' = heap - Deleted
  /\ Rows' = NULL /\ Height' = 0 /\ Components' = 0

\* (mutant) Allocate() does not clear the image first.
AllocatedNoClear(h, c) ==
  /\ heap' = heap + h
  /\ Rows' = [k \in 0 .. h - 1 |-> Uninitialised] /\ Height' = h /\ Components' = c

\* Allocate(), when new does not throw: it never returns false.
Allocated(h, c) ==
  /\ heap' = heap - Deleted + h
  /\ Rows' = [k \in 0 .. h - 1 |-> Uninitialised] /\ Height' = h /\ Components' = c

\* The exit of libjpeg: streams are closed, the global objects destroyed.
Exit(cause) ==
  /\ error_exit(cause)
  /\ Clear
  /\ files' = 0
  /\ pc' = "gone"
  /\ UNCHANGED <<disk, returned, failures>>

\* new throws std::bad_alloc, which nothing catches: no destructor is run.
Aborts ==
  /\ process' = "bad_alloc"
  /\ pc' = "gone"
  /\ UNCHANGED <<image, files, disk, returned, failures, object, live>>

(***************************************************************************)
(* Allocate(), and the destructor.                                         *)
(***************************************************************************)

Allocate ==
  /\ At("idle")
  /\ \/ /\ \E h \in Heights, c \in Channels : Allocated(h, c)
        /\ Return("allocated")
        /\ UNCHANGED <<files, disk, library>>
     \/ Aborts

Destructor ==
  /\ At("idle")
  /\ Clear
  /\ pc' = "gone"
  /\ UNCHANGED <<files, disk, returned, failures, library>>

(***************************************************************************)
(* Read()                                                                  *)
(***************************************************************************)

CallRead ==
  /\ At("idle")
  /\ Clear
  /\ \/ Create("DSTATE_START") /\ Goto("openInput") /\ UNCHANGED files
     \/ CreateFails /\ files' = 0 /\ Goto("gone")
  /\ UNCHANGED disk

OpenInput ==
  /\ At("openInput")
  /\ \/ files < MaxFiles /\ files' = files + 1 /\ Goto("readHeader") /\ UNCHANGED library
     \/ ReturnFalse /\ UNCHANGED files
  /\ UNCHANGED <<image, disk>>

ReadHeader ==
  /\ At("readHeader")
  /\ \/ jpeg_read_header /\ Goto("start") /\ UNCHANGED <<image, files, disk>>
     \/ Exit("bad_data")

\* jpeg_start_decompress, and Allocate for the sizes that it found.
StartReading ==
  /\ At("start")
  /\ \/ /\ \E h \in Heights, c \in Channels : jpeg_start_decompress(h) /\ Allocated(h, c)
        /\ Goto("readScanlines")
        /\ UNCHANGED <<files, disk>>
     \/ Exit("bad_data")
     \/ Aborts

MoreScanlines == scanline < image_height

\* (mutant) Every row is read into the first one.
ReadFirstScanline ==
  /\ At("readScanlines") /\ MoreScanlines
  /\ ProcessScanline("DSTATE_SCANNING")
  /\ Rows' = [Rows EXCEPT ![0] = scanline]
  /\ UNCHANGED <<pc, Height, Components, heap, files, disk, returned, failures>>

ReadScanline ==
  /\ At("readScanlines") /\ MoreScanlines
  /\ ProcessScanline("DSTATE_SCANNING")
  /\ Rows' = [Rows EXCEPT ![scanline] = scanline]
  /\ UNCHANGED <<pc, Height, Components, heap, files, disk, returned, failures>>

\* Reads up to the end of the image: an unexpected marker is fatal.
FinishReading ==
  /\ At("readScanlines") /\ ~MoreScanlines
  /\ \/ /\ Finish("DSTATE_SCANNING", "DSTATE_START") /\ Goto("closeInput")
        /\ UNCHANGED <<image, files, disk>>
     \/ Exit("bad_data")

\* (mutant) The decompression object is not released.
CloseInputOnly ==
  /\ At("closeInput")
  /\ files' = files - 1
  /\ Return("read")
  /\ UNCHANGED <<image, disk, library>>

CloseInput ==
  /\ At("closeInput")
  /\ Destroy
  /\ files' = files - 1
  /\ Return("read")
  /\ UNCHANGED <<image, disk>>

(***************************************************************************)
(* Write()                                                                 *)
(***************************************************************************)

CallWrite ==
  /\ At("idle")
  /\ \/ Create("CSTATE_START") /\ Goto("openOutput") /\ UNCHANGED <<image, files>>
     \/ CreateFails /\ Clear /\ files' = 0 /\ Goto("gone")
  /\ UNCHANGED disk

\* fopen empties the file; the components are looked at after that.  (Running
\* out of memory in jpeg_stdio_dest is left to jpeg_start_compress, and in
\* jpeg_stdio_src to jpeg_read_header.)
OpenOutput ==
  /\ At("openOutput")
  /\ \/ /\ files < MaxFiles
        /\ files' = files + 1
        /\ disk' = <<>>
        /\ \/ /\ Components \in {1, 3}
              /\ image_height' = Height
              /\ Goto("startCompress")
              /\ UNCHANGED <<global_state, scanline, live, process>>
           \/ Components \notin {1, 3} /\ ReturnFalse
     \/ ReturnFalse /\ UNCHANGED <<files, disk>>
  /\ UNCHANGED image

StartWriting ==
  /\ At("startCompress")
  /\ \/ jpeg_start_compress /\ Goto("writeScanlines") /\ UNCHANGED <<image, files, disk>>
     \/ Exit("out_of_memory")

WriteScanline ==
  /\ At("writeScanlines") /\ MoreScanlines
  /\ \/ /\ ProcessScanline("CSTATE_SCANNING")
        /\ disk' = Append(disk, Rows[scanline])
        /\ UNCHANGED <<pc, image, files, returned, failures>>
     \/ Exit("write_error")

FinishWriting ==
  /\ At("writeScanlines") /\ ~MoreScanlines
  /\ \/ /\ Finish("CSTATE_SCANNING", "CSTATE_START") /\ Goto("closeOutput")
        /\ UNCHANGED <<image, files, disk>>
     \/ Exit("write_error")

CloseOutput ==
  /\ At("closeOutput")
  /\ Destroy
  /\ files' = files - 1
  /\ Return("written")
  /\ UNCHANGED <<image, disk>>

\* A statement inside a call.
CallStep ==
  \/ OpenInput \/ ReadHeader \/ StartReading \/ ReadScanline \/ FinishReading \/ CloseInput
  \/ OpenOutput \/ StartWriting \/ WriteScanline \/ FinishWriting \/ CloseOutput

Next == CallRead \/ Allocate \/ CallWrite \/ Destructor \/ CallStep

\* The client may stop calling; a call that was made goes on.
Spec == Init /\ [][Next]_jpVars /\ WF_jpVars(CallStep)

-----------------------------------------------------------------------------
InCall == pc \notin {"idle", "gone"}

\* The row buffers on the heap are those of the object, whatever was called
\* and wherever libjpeg exits: Clear() leaves none behind and deletes none
\* twice.  (When new throws, the process is aborted as it is.)
RowsOwned ==
  process # "bad_alloc" =>
    /\ heap = Deleted
    /\ pc = "gone" => heap = 0

\* libjpeg is called in the states it expects, and never left short of the last
\* row: it would end the process.
CallsInOrder == process \notin {"bad_state", "too_little_data"}

\* The rows of the object are those of the file that was read.
ReadComplete == pc = "idle" /\ returned = "read" => \A k \in 0 .. Height - 1 : Rows[k] = k

\* The file that was written has the rows of the object, in order.
WriteComplete ==
  pc = "idle" /\ returned = "written" => disk = [k \in 1 .. Height |-> Rows[k - 1]]

\* Read() and Write() run libjpeg's protocol to its end: when they return true
\* every row has gone where it belongs, and the process never ends because they
\* called libjpeg out of order or left it too early.
SuccessIsComplete == CallsInOrder /\ ReadComplete /\ WriteComplete

\* A call that returns true releases the stream and the libjpeg object it took;
\* a call that returns false may keep one of each.
OnlyFailuresLeak ==
  LET allowed == failures + (IF InCall THEN 1 ELSE 0)
  IN  process = "running" => live <= allowed /\ files <= allowed

\* Every call returns or ends the process.
CallsEnd == InCall ~> ~InCall
=============================================================================
