------------------------------ MODULE Libjpeg ------------------------------
(***************************************************************************)
(* The part of jpeg-6b that the JPEG class uses: the life cycle of one     *)
(* decompression or compression object, a local variable of the call of    *)
(* Read or Write in progress.  Every function checks global_state first    *)
(* and ends the process if it is called in another state: error_exit.      *)
(*                                                                         *)
(* The stdio source and destination never suspend, so the states a call    *)
(* only passes through are left out: DSTATE_INHEADER, DSTATE_PRELOAD,      *)
(* DSTATE_PRESCAN and DSTATE_STOPPING.                                     *)
(***************************************************************************)
EXTENDS Integers

CONSTANT MaxObjects      \* the objects there is memory for

ASSUME MaxObjectsAssumption == MaxObjects \in Nat \ {0}

VARIABLES
  global_state,  \* of the object of the call in progress
  scanline,      \* output_scanline or next_scanline
  image_height,  \* output_height or image_height
  live,          \* objects created and not destroyed
  process        \* "running", or why the process ended

object == <<global_state, scanline, image_height>>

LibjpegInit ==
  /\ global_state = "none"
  /\ scanline = 0
  /\ image_height = 0
  /\ live = 0
  /\ process = "running"

\* A fatal error destroys the object and exits.
error_exit(cause) ==
  /\ process' = cause
  /\ live' = live - 1
  /\ global_state' = "none"
  /\ UNCHANGED <<scanline, image_height>>

\* jpeg_create_decompress and jpeg_create_compress.
Create(start) ==
  /\ live < MaxObjects
  /\ live' = live + 1
  /\ global_state' = start
  /\ scanline' = 0 /\ image_height' = 0
  /\ UNCHANGED process

\* They fail in jinit_memory_mgr: there is no object to destroy yet.
CreateFails ==
  /\ live = MaxObjects
  /\ process' = "out_of_memory"
  /\ UNCHANGED <<object, live>>

\* ERREXIT1(cinfo, JERR_BAD_STATE, cinfo->global_state)
Checked(state) ==
  process' = IF global_state = state THEN process ELSE "bad_state"

\* jpeg_read_header finds the first scan of an image.
jpeg_read_header ==
  /\ Checked("DSTATE_START")
  /\ global_state' = "DSTATE_READY"
  /\ UNCHANGED <<scanline, image_height, live>>

\* jpeg_start_decompress, for an image of the given height.
jpeg_start_decompress(height) ==
  /\ Checked("DSTATE_READY")
  /\ global_state' = "DSTATE_SCANNING"
  /\ scanline' = 0 /\ image_height' = height
  /\ UNCHANGED live

\* jpeg_set_defaults, jpeg_set_quality and jpeg_start_compress.
jpeg_start_compress ==
  /\ Checked("CSTATE_START")
  /\ global_state' = "CSTATE_SCANNING"
  /\ scanline' = 0
  /\ UNCHANGED <<image_height, live>>

\* (mutant) The data source or destination suspends: no row is processed.
NextScanlineSuspended == scanline

\* process_data, asked for one row, processes one; after the last row there is
\* a warning and nothing is processed.
NextScanline == IF scanline < image_height THEN scanline + 1 ELSE scanline

\* jpeg_read_scanlines and jpeg_write_scanlines.
ProcessScanline(scanning) ==
  /\ Checked(scanning)
  /\ scanline' = NextScanline
  /\ UNCHANGED <<global_state, image_height, live>>

\* jpeg_finish_decompress and jpeg_finish_compress: jpeg_abort resets the state.
Finish(scanning, start) ==
  /\ process' = IF global_state # scanning THEN "bad_state"
                ELSE IF scanline < image_height THEN "too_little_data"
                ELSE process
  /\ global_state' = start
  /\ UNCHANGED <<scanline, image_height, live>>

\* jpeg_destroy_decompress and jpeg_destroy_compress.
Destroy ==
  /\ live' = live - 1
  /\ global_state' = "none"
  /\ UNCHANGED <<scanline, image_height, process>>
=============================================================================
