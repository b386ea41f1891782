-------------------------- MODULE InputController --------------------------
(***************************************************************************)
(* How libjpeg reads a file on behalf of the application: the calls of     *)
(* jdapimin.c and jdapistd.c, the input controller (jdinput.c) that turns  *)
(* to the marker reader between scans and to the coefficient controller    *)
(* (jdcoefct.c) inside them, and the Huffman decoder (jdhuff.c) that gets  *)
(* bytes until it meets a marker.                                          *)
(*                                                                         *)
(* A call is a loop that consumes input as long as it wants some; it is    *)
(* left when the source runs out of bytes, and the application makes it    *)
(* again once it has got more.  A DCT block is coded in one byte, which is *)
(* also all that is kept of it.                                            *)
(***************************************************************************)
EXTENDS MarkerReader

CONSTANTS
  DCTSIZE,             \* 8, the width and height of a block
  GetBytes,            \* the bytes the decoder tries to hold, MIN_GET_BITS / 8
  JPEG_MAX_DIMENSION,
  MaxScanNumber        \* bound: scan numbers the application asks for

ASSUME DctsizeAssumption == DCTSIZE \in Nat \ {0}
ASSUME GetBytesAssumption == GetBytes \in Nat \ {0}
ASSUME MaxScanNumberAssumption == MaxScanNumber \in Nat

MAX_COMPONENTS == 10
MAX_SAMP_FACTOR == 4
D_MAX_BLOCKS_IN_MCU == 10

VARIABLES
  global_state,
  call,               \* the call of the application that is under way, or "none"
  consume_input,      \* the method: "markers", or "data" inside a scan
  inheaders, eoi_reached, has_multiple_scans,
  buffered_image,
  quant_table,        \* the tables latched for the components so far
  held,               \* whole bytes in the decoder's bit buffer
  insufficient_data,
  restarts_to_go,
  input_iMCU_row,
  MCU_ctr,            \* MCUs of the iMCU row that are decoded
  decoded,            \* decoded[n]: the MCUs of scan n
  output_scan_number,
  output_iMCU_row

controlVars == <<global_state, call, consume_input, inheaders, eoi_reached, has_multiple_scans,
                 buffered_image, quant_table>>
entropyVars == <<held, insufficient_data, restarts_to_go>>
coefVars    == <<input_iMCU_row, MCU_ctr, decoded>>
outputVars  == <<output_scan_number, output_iMCU_row>>
vars == <<readerVars, controlVars, entropyVars, coefVars, outputVars>>

Init ==
  /\ ReaderInit
  /\ global_state = "START" /\ call = "none"
  /\ consume_input = "markers" /\ inheaders = TRUE
  /\ eoi_reached = FALSE /\ has_multiple_scans = FALSE
  /\ buffered_image = FALSE
  /\ quant_table = <<>>
  /\ held = <<>> /\ insufficient_data = FALSE /\ restarts_to_go = 0
  /\ input_iMCU_row = 0 /\ MCU_ctr = 0 /\ decoded = <<>>
  /\ output_scan_number = 0 /\ output_iMCU_row = 0

(***************************************************************************)
(* The size of the image: initial_setup and per_scan_setup.                *)
(***************************************************************************)

CeilDiv(a, b) == (a + b - 1) \div b
MaxOf(S) == CHOOSE x \in S : \A y \in S : y <= x

BadFrame ==
  \/ frame.height > JPEG_MAX_DIMENSION \/ frame.width > JPEG_MAX_DIMENSION
  \/ frame.precision # 8
  \/ Len(frame.comps) > MAX_COMPONENTS
  \/ \E c \in DOMAIN frame.comps :
       frame.comps[c].h \notin 1 .. MAX_SAMP_FACTOR \/ frame.comps[c].v \notin 1 .. MAX_SAMP_FACTOR

max_h_samp_factor == MaxOf({1} \union {frame.comps[c].h : c \in DOMAIN frame.comps})
max_v_samp_factor == MaxOf({1} \union {frame.comps[c].v : c \in DOMAIN frame.comps})
width_in_blocks(c)  == CeilDiv(frame.width * frame.comps[c].h, max_h_samp_factor * DCTSIZE)
height_in_blocks(c) == CeilDiv(frame.height * frame.comps[c].v, max_v_samp_factor * DCTSIZE)
total_iMCU_rows == CeilDiv(frame.height, max_v_samp_factor * DCTSIZE)

Interleaved == Len(scan.comps) > 1
ScanComp(j) == scan.comps[j].comp
Only == ScanComp(1)

MCUs_per_row == IF Interleaved THEN CeilDiv(frame.width, max_h_samp_factor * DCTSIZE)
                ELSE width_in_blocks(Only)

\* The number of blocks in an MCU.
blocks_in_MCU ==
  IF ~ Interleaved THEN 1
  ELSE FoldFunctionOnSet(+, 0, [j \in DOMAIN scan.comps |->
         frame.comps[ScanComp(j)].h * frame.comps[ScanComp(j)].v], DOMAIN scan.comps)

last_row_height ==
  LET rest == height_in_blocks(Only) % frame.comps[Only].v
  IN  IF rest = 0 THEN frame.comps[Only].v ELSE rest

\* start_iMCU_row: an iMCU row of a single component is several rows of MCUs,
\* and fewer at the bottom of the image.
MCU_rows_per_iMCU_row ==
  IF Interleaved THEN 1
  ELSE IF input_iMCU_row < total_iMCU_rows - 1 THEN frame.comps[Only].v
  ELSE last_row_height

MCUsInRow == MCUs_per_row * MCU_rows_per_iMCU_row

(***************************************************************************)
(* Consuming input.                                                        *)
(***************************************************************************)

\* (mutant) Several scans are not thought of.
FullBufferIfAsked == buffered_image

\* The coefficient controller keeps the whole image.
FullBuffer == has_multiple_scans \/ buffered_image

\* (mutant) A row is output while it is being read.
WantsRowBehind ==
  CASE call = "read_header" -> TRUE
    [] call = "start" -> global_state = "PRELOAD" /\ has_multiple_scans /\ ~ eoi_reached
    [] call = "read" ->
         IF FullBuffer
         THEN \/ input_scan_number < output_scan_number
              \/ input_scan_number = output_scan_number /\ input_iMCU_row < output_iMCU_row
         ELSE input_iMCU_row = output_iMCU_row
    [] call = "finish" -> ~ eoi_reached
    [] call = "finish_output" -> input_scan_number <= output_scan_number /\ ~ eoi_reached
    [] OTHER -> FALSE

\* The loop of the call under way goes on.
Wants ==
  CASE call = "read_header" -> TRUE
    [] call = "start" -> global_state = "PRELOAD" /\ has_multiple_scans /\ ~ eoi_reached
    [] call = "read" ->
         IF FullBuffer
         THEN \/ input_scan_number < output_scan_number
              \/ /\ input_scan_number = output_scan_number
                 /\ input_iMCU_row <= output_iMCU_row
         ELSE input_iMCU_row = output_iMCU_row
    [] call = "finish" -> ~ eoi_reached
    [] call = "finish_output" -> input_scan_number <= output_scan_number /\ ~ eoi_reached
    [] OTHER -> FALSE

\* Call the method consume_input; without a buffer for the whole image the
\* output side calls decompress_onepass instead, inside the only scan.
Consume ==
  /\ call # "none" /\ at = "idle" /\ result = "none" /\ Wants
  /\ IF consume_input = "markers" /\ eoi_reached
     THEN UNCHANGED <<at, result>>
     ELSE at' = consume_input /\ UNCHANGED result
  /\ UNCHANGED <<sourceVars, pos, unread_marker, markerVars, headerVars, controlVars, entropyVars,
                 coefVars, outputVars>>

\* The tables that a scan needs are there.
ScanTables ==
  /\ \A j \in DOMAIN scan.comps :
       \/ ScanComp(j) \in DOMAIN quant_table
       \/ /\ frame.comps[ScanComp(j)].tq < NUM_QUANT_TBLS
          /\ tables.quant[frame.comps[ScanComp(j)].tq] # NoTable
  /\ \A j \in DOMAIN scan.comps :
       /\ scan.comps[j].dc < NUM_HUFF_TBLS /\ tables.dc[scan.comps[j].dc] # NoTable
       /\ scan.comps[j].ac < NUM_HUFF_TBLS /\ tables.ac[scan.comps[j].ac] # NoTable

\* (mutant) The table is saved anew for each scan of the component.
LatchedAgain ==
  LET new == {ScanComp(j) : j \in DOMAIN scan.comps}
  IN  [c \in DOMAIN quant_table \union new |->
         IF c \in new THEN tables.quant[frame.comps[c].tq] ELSE quant_table[c]]

\* latch_quant_tables: the table a component has when its first scan starts.
Latched ==
  LET new == {ScanComp(j) : j \in DOMAIN scan.comps} \ DOMAIN quant_table
  IN  [c \in DOMAIN quant_table \union new |->
         IF c \in new THEN tables.quant[frame.comps[c].tq] ELSE quant_table[c]]

\* start_input_pass, of this module, the entropy decoder and the coefficient
\* controller.
StartInputPass ==
  /\ quant_table' = Latched
  /\ consume_input' = "data"
  /\ held' = <<>> /\ insufficient_data' = FALSE
  /\ restarts_to_go' = tables.restart_interval
  /\ input_iMCU_row' = 0 /\ MCU_ctr' = 0
  /\ decoded' = Append(decoded, <<>>)

BadScan == (Interleaved /\ blocks_in_MCU > D_MAX_BLOCKS_IN_MCU) \/ ~ ScanTables

\* The first SOS: what the application asks for is known, its data is left for
\* jpeg_start_decompress.
ReachedFirstSos ==
  /\ at = "idle" /\ result = "REACHED_SOS" /\ inheaders
  /\ IF BadFrame
     THEN Fails /\ UNCHANGED <<inheaders, has_multiple_scans, global_state, call>>
     ELSE /\ inheaders' = FALSE
          /\ has_multiple_scans' = (Len(scan.comps) < Len(frame.comps) \/ frame.progressive)
          /\ global_state' = "READY" /\ call' = "none"
          /\ result' = "none" /\ UNCHANGED at
  /\ UNCHANGED <<sourceVars, pos, unread_marker, markerVars, headerVars, consume_input, eoi_reached,
                 buffered_image, quant_table, entropyVars, coefVars, outputVars>>

ReachedSos ==
  /\ at = "idle" /\ result = "REACHED_SOS" /\ ~ inheaders
  /\ IF ~ has_multiple_scans \/ BadScan
     THEN Fails /\ UNCHANGED <<quant_table, consume_input, entropyVars, coefVars>>
     ELSE StartInputPass /\ result' = "none" /\ UNCHANGED at
  /\ UNCHANGED <<sourceVars, pos, unread_marker, markerVars, headerVars, global_state, call,
                 inheaders, eoi_reached, has_multiple_scans, buffered_image, outputVars>>

\* (mutant) The number of the scan asked for stays.
ReachedEoiUnclamped ==
  /\ at = "idle" /\ result = "REACHED_EOI" /\ ~ inheaders
  /\ eoi_reached' = TRUE
  /\ result' = "none"
  /\ UNCHANGED <<sourceVars, pos, at, unread_marker, markerVars, headerVars, global_state, call,
                 consume_input, inheaders, has_multiple_scans, buffered_image, quant_table,
                 entropyVars, coefVars, outputVars>>

\* The scan the application waits for may never come: take the last one.
ReachedEoi ==
  /\ at = "idle" /\ result = "REACHED_EOI" /\ ~ inheaders
  /\ eoi_reached' = TRUE
  /\ output_scan_number' = IF output_scan_number > input_scan_number THEN input_scan_number
                           ELSE output_scan_number
  /\ result' = "none"
  /\ UNCHANGED <<sourceVars, pos, at, unread_marker, markerVars, headerVars, global_state, call,
                 consume_input, inheaders, has_multiple_scans, buffered_image, quant_table,
                 entropyVars, coefVars, output_iMCU_row>>

\* reset_input_controller and reset_marker_reader, as jpeg_consume_input calls
\* them when it starts on a datastream; the tables stay.
ResetInput ==
  /\ consume_input' = "markers" /\ inheaders' = TRUE
  /\ eoi_reached' = FALSE /\ has_multiple_scans' = FALSE
  /\ saw_SOI' = FALSE /\ saw_SOF' = FALSE
  /\ discarded_bytes' = 0 /\ cur_marker' = NoMarker /\ unread_marker' = 0
  /\ input_scan_number' = 0 /\ frame' = NoFrame

\* A datastream without an image: jpeg_read_header resets the object, or
\* complains if the application required an image.
TablesOnly ==
  /\ at = "idle" /\ result = "REACHED_EOI" /\ inheaders
  /\ eoi_reached' = TRUE
  /\ \/ Fails /\ UNCHANGED <<global_state, call, marker_list>>
     \/ /\ ~ saw_SOF
        /\ global_state' = "START" /\ call' = "none" /\ marker_list' = <<>>
        /\ result' = "none" /\ UNCHANGED at
  /\ UNCHANGED <<sourceVars, pos, unread_marker, saw_SOI, saw_SOF, discarded_bytes, reported,
                 next_restart_num, cur_marker, length_limit_COM, headerVars, consume_input,
                 inheaders, has_multiple_scans, buffered_image, quant_table, entropyVars, coefVars,
                 outputVars>>

\* Whatever called for input returns to the application, which has to get bytes.
CallSuspends ==
  /\ at = "idle" /\ result = "SUSPENDED" /\ call # "none"
  /\ call' = "none"
  /\ UNCHANGED <<readerVars, global_state, consume_input, inheaders, eoi_reached,
                 has_multiple_scans, buffered_image, quant_table, entropyVars, coefVars, outputVars>>

(***************************************************************************)
(* The entropy decoder.                                                    *)
(***************************************************************************)

\* The last offset that jpeg_fill_bit_buffer may look at from offset k.
Horizon(k) == IF source = "suspending" THEN avail - pos ELSE k + Len(file) + 4

\* jpeg_fill_bit_buffer takes the byte behind offset f.next, of those it has taken so
\* far; FF and 00 is FF, and a marker ends it.
FillOne(f) ==
  LET k == f.next
      ends == {j \in k + 2 .. Horizon(k) : In(j) # 255}
      end == CHOOSE j \in ends : \A l \in ends : j <= l
  IN  IF ~ f.ok \/ f.marker # 0 THEN f
      ELSE IF ~ Has(k + 1) \/ (In(k + 1) = 255 /\ ends = {}) THEN [f EXCEPT !.ok = FALSE]
      ELSE IF In(k + 1) # 255 THEN [f EXCEPT !.next = k + 1, !.bytes = Append(@, In(k + 1))]
      ELSE IF In(end) = 0 THEN [f EXCEPT !.next = end, !.bytes = Append(@, 255)]
      ELSE [f EXCEPT !.next = end, !.marker = In(end)]

FillStates == [ok : BOOLEAN, next : Nat, bytes : Seq(Nat), marker : Nat]

\* Byte by byte, until enough are held.
Fill(next) ==
  LET one[f \in FillStates] == FillOne(f)
      filled[n \in 0 .. GetBytes] ==
        IF n = 0 THEN [ok |-> TRUE, next |-> next, bytes |-> <<>>, marker |-> 0]
        ELSE one[filled[n - 1]]
  IN  filled[GetBytes]

\* The working state of decode_mcu.
Working == [ok |-> TRUE, next |-> 0, held |-> held, marker |-> unread_marker, short |-> FALSE,
            blocks |-> <<>>]

\* Nothing is held: get bytes.  In front of a marker the missing bits are zeros.
Refilled(s) ==
  LET f == Fill(s.next)
  IN  IF s.marker = 0 /\ ~ f.ok THEN [s EXCEPT !.ok = FALSE]
      ELSE IF s.marker = 0 /\ f.bytes # <<>>
      THEN [s EXCEPT !.held = f.bytes, !.next = f.next, !.marker = f.marker]
      ELSE [s EXCEPT !.held = [k \in 1 .. GetBytes |-> 0],
                     !.next = IF s.marker = 0 THEN f.next ELSE @,
                     !.marker = IF s.marker = 0 THEN f.marker ELSE @,
                     !.short = TRUE]

DecodeBlock(s) ==
  LET r == IF s.held = <<>> THEN Refilled(s) ELSE s
  IN  IF ~ r.ok THEN r ELSE [r EXCEPT !.held = Tail(@), !.blocks = Append(@, Head(r.held))]

WorkingStates == [ok : BOOLEAN, next : Nat, held : Seq(Nat), marker : Nat, short : BOOLEAN,
                  blocks : Seq(Nat)]

\* decode_mcu, block by block, unless it has to suspend; blocks_in_MCU is at most
\* D_MAX_BLOCKS_IN_MCU.
DecodedMcu ==
  LET next[s \in WorkingStates] ==
        IF ~ s.ok \/ Len(s.blocks) = blocks_in_MCU THEN s ELSE DecodeBlock(s)
      after[n \in 0 .. D_MAX_BLOCKS_IN_MCU] == IF n = 0 THEN Working ELSE next[after[n - 1]]
  IN  after[D_MAX_BLOCKS_IN_MCU]

ZeroMCU == [k \in 1 .. blocks_in_MCU |-> 0]

AwaitsRestart == tables.restart_interval > 0 /\ restarts_to_go = 0

\* process_restart: what is left of the segment is discarded.
BeginRestart ==
  /\ at = "data" /\ MCU_ctr < MCUsInRow /\ AwaitsRestart
  /\ discarded_bytes' = discarded_bytes + Len(held)
  /\ held' = <<>>
  /\ at' = "restart"
  /\ UNCHANGED <<sourceVars, pos, result, unread_marker, saw_SOI, saw_SOF, reported, next_restart_num,
                 cur_marker, marker_list, length_limit_COM, headerVars, controlVars,
                 insufficient_data, restarts_to_go, coefVars, outputVars>>

EndRestart ==
  /\ at = "idle" /\ result = "RESTARTED"
  /\ restarts_to_go' = tables.restart_interval
  /\ insufficient_data' = (insufficient_data /\ unread_marker # 0)
  /\ at' = "data" /\ result' = "none"
  /\ UNCHANGED <<sourceVars, pos, unread_marker, markerVars, headerVars, controlVars, held, coefVars,
                 outputVars>>

\* An MCU with the blocks b is there.
Deliver(b) ==
  /\ decoded' = [decoded EXCEPT ![Len(decoded)] = Append(@, b)]
  /\ MCU_ctr' = MCU_ctr + 1
  /\ restarts_to_go' = IF restarts_to_go > 0 THEN restarts_to_go - 1 ELSE 0
  /\ UNCHANGED <<input_iMCU_row, at, result>>

DecodeMcu ==
  /\ at = "data" /\ MCU_ctr < MCUsInRow /\ ~ AwaitsRestart
  /\ IF insufficient_data
     THEN Deliver(ZeroMCU) /\ UNCHANGED <<pos, unread_marker, held, insufficient_data>>
     ELSE LET s == DecodedMcu IN
          IF s.ok
          THEN /\ Deliver(s.blocks)
               /\ pos' = pos + s.next /\ unread_marker' = s.marker
               /\ held' = s.held /\ insufficient_data' = s.short
          ELSE Return("SUSPENDED") /\ UNCHANGED <<pos, unread_marker, entropyVars, coefVars>>
  /\ UNCHANGED <<sourceVars, markerVars, headerVars, controlVars, outputVars>>

\* Otherwise finish_input_pass gives the turn back to the marker reader.
MoreRows == input_iMCU_row + 1 < total_iMCU_rows

\* The end of consume_data and of decompress_onepass, which also counts the row
\* as output.
EndOfRow ==
  /\ at = "data" /\ MCU_ctr = MCUsInRow
  /\ input_iMCU_row' = input_iMCU_row + 1 /\ MCU_ctr' = 0
  /\ consume_input' = IF MoreRows THEN "data" ELSE "markers"
  /\ at' = "idle"
  /\ UNCHANGED <<sourceVars, pos, result, unread_marker, markerVars, headerVars, global_state, call,
                 inheaders, eoi_reached, has_multiple_scans, buffered_image, quant_table,
                 entropyVars, decoded, outputVars>>

(***************************************************************************)
(* The calls of the application.                                           *)
(***************************************************************************)

\* The application may call, and names of what a call leaves alone.
Ready == call = "none" /\ at = "idle" /\ result = "none"
Calls(name) == Ready /\ call' = name
Returns == call # "none" /\ at = "idle" /\ result = "none" /\ ~ Wants /\ call' = "none"
Keeps == UNCHANGED <<sourceVars, pos, at, result, unread_marker, markerVars, headerVars, consume_input,
                     inheaders, eoi_reached, has_multiple_scans, entropyVars>>

ReadHeader ==
  /\ Calls("read_header")
  /\ \/ /\ global_state = "START" /\ pos <= Len(file)
        /\ ResetInput /\ global_state' = "INHEADER"
        /\ UNCHANGED <<tables, scan, special>>
     \/ /\ global_state = "INHEADER"
        /\ UNCHANGED <<global_state, consume_input, inheaders, eoi_reached, has_multiple_scans,
                       saw_SOI, saw_SOF, discarded_bytes, cur_marker, unread_marker, headerVars>>
  /\ UNCHANGED <<sourceVars, pos, at, result, reported, next_restart_num, marker_list,
                 length_limit_COM, buffered_image, quant_table, entropyVars, coefVars, outputVars>>

\* jpeg_start_decompress: jinit_master_decompress starts the first scan; then
\* a file of several scans is read to its end, unless the application asked
\* for a buffered image.
StartDecompress ==
  /\ Calls("start") /\ global_state = "READY"
  /\ buffered_image' \in BOOLEAN
  /\ IF BadScan
     THEN /\ Fails
          /\ UNCHANGED <<global_state, quant_table, consume_input, entropyVars, coefVars>>
     ELSE /\ StartInputPass
          /\ global_state' = IF buffered_image' THEN "BUFIMAGE" ELSE "PRELOAD"
          /\ UNCHANGED <<at, result>>
  /\ UNCHANGED <<sourceVars, pos, unread_marker, markerVars, headerVars, inheaders, eoi_reached,
                 has_multiple_scans, outputVars>>

StartDecompressAgain ==
  /\ Calls("start") /\ global_state = "PRELOAD"
  /\ Keeps /\ UNCHANGED <<global_state, buffered_image, quant_table, coefVars, outputVars>>

\* The end of jpeg_start_decompress; output_pass_setup begins at the top.
StartReturns ==
  /\ Returns /\ call = "start"
  /\ IF global_state = "PRELOAD"
     THEN /\ output_scan_number' = input_scan_number
          /\ output_iMCU_row' = 0 /\ global_state' = "SCANNING"
     ELSE UNCHANGED <<global_state, outputVars>>
  /\ Keeps /\ UNCHANGED <<buffered_image, quant_table, coefVars>>

\* jpeg_start_output.
StartOutput ==
  /\ Ready /\ global_state = "BUFIMAGE"
  /\ \E n \in 1 .. MaxScanNumber :
       output_scan_number' = IF eoi_reached /\ n > input_scan_number THEN input_scan_number ELSE n
  /\ output_iMCU_row' = 0 /\ global_state' = "SCANNING"
  /\ Keeps /\ UNCHANGED <<call, buffered_image, quant_table, coefVars>>

\* jpeg_read_scanlines for the scanlines of an iMCU row.
ReadRow ==
  /\ Calls("read") /\ global_state = "SCANNING" /\ output_iMCU_row < total_iMCU_rows
  /\ Keeps /\ UNCHANGED <<global_state, buffered_image, quant_table, coefVars, outputVars>>

ReadReturns ==
  /\ Returns /\ call = "read"
  /\ output_iMCU_row' = output_iMCU_row + 1
  /\ Keeps
  /\ UNCHANGED <<global_state, buffered_image, quant_table, coefVars, output_scan_number>>

\* jpeg_finish_output, called before or after all rows are read.
FinishOutput ==
  /\ Calls("finish_output")
  /\ \/ global_state = "SCANNING" /\ buffered_image
     \/ global_state = "BUFPOST"
  /\ global_state' = "BUFPOST"
  /\ Keeps /\ UNCHANGED <<buffered_image, quant_table, coefVars, outputVars>>

FinishOutputReturns ==
  /\ Returns /\ call = "finish_output"
  /\ global_state' = "BUFIMAGE"
  /\ Keeps /\ UNCHANGED <<buffered_image, quant_table, coefVars, outputVars>>

\* jpeg_finish_decompress, and again after it had to return for more bytes.
FinishDecompress ==
  /\ Calls("finish")
  /\ \/ global_state = "SCANNING" /\ ~ buffered_image /\ output_iMCU_row = total_iMCU_rows
     \/ global_state \in {"BUFIMAGE", "STOPPING"}
  /\ global_state' = "STOPPING"
  /\ Keeps /\ UNCHANGED <<buffered_image, quant_table, coefVars, outputVars>>

\* Its end: jpeg_abort releases what belongs to the image.
FinishReturns ==
  /\ Returns /\ call = "finish"
  /\ global_state' = "START"
  /\ marker_list' = <<>> /\ quant_table' = <<>> /\ decoded' = <<>>
  /\ UNCHANGED <<sourceVars, pos, at, result, unread_marker, saw_SOI, saw_SOF, discarded_bytes,
                 reported, next_restart_num, cur_marker, length_limit_COM, headerVars,
                 consume_input, inheaders, eoi_reached, has_multiple_scans, buffered_image,
                 entropyVars, input_iMCU_row, MCU_ctr, outputVars>>

Application ==
  \/ ReadHeader \/ StartDecompress \/ StartDecompressAgain \/ StartOutput \/ ReadRow
  \/ FinishOutput \/ FinishDecompress
  \/ call = "none" /\ Supply /\ UNCHANGED <<controlVars, entropyVars, coefVars, outputVars>>

Library ==
  \/ Consume
  \/ (ReadMarkers \/ ReadRestartMarker)
       /\ UNCHANGED <<controlVars, entropyVars, coefVars, outputVars>>
  \/ ReachedFirstSos \/ ReachedSos \/ ReachedEoi \/ TablesOnly \/ CallSuspends
  \/ BeginRestart \/ EndRestart \/ DecodeMcu \/ EndOfRow
  \/ StartReturns \/ ReadReturns \/ FinishOutputReturns \/ FinishReturns

Next == Application \/ Library
Spec == Init /\ [][Next]_vars

\* A call runs until it returns; the application makes the next call, gets bytes
\* when there are none, and does not start over with passes forever.
FairSpec == Spec /\ WF_vars(Library) /\ WF_vars(Application) /\ SF_vars(FinishDecompress)

(***************************************************************************)
(* What reading a file promises, whatever the source of the bytes and      *)
(* whatever is wrong with the file.                                        *)
(***************************************************************************)

CONSTANT Intact     \* Intact[f]: the MCUs of file f that no damage is near to

ASSUME IntactAssumption == DOMAIN Intact = Files

-----------------------------------------------------------------------------
(***************************************************************************)
(* The segments of a file, found without a reader: this is what a source   *)
(* that runs out of bytes at any place must not make a difference to.      *)
(***************************************************************************)

\* Markers without a length; those below SOF0 are passed over, or refused.
Alone == Restarts \union {SOI, EOI} \union (1 .. SOF0 - 1)

EndsMarkerOf(f, k) == f[k - 1] = 255 /\ f[k] \notin {0, 255}

\* The first segment behind position p: its marker, the position of the marker,
\* and the end.
NextSegment(f, p) ==
  LET ends == {k \in p + 2 .. Len(f) : EndsMarkerOf(f, k)}
      k == CHOOSE e \in ends : \A d \in ends : e <= d
  IN  IF ends = {} THEN [marker |-> 0, from |-> 0, end |-> 0]
      ELSE [marker |-> f[k], from |-> k,
            end |-> IF f[k] \in Alone \/ k + 2 > Len(f) THEN k
                    ELSE k + (256 * f[k + 1]) + f[k + 2]]

\* All segments of f, one behind the other: lasts[left] are those in its last left
\* bytes.
Segments(f) ==
  LET lasts[left \in 0 .. Len(f)] ==
        LET g == NextSegment(f, Len(f) - left)
        IN  IF g.marker = 0 THEN <<>>
            ELSE <<g>> \o (IF g.end <= Len(f) THEN lasts[Len(f) - g.end] ELSE <<>>)
  IN  lasts[Len(f)]

Layout == [f \in Files |-> Segments(f)]

SegmentsOf(kind, last) == {g \in Range(Layout[file]) : g.marker = kind /\ g.end <= last}

\* The last quantization table for slot s in the first last bytes.
QuantAt(s, last) ==
  LET found == {t \in 1 .. last :
                  /\ file[t] % 16 = s
                  /\ \E g \in SegmentsOf(DQT, last) : t > g.from + 2 /\ t <= g.end
                       /\ (t - (g.from + 3)) % (1 + DCTSIZE2) = 0}
  IN  MaxOf(found \union {NoTable})

\* The comments in the first n segments that belong to the same datastream, each
\* as far as its limit; one with a length below 2 is none.
SavedComments(n) ==
  LET saved[k \in 0 .. n] ==
        LET g == Layout[file][k]
            size == g.end - (g.from + 2)
        IN  IF k = 0 \/ g.marker = SOI THEN <<>>
            ELSE IF g.marker # COM \/ size < 0 THEN saved[k - 1]
            ELSE Append(saved[k - 1],
                        [j \in 1 .. (IF size < length_limit_COM THEN size ELSE length_limit_COM) |->
                           file[g.from + 2 + j]])
  IN  saved[n]

InBytes == IF pos < Len(file) THEN pos ELSE Len(file)

\* jpeglib.h and libjpeg.doc ("I/O suspension"): the library backs up to a point
\* from which it can resume.  So the comments of the datastream are those of the
\* segments read so far, each saved once and whole, up to its limit, at whatever byte
\* the source ran out.
CommentsSavedOnce ==
  at # "exited" /\ length_limit_COM > 0 /\ global_state # "START" /\ saw_SOI
    /\ unread_marker # SOI /\ pos <= Len(file) =>
    \E n \in 0 .. Len(Layout[file]) :
      /\ \A k \in DOMAIN Layout[file] : Layout[file][k].end <= pos <=> k <= n
      /\ marker_list = SavedComments(n)

\* The bytes that next_marker passes over are counted once, however often it
\* had to start again: up to the first scan they are the bytes between the
\* segments.
GarbageCountedOnce ==
  (global_state = "READY" \/ (at = "markers" /\ unread_marker # 0)) /\ decoded = <<>>
    /\ input_scan_number <= 1 /\ pos <= Len(file) =>
    reported + discarded_bytes =
      Cardinality({k \in 1 .. pos :
        /\ \A g \in Range(Layout[file]) : k \notin g.from .. g.end
        /\ file[k] # 255 \/ (k < pos /\ file[k + 1] = 0)})

\* A component is dequantized with the table it had when its first scan began,
\* whatever the file puts into the slot later.
QuantTablesOfFirstScan ==
  \A c \in DOMAIN quant_table :
    LET scans == {g \in SegmentsOf(SOS, InBytes) :
                    \E k \in 1 .. file[g.from + 3] : file[g.from + 2 + (2 * k)] = frame.comps[c].id}
    IN  scans # {} =>
          quant_table[c] = QuantAt(frame.comps[c].tq,
                                   (CHOOSE g \in scans : \A h \in scans : g.from <= h.from).from)

-----------------------------------------------------------------------------
\* Rows are only output when they have been read, in the scan asked for.
RowsReadBeforeOutput ==
  global_state = "SCANNING" =>
    \/ output_iMCU_row = 0
    \/ input_scan_number > output_scan_number
    \/ input_scan_number = output_scan_number /\ input_iMCU_row >= output_iMCU_row

\* jdcoefct.c:148, decompress_onepass: without a buffer for the whole image a row
\* is decoded by the very call that outputs it, one row for each call, in the
\* scan that was started with; and from then on no damage is an error.
OnePassInStep ==
  global_state = "SCANNING" /\ ~ FullBuffer =>
    /\ at # "exited"
    /\ input_scan_number = output_scan_number
    /\ \/ input_iMCU_row = output_iMCU_row
       \/ call = "read" /\ input_iMCU_row = output_iMCU_row + 1

\* jdmarker.c:1142: resynchronisation after a damaged, missing or doubled
\* restart marker loses the MCUs near the damage only.
DamageStaysLocal ==
  \A n \in DOMAIN decoded : \A m \in DOMAIN decoded[n] \intersect Intact[file] :
    decoded[n][m] = <<m>>

\* Every file is read to its end or refused: no call waits for a scan or a row
\* that never comes.
Ends == <>(\/ at = "exited"
           \/ call = "none" /\ global_state = "START" /\ pos >= Len(file))
=============================================================================
