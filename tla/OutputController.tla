-------------------------- MODULE OutputController --------------------------
(***************************************************************************)
(* The application's view of libjpeg's decompressor behind                 *)
(* jpeg_read_header (jdapistd.c, jdmaster.c, jdtrans.c): it starts, reads  *)
(* rows, and in buffered-image mode makes one output pass after another    *)
(* while the file is still being read.                                     *)
(*                                                                         *)
(* One action is one call of the application.  A call that finds the       *)
(* source without data returns, and is repeated when there are some.       *)
(***************************************************************************)
EXTENDS CoefBuffer

CONSTANTS
  Inputs,        \* pairs of an image and the parameters it is decompressed with
  MaxReady,      \* the MCUs and markers that a source may hold
  MaxPasses,     \* the output passes of an application
  LinesPerCall   \* the rows it asks for

ASSUME BoundsAssumption == MaxReady \in Nat \ {0} /\ MaxPasses \in Nat /\ LinesPerCall \subseteq Nat \ {0}

VARIABLES
  im, par,       \* the image and the parameters
  setup,         \* what MasterSelection has set up
  dec,           \* the decompressor
  passes         \* output passes begun

vars == <<im, par, setup, dec, passes>>

Begin(i, p) ==
  LET g == MasterSelection(i, p)
  IN  [ state    |-> "READY",
        coef     |-> [input_scan |-> 1, input_row |-> 0, MCU_ctr |-> 0, MCU_vert_offset |-> 0,
                      phase |-> "data", eoi |-> FALSE, output_scan |-> 0, output_row |-> 0,
                      smooth |-> FALSE, ready |-> 0, code |-> "none",
                      stored |-> [c \in Components(i) |-> [r \in 0 .. total_iMCU_rows(i) - 1 |-> 0]]],
        main     |-> [process_data |-> "none", buffer |-> Workspace(g), buffer_full |-> FALSE,
                      rowgroup_ctr |-> 0, rowgroups_avail |-> 0, whichptr |-> 0,
                      context_state |-> "PREPARE", iMCU_row_ctr |-> 0,
                      xbuffer |-> IF g.context THEN alloc_funny_pointers(g) ELSE <<>>],
        up       |-> [next_row_out |-> 0, rows_to_go |-> 0, color_buf |-> <<>>,
                      spare_full |-> FALSE, spare_row |-> <<>>, emitted |-> <<>>],
        post     |-> [post_process_data |-> "none", starting_row |-> 0, next_row |-> 0,
                      whole_image |-> IF g.whole_image THEN [n \in 0 .. StripRows(g) - 1 |-> <<>>] ELSE <<>>,
                      histogram |-> <<>>],
        is_dummy_pass |-> FALSE,
        cquantize |-> IF g.quantizers \intersect {"2pass", "external"} # {} THEN "2pass" ELSE "1pass",
        colormap |-> InitialColormap(i, p),
        output_scanline |-> 0,
        rows     |-> <<>>,
        output   |-> <<>> ]

Init ==
  /\ \E x \in Inputs : im = x[1] /\ par = x[2]
  /\ setup = MasterSelection(im, par)
  /\ dec = Begin(im, par)
  /\ passes = 0

(***************************************************************************)
(* Output passes                                                           *)
(***************************************************************************)

Two(d) == par.two_pass /\ "2pass" \in setup.quantizers

\* Select a quantization method for an image that has no colormap yet.
ChooseQuantizer(d) ==
  IF ~ par.quantize \/ d.colormap THEN d
  ELSE IF Two(d) THEN [d EXCEPT !.cquantize = "2pass", !.is_dummy_pass = TRUE]
  ELSE IF "1pass" \in setup.quantizers THEN [d EXCEPT !.cquantize = "1pass"]
  ELSE [d EXCEPT !.state = "exited"]

\* start_pass of the quantizers: one that scans the image clears the histogram,
\* the 1-pass quantizer has its colormap ready.
start_pass_cquantize(d) ==
  CASE d.is_dummy_pass                            -> [d EXCEPT !.post.histogram = <<>>]
    [] par.quantize /\ d.cquantize = "1pass"      -> [d EXCEPT !.colormap = TRUE]
    [] OTHER                                      -> d

StartPass(d, mode) ==
  [d EXCEPT !.up = start_pass_upsample(setup, @),
            !.post = start_pass_dpost(@, par.quantize, mode),
            !.main = start_pass_main(setup, @, "PASS_THRU")]

\* The modules begin a pass over the image.
BeginPass(d) ==
  LET begun == [d EXCEPT !.coef = start_output_pass(setup, im, par, @)]
  IN  IF d.state = "exited" THEN d
      ELSE IF par.raw THEN begun
      ELSE start_pass_cquantize(StartPass(begun, IF d.is_dummy_pass THEN "SAVE_AND_PASS" ELSE "PASS_THRU"))

prepare_for_output_pass(d) ==
  IF d.is_dummy_pass
  THEN [d EXCEPT !.is_dummy_pass = FALSE,
                 !.post = start_pass_dpost(@, par.quantize, "CRANK_DEST"),
                 !.main = start_pass_main(setup, @, "CRANK_DEST")]
  ELSE BeginPass(ChooseQuantizer(d))

\* finish_pass of the quantizers: after a pass that scanned the image the
\* colormap is chosen.
finish_output_pass(d) == IF d.is_dummy_pass THEN [d EXCEPT !.colormap = TRUE] ELSE d

\* process_data of the main controller: an iMCU row is decoded if there is none.
Filled(d) ==
  IF d.coef.code = "SUSPENDED" THEN d
  ELSE [d EXCEPT !.main.buffer_full = TRUE, !.main.iMCU_row_ctr = @ + 1, !.coef.code = "none"]

FillMainBuffer(d) ==
  IF d.main.buffer_full THEN d
  ELSE Filled(decompress_data(setup, im, par, d, InputBuffer(setup, d.main)))

HandOut(d, out_rows_avail) ==
  IF d.coef.code = "SUSPENDED" THEN d
  ELSE IF d.main.process_data = "context" THEN process_data_context_main(setup, d, out_rows_avail)
  ELSE process_data_simple_main(setup, d, out_rows_avail)

Called(d) == [d EXCEPT !.rows = <<>>, !.coef.code = "none"]

process_data(d, out_rows_avail) ==
  IF d.main.process_data = "crank_post" THEN post_process_2pass(setup, Called(d), out_rows_avail)
  ELSE HandOut(FillMainBuffer(Called(d)), out_rows_avail)

\* The loop of output_pass_setup over the rows of a dummy pass; no progress
\* means that the source has no data.
RECURSIVE Crank(_)
CrankOn(d) ==
  IF d.rows = <<>> THEN [d EXCEPT !.state = "PRESCAN", !.coef.code = "SUSPENDED"]
  ELSE Crank([d EXCEPT !.output_scanline = @ + Len(d.rows), !.rows = <<>>])
Crank(d) ==
  IF d.output_scanline < setup.height THEN CrankOn(process_data(d, 0)) ELSE [d EXCEPT !.state = "SCANNING"]

PassReady(d) == [d EXCEPT !.state = IF par.raw THEN "RAW_OK" ELSE "SCANNING", !.coef.code = "none"]

\* The dummy pass over, the next one is set up.
SecondPass(d) ==
  IF d.state = "PRESCAN" THEN d
  ELSE PassReady([prepare_for_output_pass(finish_output_pass(d)) EXCEPT !.output_scanline = 0])

RunDummyPass(d) ==
  CASE d.state = "exited"  -> d
    [] d.is_dummy_pass     -> SecondPass(Crank(d))
    [] OTHER               -> PassReady(d)

\* (mutant) A suspended dummy pass is prepared again.
PreparesAgain(d) ==
  RunDummyPass([prepare_for_output_pass(d) EXCEPT !.output_scanline = 0, !.output = <<>>])

\* The dummy pass of 2-pass quantization may be suspended: the next call goes on
\* with it.
output_pass_setup(d) ==
  RunDummyPass(IF d.state = "PRESCAN" THEN d
               ELSE [prepare_for_output_pass(d) EXCEPT !.output_scanline = 0, !.output = <<>>])

(***************************************************************************)
(* The calls of the application                                            *)
(***************************************************************************)

RECURSIVE ReadToEnd(_)
ReadOnToEnd(k) == IF k.code \in {"SUSPENDED", "REACHED_EOI"} THEN k ELSE ReadToEnd(k)
ReadToEnd(k) == ReadOnToEnd(consume_input(setup, im, par, k))

\* DSTATE_PRELOAD: a file of several scans is read to its end first.
Preload(d) == IF Len(im.scans) > 1 THEN [d EXCEPT !.coef = ReadToEnd(@)] ELSE [d EXCEPT !.coef.code = "none"]

StartFirstPass(d) ==
  IF d.coef.code = "SUSPENDED" THEN [d EXCEPT !.state = "PRELOAD"]
  ELSE output_pass_setup([d EXCEPT !.state = "PRELOAD", !.coef.output_scan = d.coef.input_scan])

jpeg_start_decompress ==
  /\ dec.state \in {"READY", "PRELOAD", "PRESCAN"}
  /\ (dec.state = "READY" \/ ~ par.buffered) /\ ~ par.transcode
  /\ dec' = CASE dec.state = "READY" /\ SelectionFails(im, par) -> [dec EXCEPT !.state = "exited"]
              [] dec.state = "READY" /\ par.buffered -> [dec EXCEPT !.state = "BUFIMAGE"]
              [] dec.state = "PRESCAN" -> output_pass_setup(dec)
              [] OTHER -> StartFirstPass(Preload(dec))
  /\ UNCHANGED <<im, par, setup, passes>>

\* The rows are appended to those of the pass, for the properties.
Delivered(d) ==
  [d EXCEPT !.output = @ \o d.rows, !.output_scanline = @ + Len(d.rows), !.rows = <<>>]

jpeg_read_scanlines ==
  /\ dec.state = "SCANNING" /\ dec.output_scanline < setup.height
  /\ \E max_lines \in LinesPerCall : dec' = Delivered(process_data(dec, max_lines))
  /\ UNCHANGED <<im, par, setup, passes>>

\* The application's buffer takes the place of the main controller's: an iMCU
\* row of each component.
RawRow(d) ==
  [c \in Components(im) |-> [i \in 1 .. iMCUheight(setup, c) |-> d.main.buffer[c][i - 1]]]

RawDelivered(d) ==
  IF d.coef.code = "SUSPENDED" THEN d
  ELSE [d EXCEPT !.output = Append(@, RawRow(d)), !.coef.code = "none",
                 !.output_scanline = @ + (setup.max_v * setup.M)]

jpeg_read_raw_data ==
  /\ dec.state = "RAW_OK" /\ dec.output_scanline < setup.height
  /\ LET blank == [dec EXCEPT !.main.buffer = Workspace(setup)]
     IN  dec' = RawDelivered(decompress_data(setup, im, par, blank, InputBuffer(setup, dec.main)))
  /\ UNCHANGED <<im, par, setup, passes>>

Limited(scan, k) == IF k.eoi THEN Least(scan, k.input_scan) ELSE scan

\* Repeated after a suspension, it goes on with the pass that was being set up.
jpeg_start_output ==
  /\ par.buffered
  /\ \/ dec.state = "BUFIMAGE" /\ passes < MaxPasses /\ passes' = passes + 1
     \/ dec.state = "PRESCAN" /\ UNCHANGED passes
  /\ \E scan \in 1 .. Len(im.scans) + 1 :
       /\ dec.state = "PRESCAN" => scan = dec.coef.output_scan
       /\ dec' = output_pass_setup([dec EXCEPT !.coef.output_scan = Limited(scan, dec.coef)])
  /\ UNCHANGED <<im, par, setup>>

RECURSIVE ReadToScan(_, _)
ReadOnToScan(k, n) == IF k.code = "SUSPENDED" THEN k ELSE ReadToScan(k, n)
ReadToScan(k, n) ==
  IF k.input_scan > n \/ k.eoi THEN [k EXCEPT !.code = "none"]
  ELSE ReadOnToScan(consume_input(setup, im, par, k), n)

\* It returns in state then when it has read what it wants, or in state now.
ReadUntil(d, k, now, then) == [d EXCEPT !.coef = k, !.state = IF k.code = "SUSPENDED" THEN now ELSE then]

\* The pass need not be complete.
jpeg_finish_output ==
  /\ par.buffered /\ dec.state \in {"SCANNING", "RAW_OK", "BUFPOST"}
  /\ dec' = ReadUntil(dec, ReadToScan(dec.coef, dec.coef.output_scan), "BUFPOST", "BUFIMAGE")
  /\ UNCHANGED <<im, par, setup, passes>>

\* Before the last row it is an error, except in buffered-image mode.
jpeg_finish_decompress ==
  /\ \/ dec.state \in {"SCANNING", "RAW_OK"} /\ ~ par.buffered /\ dec.output_scanline >= setup.height
     \/ dec.state \in {"BUFIMAGE", "STOPPING"}
  /\ dec' = ReadUntil(dec, ReadToEnd(dec.coef), "STOPPING", "done")
  /\ UNCHANGED <<im, par, setup, passes>>

\* jpeg_consume_input, called by an application with time to spare.
jpeg_consume_input ==
  /\ dec.state \in {"PRESCAN", "SCANNING", "RAW_OK", "BUFIMAGE", "BUFPOST"}
  /\ dec' = [dec EXCEPT !.coef = consume_input(setup, im, par, @)]
  /\ UNCHANGED <<im, par, setup, passes>>

\* The application takes the colormap away, for a new one to be chosen, or gives
\* one to be used from now on.
ForgetColormap ==
  /\ dec.state = "BUFIMAGE" /\ par.quantize /\ dec.colormap
  /\ setup.quantizers \intersect {"1pass", "2pass"} # {}
  /\ dec' = [dec EXCEPT !.colormap = FALSE]
  /\ UNCHANGED <<im, par, setup, passes>>

jpeg_new_colormap ==
  /\ dec.state = "BUFIMAGE" /\ par.quantize /\ "external" \in setup.quantizers
  /\ dec' = [dec EXCEPT !.colormap = TRUE, !.cquantize = "2pass", !.is_dummy_pass = FALSE]
  /\ UNCHANGED <<im, par, setup, passes>>

\* jpeg_read_coefficients: the transcoder reads the file to its end and shows no
\* row.
jpeg_read_coefficients ==
  /\ par.transcode /\ dec.state \in {"READY", "RDCOEFS"}
  /\ dec' = ReadUntil(dec, ReadToEnd(dec.coef), "RDCOEFS", "STOPPING")
  /\ UNCHANGED <<im, par, setup, passes>>

\* The source brings more.
Supply ==
  /\ par.suspends /\ dec.coef.code = "SUSPENDED"
  /\ \E n \in {1, 3} : dec' = [dec EXCEPT !.coef.ready = Least(@ + n, MaxReady), !.coef.code = "none"]
  /\ UNCHANGED <<im, par, setup, passes>>

Stopped == dec.state \in {"done", "exited"} /\ UNCHANGED vars

Next ==
  \/ jpeg_start_decompress
  \/ jpeg_read_scanlines
  \/ jpeg_read_raw_data
  \/ jpeg_start_output
  \/ jpeg_finish_output
  \/ jpeg_finish_decompress
  \/ jpeg_consume_input
  \/ ForgetColormap
  \/ jpeg_new_colormap
  \/ jpeg_read_coefficients
  \/ Supply
  \/ Stopped

Spec == Init /\ [][Next]_vars

(***************************************************************************)
(* What an application may expect of the rows that OutputController gives  *)
(* it.                                                                     *)
(***************************************************************************)

\* The rows of component c that row n of the output is made of, from 0.
NearRow(c, n) == n \div (setup.max_v \div setup.rgroup[c])
FarRow(c, n) ==
  LET far == IF n % 2 = 0 THEN NearRow(c, n) - 1 ELSE NearRow(c, n) + 1
  IN  IF setup.method[c] # "h2v2_fancy" \/ setup.merged THEN NearRow(c, n)
      ELSE IF far < 0 THEN 0 ELSE Least(far, setup.rows[c] - 1)

Shown(c) == setup.method[c] # "noop"
RowRight(row, n) ==
  \A c \in Comps(setup) : Shown(c) =>
    /\ row[c][1].row = NearRow(c, n)
    /\ row[c][2].row = FarRow(c, n)

\* Rows of iMCU row n as jpeg_read_raw_data gives them, without the padding.
RawRight(row, n) ==
  \A c \in Comps(setup) : Shown(c) =>
    \A i \in 1 .. iMCUheight(setup, c) :
      LET r == (n * iMCUheight(setup, c)) + i - 1 IN r < setup.rows[c] => row[c][i].row = r

\* Whatever the application asks for in a call, wherever it is suspended and
\* whichever pass it gave up before, the rows of an output pass come in order,
\* each made of the sample rows it lies on and, with fancy upsampling, of the one
\* above or below, at the edges of the image its own (jdmainct.c, "funny
\* pointers"; the spare row of jdmerge.c; the strips of jdpostct.c).
RowsInPlace ==
  \A n \in 1 .. Len(dec.output) :
    IF par.raw THEN RawRight(dec.output[n], n - 1) ELSE RowRight(dec.output[n], n - 1)

Samples(row) == {row[c][i] : c \in {x \in Comps(setup) : Shown(x)}, i \in 1 .. 2}

\* The output of a scan shows all that the file has up to that scan for the row
\* (decompress_data waits until the input is ahead), although the input goes on
\* during the pass.
ScansShown ==
  ~ par.raw =>
    \A n \in 1 .. Len(dec.output) : \A c \in Comps(setup) : Shown(c) =>
      dec.output[n][c][1].scans >= ScansOf(im, c, dec.coef.output_scan)

\* Block smoothing estimates a block from the DC values of the rows above and
\* below it: they have been read by then, in the first scan as well
\* (decompress_smooth_data keeps the input one row ahead).
SmoothedFromReadRows ==
  ~ par.raw => \A n \in 1 .. Len(dec.output) : \A s \in Samples(dec.output[n]) : s.around >= 1

\* When the second pass of 2-pass quantization begins, the quantizer has scanned
\* each row of the image once, also if the dummy pass was suspended on the way.
QuantizerSeesImage ==
  (dec.state = "SCANNING" /\ dec.post.post_process_data = "2pass") =>
    /\ Len(dec.post.histogram) = setup.height
    /\ \A n \in 1 .. setup.height : RowRight(dec.post.histogram[n], n - 1)

\* jpeglib.h, output_scanline: "Row index of next scanline to be read", 0 to
\* output_height; jdpostct.c:223, "We have to check bottom of image here".
NeverPastBottom == ~ par.raw => dec.output_scanline <= setup.height

\* A call that returns without a row has used up what the source had to give: so
\* an application that brings data and calls again gets to the end of its image,
\* and the dummy pass, which takes a call without a row for a suspension
\* (jdapistd.c, "No progress made, must suspend"), is not given up for nothing.
EveryCallProgresses ==
  LET starved(d) == par.suspends /\ d.coef.ready = 0
  IN  /\ (dec.state = "SCANNING" /\ dec.output_scanline < setup.height) =>
            \A n \in LinesPerCall : LET d == process_data(dec, n) IN Len(d.rows) > 0 \/ starved(d)
      /\ dec.state = "PRESCAN" =>
            LET d == output_pass_setup(dec) IN d.state = "SCANNING" \/ starved(d)
=============================================================================
