------------------------- MODULE CompressController -------------------------
(***************************************************************************)
(* The application's view of libjpeg's compressor (jcapimin.c, jcapistd.c, *)
(* jctrans.c) and the passes that jcmaster.c makes over an image.          *)
(*                                                                         *)
(* One action is one call of the application.  A session is a sequence of  *)
(* files that it writes with one compression object, each a step with its  *)
(* parameters.  The destination may refuse to take more; then the call     *)
(* returns and is made again when there is room.                           *)
(***************************************************************************)
EXTENDS CompressPipeline

CONSTANTS
  Sessions,      \* the sessions of an application
  MaxRoom,       \* the MCUs that a destination may take before it is full
  LinesPerCall   \* the rows that a call may bring

ASSUME BoundsAssumption == MaxRoom \in Nat \ {0} /\ LinesPerCall \subseteq Nat \ {0}

VARIABLES
  session,       \* the steps that are left, the first one being made
  streams,       \* the files written so far
  c              \* the compression object

vars == <<session, streams, c>>

Step == Head(session)

(***************************************************************************)
(* The compression object                                                  *)
(***************************************************************************)

\* Standard tables: the basic table at a quality, the Huffman tables of the standard.
QuantTable(p, i) ==
  [sent_table |-> FALSE,
   content |-> [scale |-> jpeg_quality_scaling(p.quality), force |-> p.force,
                largest |-> quantval(LargestEntry[i], jpeg_quality_scaling(p.quality), p.force)]]
StandardHuffTable == [sent_table |-> FALSE, content |-> [id |-> <<0, 0>>, counted |-> <<>>]]

jpeg_set_defaults(k, p) ==
  [k EXCEPT !.par = p, !.quant = [i \in {0, 1} |-> QuantTable(p, i)],
            !.dc = [i \in {0, 1} |-> StandardHuffTable], !.ac = [i \in {0, 1} |-> StandardHuffTable]]

NoRow == 0 - 1
NoScan == Scan(<<>>, 0, 0, 0, 0)

Created(p) ==
  [ state |-> "START", par |-> p, next_scanline |-> 0, begun |-> FALSE, out |-> <<>>, room |-> MaxRoom,
    quant |-> <<>>, dc |-> <<>>, ac |-> <<>>, fdct |-> <<>>,
    master |-> [pass_type |-> "main", pass_number |-> 0, scan_number |-> 0, total_passes |-> 1,
                call_pass_startup |-> FALSE, is_last_pass |-> FALSE],
    prep |-> [rows_to_go |-> 0, next_buf_row |-> 0, this_row_group |-> 0, next_buf_stop |-> 0, color_buf |-> <<>>],
    main |-> [buffer |-> <<>>, rowgroup_ctr |-> 0, cur_iMCU_row |-> 0, suspended |-> FALSE],
    coef |-> [mode |-> "none", iMCU_row_num |-> 0, mcu_ctr |-> 0, MCU_vert_offset |-> 0,
              MCU_rows_per_iMCU_row |-> 0, whole_image |-> <<>>],
    entropy |-> [gather |-> FALSE, counted |-> <<>>, tables |-> <<>>, restarts_to_go |-> 0, next_restart_num |-> 0],
    scan |-> NoScan, setup |-> <<>>, last_restart_interval |-> 0, in_row_ctr |-> 0, done |-> TRUE ]

jpeg_CreateCompress(p) == jpeg_set_defaults(Created(p), p)

Init ==
  /\ session \in Sessions
  /\ streams = <<>>
  /\ c = jpeg_CreateCompress(session[1].par)

\* jpeg_abort: the tables and the parameters stay.
jpeg_abort(k) ==
  [Created(k.par) EXCEPT !.quant = k.quant, !.dc = k.dc, !.ac = k.ac]

\* The next step of the session begins with the parameters it has set.
Begin(k, steps) ==
  IF steps = <<>> THEN k
  ELSE IF steps[1].set THEN jpeg_set_defaults(k, steps[1].par) ELSE [k EXCEPT !.par = steps[1].par]

(***************************************************************************)
(* Passes                                                                  *)
(***************************************************************************)

\* The buffers of an image are not cleared before they are filled.
Buffers(k) ==
  LET p == k.par
      full == Len(Script(p)) > 1 \/ optimize_coding(p)
  IN  [k EXCEPT
        !.prep.color_buf = [i \in 0 .. buf_height(p) - 1 |-> NoRow],
        !.main.buffer = [x \in Components(p) |-> [r \in 0 .. (DCTSIZE * V(p, x)) - 1 |-> <<NoRow>>]],
        !.coef.whole_image =
          IF ~ full \/ p.transcode THEN <<>>
          ELSE [x \in Components(p) |->
                  [r \in 0 .. (CeilDiv(height_in_blocks(p, x), V(p, x)) * V(p, x)) - 1 |->
                     [b \in 0 .. (CeilDiv(width_in_blocks(p, x), H(p, x)) * H(p, x)) - 1 |->
                        [comp |-> 0, col |-> 0, ac |-> FALSE, src |-> <<>>]]]]]

jinit_c_master_control(k) ==
  [k EXCEPT !.master =
     [ pass_type |-> IF ~ k.par.transcode THEN "main" ELSE IF optimize_coding(k.par) THEN "huff_opt" ELSE "output",
       pass_number |-> 0, scan_number |-> 0, call_pass_startup |-> FALSE, is_last_pass |-> FALSE,
       total_passes |-> Len(Script(k.par)) * (IF optimize_coding(k.par) THEN 2 ELSE 1) ]]

Scripted(k) == Script(k.par)[k.master.scan_number + 1]

select_scan_parameters(k) ==
  [k EXCEPT !.scan = Scripted(k), !.setup = per_scan_setup(k.par, Scripted(k))]

\* The divisors of the DCT are made of the tables as they are.
start_pass_fdctmgr(k) ==
  [k EXCEPT !.fdct = [x \in Components(k.par) |-> k.quant[Comps(k.par)[x].quant].content]]

main_pass(k) ==
  [start_pass_main(
     start_pass_coef(
       start_pass_entropy(start_pass_fdctmgr(start_pass_prep(select_scan_parameters(k))), optimize_coding(k.par)),
       IF k.master.total_passes > 1 THEN "SAVE_AND_PASS" ELSE "PASS_THRU"))
     EXCEPT !.master.call_pass_startup = ~ optimize_coding(k.par)]

WriteHeaders(k) == write_scan_header(IF k.master.scan_number = 0 THEN write_frame_header(k) ELSE k)

output_pass(k) ==
  [WriteHeaders(start_pass_coef(start_pass_entropy(k, FALSE), "CRANK_DEST"))
     EXCEPT !.master.call_pass_startup = FALSE]

\* The refinement of DC values needs no tables: its optimization pass is left out.
huff_opt_pass(k) ==
  IF k.scan.Ss # 0 \/ k.scan.Ah = 0
  THEN [start_pass_coef(start_pass_entropy(k, TRUE), "CRANK_DEST") EXCEPT !.master.call_pass_startup = FALSE]
  ELSE output_pass([k EXCEPT !.master.pass_type = "output", !.master.pass_number = @ + 1])

LastPass(k) == [k EXCEPT !.master.is_last_pass = k.master.pass_number = k.master.total_passes - 1]

prepare_for_pass(k) ==
  IF MCU_too_large(k.par, Scripted(k)) THEN [k EXCEPT !.state = "exited"]
  ELSE CASE k.master.pass_type = "main"     -> LastPass(main_pass(k))
         [] k.master.pass_type = "huff_opt" -> LastPass(huff_opt_pass(select_scan_parameters(k)))
         [] OTHER -> LastPass(output_pass(IF optimize_coding(k.par) THEN k ELSE select_scan_parameters(k)))

pass_startup(k) ==
  IF k.master.call_pass_startup
  THEN write_scan_header(write_frame_header([k EXCEPT !.master.call_pass_startup = FALSE])) ELSE k

\* (mutant) A new table counts as sent if the old one was.
OptimalAsSent(k) ==
  [sent_table |-> k.ac[0].sent_table,
   content |-> [id |-> <<Len(streams) + 1, k.master.scan_number + 1>>, counted |-> k.entropy.counted]]

\* finish_pass_gather: new tables for the components of the scan, made of what
\* the pass has counted.
Optimal(k) ==
  [sent_table |-> FALSE,
   content |-> [id |-> <<Len(streams) + 1, k.master.scan_number + 1>>, counted |-> k.entropy.counted]]

TableNumbers(k, kind) == {Comps(k.par)[k.scan.comps[x]][kind] : x \in DOMAIN k.scan.comps}
finish_pass_gather(k) ==
  [k EXCEPT !.dc = [i \in DOMAIN @ |-> IF uses_dc(k) /\ i \in TableNumbers(k, "dc") THEN Optimal(k) ELSE @[i]],
            !.ac = [i \in DOMAIN @ |-> IF uses_ac(k) /\ i \in TableNumbers(k, "ac") THEN Optimal(k) ELSE @[i]]]

finish_pass_master(k) ==
  LET f    == IF k.entropy.gather THEN finish_pass_gather(k) ELSE k
      type == k.master.pass_type
      next == IF type = "output" /\ optimize_coding(k.par) THEN "huff_opt" ELSE "output"
      scan == IF type = "output" \/ (type = "main" /\ ~ optimize_coding(k.par)) THEN 1 ELSE 0
  IN  [f EXCEPT !.master.pass_type = next, !.master.scan_number = @ + scan, !.master.pass_number = @ + 1]

\* The rows of a pass that works from the buffer cannot be suspended.
RECURSIVE CrankRows(_)
CrankOn(k) == IF k.done THEN CrankRows(k) ELSE [k EXCEPT !.state = "exited"]
CrankRows(k) ==
  IF k.state # "exited" /\ k.coef.iMCU_row_num < total_iMCU_rows(k.par) THEN CrankOn(compress_data(k)) ELSE k

RECURSIVE RemainingPasses(_)
PassDone(k) == IF k.state = "exited" THEN k ELSE RemainingPasses(finish_pass_master(k))
RemainingPasses(k) ==
  IF k.master.is_last_pass THEN write_file_trailer(k) ELSE PassDone(CrankRows(prepare_for_pass(k)))

(***************************************************************************)
(* The calls of the application                                            *)
(***************************************************************************)

\* A file is complete: the next step may begin.
FileWritten(k) ==
  /\ streams' = Append(streams, [par |-> k.par, out |-> k.out])
  /\ session' = Tail(session)
  /\ c' = Begin(jpeg_abort(k), Tail(session))

jpeg_write_tables ==
  /\ session # <<>> /\ Step.call = "tables" /\ c.state = "START"
  /\ FileWritten(write_tables_only(c))

Started(k) ==
  IF StartFails(k.par) THEN [k EXCEPT !.state = "exited"]
  ELSE prepare_for_pass(write_file_header(jinit_c_master_control(Buffers(k))))

Ready(k, state) == IF k.state = "exited" THEN k ELSE [k EXCEPT !.state = state, !.next_scanline = 0]

jpeg_start_compress ==
  /\ session # <<>> /\ Step.call = "image" /\ c.state = "START"
  /\ c' = Ready(Started(IF Step.all THEN jpeg_suppress_tables(c, FALSE) ELSE c),
                IF c.par.raw THEN "RAW_OK" ELSE "SCANNING")
  /\ UNCHANGED <<session, streams>>

\* The coefficients have been quantized with the tables of the object
\* (jpeg_copy_critical_parameters).
jpeg_write_coefficients ==
  /\ session # <<>> /\ Step.call = "coefficients" /\ c.state = "START"
  /\ c' = LET k == jpeg_suppress_tables(c, FALSE)
          IN  IF StartFails(k.par) THEN [k EXCEPT !.state = "exited"]
              ELSE Ready(write_file_header(jinit_c_master_control(start_pass_fdctmgr(k))), "WRCOEFS")
  /\ UNCHANGED <<session, streams>>

\* A comment, before the first row.
jpeg_write_marker ==
  /\ c.state \in {"SCANNING", "RAW_OK", "WRCOEFS"} /\ c.next_scanline = 0
  /\ ~ c.begun /\ Step.comment /\ Last(c.out).m # "COM"
  /\ c' = emit_marker(c, "COM")
  /\ UNCHANGED <<session, streams>>

RowsWritten(k) == [k EXCEPT !.next_scanline = @ + k.in_row_ctr, !.in_row_ctr = 0]

jpeg_write_scanlines ==
  /\ c.state = "SCANNING" /\ c.next_scanline < c.par.height
  /\ \E num_lines \in LinesPerCall :
       c' = RowsWritten(process_data_simple_main([pass_startup(c) EXCEPT !.in_row_ctr = 0, !.begun = TRUE],
                                                 Min({num_lines, c.par.height - c.next_scanline})))
  /\ UNCHANGED <<session, streams>>

\* The rows of an iMCU row, as the application has them.
RawRows(k) ==
  LET n == k.next_scanline \div (MaxV(k.par) * DCTSIZE)
  IN  [k EXCEPT !.main.buffer =
         [x \in Components(k.par) |-> [r \in DOMAIN @[x] |-> <<(n * DCTSIZE * V(k.par, x)) + r>>]]]

RawWritten(k) == IF k.done THEN [k EXCEPT !.next_scanline = @ + (MaxV(k.par) * DCTSIZE)] ELSE k

jpeg_write_raw_data ==
  /\ c.state = "RAW_OK" /\ c.next_scanline < c.par.height
  /\ c' = RawWritten(compress_data(RawRows([pass_startup(c) EXCEPT !.begun = TRUE])))
  /\ UNCHANGED <<session, streams>>

\* A file that lacks rows is refused; the passes that remain are made.
Finished(k) ==
  IF k.state = "WRCOEFS" THEN RemainingPasses(k)
  ELSE IF k.next_scanline < k.par.height THEN [k EXCEPT !.state = "exited"]
  ELSE RemainingPasses(finish_pass_master(k))

jpeg_finish_compress ==
  /\ c.state \in {"SCANNING", "RAW_OK", "WRCOEFS"}
  /\ c.next_scanline >= c.par.height \/ c.state = "WRCOEFS" \/ Step.early
  /\ LET k == Finished(c)
     IN  IF k.state = "exited" THEN c' = k /\ UNCHANGED <<session, streams>> ELSE FileWritten(k)

\* The application gives a file up, or has to after an error; what was written of
\* it is lost.
jpeg_abort_compress ==
  /\ session # <<>> /\ (c.state = "exited" \/ (Step.early /\ c.state # "START"))
  /\ session' = Tail(session)
  /\ c' = Begin(jpeg_abort(c), Tail(session))
  /\ UNCHANGED streams

\* The destination has room again.
EmptyBuffer ==
  /\ c.state \in {"SCANNING", "RAW_OK"} /\ c.par.suspends /\ c.room = 0
  /\ \E n \in 1 .. MaxRoom : c' = [c EXCEPT !.room = n]
  /\ UNCHANGED <<session, streams>>

Stopped == session = <<>> /\ UNCHANGED vars

Next ==
  \/ jpeg_write_tables \/ jpeg_start_compress \/ jpeg_write_coefficients \/ jpeg_write_marker
  \/ jpeg_write_scanlines \/ jpeg_write_raw_data \/ jpeg_finish_compress \/ jpeg_abort_compress
  \/ EmptyBuffer \/ Stopped

Spec == Init /\ [][Next]_vars

(***************************************************************************)
(* What may be expected of the files that CompressController writes, said  *)
(* in the terms of the JPEG standard: by the place of a block in the image *)
(* and by what a decoder knows when it comes to a marker.                  *)
(***************************************************************************)

(***************************************************************************)
(* The place of an MCU and of its blocks (A.2 of the standard)             *)
(***************************************************************************)

\* The blocks of MCU m of a scan, from 0, as <<component, row, column>>.
BlocksOf(p, scan, m) ==
  LET one    == scan.comps[1]
      across == CeilDiv(p.width, 8 * MaxH(p))
      Place(x, b) ==
        <<x, ((m \div across) * V(p, x)) + (b \div H(p, x)), ((m % across) * H(p, x)) + (b % H(p, x))>>
  IN  IF Len(scan.comps) = 1
      THEN <<<<one, m \div width_in_blocks(p, one), m % width_in_blocks(p, one)>>>>
      ELSE FlattenSeq([x \in DOMAIN scan.comps |->
             [b \in 1 .. H(p, scan.comps[x]) * V(p, scan.comps[x]) |-> Place(scan.comps[x], b - 1)]])

MCUsOf(p, scan) ==
  IF Len(scan.comps) = 1 THEN width_in_blocks(p, scan.comps[1]) * height_in_blocks(p, scan.comps[1])
  ELSE CeilDiv(p.width, 8 * MaxH(p)) * CeilDiv(p.height, 8 * MaxV(p))

InImage(p, at) == at[2] < height_in_blocks(p, at[1]) /\ at[3] < width_in_blocks(p, at[1])

\* The image rows of sample row r: those it covers, and one more on each side if
\* the image is smoothed; beyond the edge of the image the row at the edge.
RowsCovered(p, x, r) ==
  LET v == MaxV(p) \div V(p, x)
      k == IF smooths(p, x) THEN 1 ELSE 0
  IN  [i \in 1 .. v + (2 * k) |-> Max({0, Min({p.height - 1, (r * v) + i - 1 - k})})]

\* Sample rows below the image repeat something of the last row group.
Padding(p, row) ==
  \A i \in DOMAIN row : row[i] \in (((p.height - 1) \div MaxV(p)) * MaxV(p)) - 1 .. p.height - 1

RowRight(p, x, r, row) ==
  IF p.raw THEN row = <<r>>
  ELSE IF r < downsampled_height(p, x) THEN row = RowsCovered(p, x, r) ELSE Padding(p, row)

SourceRight(p, at, block) ==
  IF p.transcode THEN block.src = <<at[2]>>
  ELSE \A i \in 1 .. 8 : RowRight(p, at[1], (at[2] * 8) + i - 1, block.src[i])

BlockRight(p, blocks, places, i) ==
  IF InImage(p, places[i])
  THEN blocks[i].comp = places[i][1] /\ blocks[i].col = places[i][3] /\ blocks[i].ac
         /\ SourceRight(p, places[i], blocks[i])
  ELSE i > 1 /\ blocks[i] = [blocks[i - 1] EXCEPT !.ac = FALSE]

MCURight(p, scan, m, blocks) ==
  LET places == BlocksOf(p, scan, m)
  IN  Len(blocks) = Len(places) /\ \A i \in DOMAIN places : BlockRight(p, blocks, places, i)

MarkersOf(out, name) == {i \in DOMAIN out : out[i].m = name}
Before(S, i) == {j \in S : j < i}
\* The marker of a scan that MCU i belongs to, and its number in the scan.
ScanStart(out, i) == Max(Before(MarkersOf(out, "SOS"), i))
NumberInScan(out, i) == Cardinality({j \in MarkersOf(out, "MCU") : ScanStart(out, i) < j /\ j < i})

\* However the application cuts its rows into calls, wherever the destination
\* makes it wait, with or without rows of context, and through all the passes:
\* the MCUs of a scan come in order, their blocks in the order of the standard,
\* made of the rows they lie on; blocks beyond the edges repeat the DC value
\* before them (jcprepct.c, jccoefct.c, jctrans.c).
BlocksInPlace ==
  \A i \in MarkersOf(c.out, "MCU") :
    MCURight(c.par, c.out[ScanStart(c.out, i)].v.scan, NumberInScan(c.out, i), c.out[i].v.blocks)

(***************************************************************************)
(* The decoder's view of the files                                         *)
(***************************************************************************)

NoTable == [id |-> <<9, 9>>]
Blank == [quant |-> [i \in {0, 1} |-> NoTable], dc |-> [i \in {0, 1} |-> NoTable],
          ac |-> [i \in {0, 1} |-> NoTable], dri |-> 0, sof |-> NoTable, sos |-> NoTable,
          phase |-> "none", mcu |-> 0, rst |-> 0, ok |-> TRUE]

Baseline(d, v) == \A x \in DOMAIN v.comps : d.quant[v.comps[x].quant].largest <= 255

\* The tables the encoder has used for an MCU are those the decoder has, and
\* optimized ones have counted it.
TablesKnown(d, v) ==
  \A x \in DOMAIN d.sos.comps :
    LET s == d.sos.comps[x]
        scan == d.sos.scan
        Known(have, used) == have = used /\ (used.id # <<0, 0>> => v.blocks \in Range(used.counted))
    IN  /\ d.quant[d.sof.comps[s.comp].quant] = v.tables[x].quant
        /\ (scan.Ss = 0 /\ scan.Ah = 0) => Known(d.dc[s.td], v.tables[x].dc)
        /\ (scan.Se > 0) => Known(d.ac[s.ta], v.tables[x].ac)

\* A restart marker stands before an MCU when the interval is over, and only then.
RestartRight(d) == (d.rst > 0) = (d.dri > 0 /\ d.mcu > 0 /\ d.mcu % d.dri = 0)

Read(d, x) ==
  CASE x.m = "SOI" -> [d EXCEPT !.phase = "tables", !.dri = 0, !.ok = @ /\ d.phase = "none"]
    [] x.m \in {"JFIF", "Adobe", "COM"} -> [d EXCEPT !.ok = @ /\ d.phase = "tables"]
    [] x.m = "DQT" -> [d EXCEPT !.quant[x.v.index] = x.v.table, !.ok = @ /\ d.phase = "tables"]
    [] x.m = "DHT" -> IF x.v.ac THEN [d EXCEPT !.ac[x.v.index] = x.v.table]
                      ELSE [d EXCEPT !.dc[x.v.index] = x.v.table]
    [] x.m = "DRI" -> [d EXCEPT !.dri = x.v, !.ok = @ /\ d.phase \in {"frame", "scan"}]
    [] x.m \in {"SOF0", "SOF1", "SOF2"} ->
         [d EXCEPT !.sof = x.v, !.phase = "frame",
                   !.ok = @ /\ d.phase = "tables" /\ \A i \in DOMAIN x.v.comps : d.quant[x.v.comps[i].quant] # NoTable
                            /\ (x.m = "SOF0" => Baseline(d, x.v))]
    [] x.m = "SOS" -> [d EXCEPT !.sos = x.v, !.phase = "scan", !.mcu = 0, !.rst = 0,
                                !.ok = @ /\ d.phase \in {"frame", "scan"}]
    [] x.m = "RST" -> [d EXCEPT !.rst = 1, !.ok = @ /\ d.rst = 0 /\ d.dri > 0 /\ x.v = ((d.mcu \div d.dri) - 1) % 8]
    [] x.m = "MCU" -> [d EXCEPT !.mcu = @ + 1, !.rst = 0,
                                !.ok = @ /\ d.phase = "scan" /\ RestartRight(d) /\ TablesKnown(d, x.v)]
    [] OTHER -> [d EXCEPT !.phase = "none"]

\* A decoder that reads the files of a session in order, keeping the tables from
\* one to the next (libjpeg.doc, "Abbreviated datastreams"), has at each MCU the
\* tables and the restart interval it was coded with, although tables are sent
\* once only, made anew for each scan, or in a file of their own.
Decodable == FoldLeft(Read, Blank, FlattenSeq([n \in DOMAIN streams |-> streams[n].out]) \o c.out).ok

(***************************************************************************)
(* Rows and scans                                                          *)
(***************************************************************************)

\* The rows an application is told to have been taken are those that have been,
\* but for the last one while its iMCU row waits for the destination; so when all
\* have been taken the pass is over, and only then (jcmainct.c: "otherwise, if it
\* happened to be the last row of the image, the application would think we were
\* done").
RowsAccounted ==
  /\ c.state = "SCANNING" =>
       /\ c.par.height - c.prep.rows_to_go = c.next_scanline + (IF c.main.suspended THEN 1 ELSE 0)
       /\ (c.next_scanline = c.par.height) = (c.main.cur_iMCU_row = total_iMCU_rows(c.par))
  /\ c.state \in {"SCANNING", "RAW_OK"} =>
       (c.next_scanline >= c.par.height) = (c.coef.iMCU_row_num = total_iMCU_rows(c.par))

\* The bits of coefficient k of component x that a scan sends.
BitsOf(scan, x, k) ==
  IF x \notin Range(scan.comps) \/ k \notin scan.Ss .. scan.Se THEN {}
  ELSE IF scan.Ah > 0 THEN scan.Al .. scan.Ah - 1 ELSE scan.Al .. MAX_AH_AL

MCUsWritten(out, i) == {j \in MarkersOf(out, "MCU") : i < j /\ ScanStart(out, j) = i}

\* A complete image file has a scan for each of its script, each with all its
\* MCUs, whatever passes were made or left out, and an end; and but for a script of
\* the application's own it has each bit of each coefficient once.
Complete(p, out) ==
  LET starts == SelectSeq([i \in DOMAIN out |-> i], LAMBDA i : out[i].m = "SOS")
      Sent(x, k, b) == {i \in DOMAIN starts : b \in BitsOf(out[starts[i]].v.scan, x, k)}
  IN  /\ MarkersOf(out, "EOI") = {Len(out)}
      /\ Len(starts) = Len(Script(p))
      /\ \A i \in DOMAIN starts :
           /\ out[starts[i]].v.scan = Script(p)[i]
           /\ Cardinality(MCUsWritten(out, starts[i])) = MCUsOf(p, Script(p)[i])
      /\ p.script # "own" =>
           \A x \in Components(p) : \A k \in {0, 1, 5, 6, 63} : \A b \in 0 .. MAX_AH_AL :
             Cardinality(Sent(x, k, b)) = 1
FilesComplete ==
  \A n \in DOMAIN streams :
    MarkersOf(streams[n].out, "SOF0") \union MarkersOf(streams[n].out, "SOF1")
      \union MarkersOf(streams[n].out, "SOF2") # {} => Complete(streams[n].par, streams[n].out)
=============================================================================
