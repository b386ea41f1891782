---------------------------- MODULE RowPipeline ----------------------------
(***************************************************************************)
(* The way of the rows through libjpeg's decompressor: the main buffer     *)
(* controller (jdmainct.c) holds an iMCU row, hands it out by row groups   *)
(* to the upsampler (jdsample.c or jdmerge.c), and the postprocessing      *)
(* controller (jdpostct.c) keeps the rows that the colour quantizer needs. *)
(*                                                                         *)
(* g is what MasterSelection has set up.  d is the decompressor: d.main,   *)
(* d.up and d.post are the private states of the three, d.rows the rows    *)
(* put out by the call in progress.  A sample row is known by where it     *)
(* comes from: its number in its component, the scans its coefficients     *)
(* were read from, and those the blocks around it were smoothed with.      *)
(***************************************************************************)
EXTENDS DecompressSetup

NoSample == [row |-> -1, scans |-> 0, around |-> 0]
Unset == -1

Comps(g) == DOMAIN g.rgroup

\* Sample rows of component c in an iMCU row.
iMCUheight(g, c) == g.rgroup[c] * g.M

(***************************************************************************)
(* The pointer lists of the main controller: the workspace has M + 2 row   *)
(* groups, and a list orders M + 4 of them, one above and one below.       *)
(***************************************************************************)

Workspace(g) ==
  [c \in Comps(g) |-> [b \in 0 .. (g.rgroup[c] * (g.M + (IF g.context THEN 2 ELSE 0))) - 1 |-> NoSample]]

alloc_funny_pointers(g) ==
  [w \in 0 .. 1 |-> [c \in Comps(g) |-> [i \in -g.rgroup[c] .. (g.rgroup[c] * (g.M + 3)) - 1 |-> Unset]]]

\* The second list has the last four row groups swapped in pairs.
make_funny_pointers(g, xbuf) ==
  LET swapped(c, i) ==
        LET r == g.rgroup[c]
        IN  IF i \in r * (g.M - 2) .. (r * g.M) - 1 THEN i + (2 * r)
            ELSE IF i \in r * g.M .. (r * (g.M + 2)) - 1 THEN i - (2 * r) ELSE i
      listed(c, i) == i \in 0 .. (g.rgroup[c] * (g.M + 2)) - 1
  IN  [w \in 0 .. 1 |-> [c \in Comps(g) |-> [i \in DOMAIN xbuf[w][c] |->
        IF listed(c, i) THEN IF w = 0 THEN i ELSE swapped(c, i)
        ELSE IF w = 0 /\ i < 0 THEN 0
        ELSE xbuf[w][c][i]]]]

set_wraparound_pointers(g, xbuf) ==
  [w \in 0 .. 1 |-> [c \in Comps(g) |-> [i \in DOMAIN xbuf[w][c] |->
     LET r == g.rgroup[c]
     IN  IF i < 0 THEN xbuf[w][c][(r * (g.M + 2)) + i]
         ELSE IF i >= r * (g.M + 2) THEN xbuf[w][c][i - (r * (g.M + 2))]
         ELSE xbuf[w][c][i]]]]

\* The rows of component c in the last iMCU row that belong to the image.
rows_left(g, c) ==
  LET n == g.rows[c] % iMCUheight(g, c) IN IF n = 0 THEN iMCUheight(g, c) ELSE n

set_bottom_pointers(g, main) ==
  LET w == main.whichptr
      below(c, i) == i \in rows_left(g, c) .. rows_left(g, c) + (2 * g.rgroup[c]) - 1
  IN  [main EXCEPT
        !.rowgroups_avail = ((rows_left(g, 1) - 1) \div g.rgroup[1]) + 1,
        !.xbuffer[w] = [c \in Comps(g) |-> [i \in DOMAIN @[c] |->
                          @[c][IF below(c, i) THEN rows_left(g, c) - 1 ELSE i]]]]

start_pass_main(g, main, pass_mode) ==
  IF pass_mode = "CRANK_DEST" THEN [main EXCEPT !.process_data = "crank_post"]
  ELSE LET begun == [main EXCEPT !.process_data = IF g.context THEN "context" ELSE "simple",
                                 !.buffer_full = FALSE, !.rowgroup_ctr = 0]
       IN  IF ~ g.context THEN begun
           ELSE [begun EXCEPT !.xbuffer = make_funny_pointers(g, @), !.whichptr = 0,
                              !.context_state = "PREPARE", !.iMCU_row_ctr = 0]

\* The rows that decompress_data and post_process_data are given.
InputBuffer(g, main) ==
  IF g.context THEN main.xbuffer[main.whichptr]
  ELSE [c \in Comps(g) |-> [i \in 0 .. iMCUheight(g, c) - 1 |-> i]]

(***************************************************************************)
(* The upsamplers.  buf is InputBuffer, group the row group to take.  A    *)
(* component of full size is not copied: color_buf points to its rows.     *)
(***************************************************************************)

Fetch(main, c, b) == IF b = Unset THEN NoSample ELSE main.buffer[c][b]

\* The two nearest rows of h2v2_fancy_upsample; the other methods use one.
Nearest(i) == i \div 2
NextNearest(i) == (i \div 2) + (IF i % 2 = 0 THEN -1 ELSE 1)

upsample_methods(g, main, c, buf, group) ==
  LET sample(i) == Fetch(main, c, buf[c][(group * g.rgroup[c]) + i])
      expand == g.max_v \div g.rgroup[c]
  IN  [i \in 0 .. g.max_v - 1 |->
        CASE g.method[c] = "noop"       -> <<NoSample, NoSample>>
          [] g.method[c] = "fullsize"   -> <<buf[c][(group * g.rgroup[c]) + i]>>
          [] g.method[c] = "h2v2_fancy" -> <<sample(Nearest(i)), sample(NextNearest(i))>>
          [] OTHER                      -> <<sample(i \div expand), sample(i \div expand)>>]

\* color_convert reads the rows when they are put out.
color_convert(g, main, color_buf, i) ==
  [c \in Comps(g) |->
     LET entry == color_buf[c][i]
     IN  IF Len(entry) = 1 THEN <<Fetch(main, c, entry[1]), Fetch(main, c, entry[1])>> ELSE entry]

Least(a, b) == IF a < b THEN a ELSE b

\* The conversion buffer is filled if it is empty.
Upsampled(g, d, buf) ==
  IF d.up.next_row_out < g.max_v THEN d
  ELSE [d EXCEPT !.up.next_row_out = 0,
                 !.up.color_buf = [c \in Comps(g) |-> upsample_methods(g, d.main, c, buf, d.main.rowgroup_ctr)]]

\* The rows put out are left in d.up.emitted.  The row group has been consumed
\* when its last row is out.
Emitted(g, d, num_rows) ==
  [d EXCEPT !.up.emitted = [i \in 1 .. num_rows |->
                              color_convert(g, d.main, d.up.color_buf, d.up.next_row_out + i - 1)],
            !.up.next_row_out = @ + num_rows,
            !.up.rows_to_go = @ - num_rows,
            !.main.rowgroup_ctr = IF d.up.next_row_out + num_rows >= g.max_v THEN @ + 1 ELSE @]

\* As many as are in the buffer, in the image and have room.
RowsInBuffer(g, d, room) == Least(Least(g.max_v - d.up.next_row_out, d.up.rows_to_go), room)

EmitRows(g, d, room) == Emitted(g, d, RowsInBuffer(g, d, room))

sep_upsample(g, d, buf, room) == EmitRows(g, Upsampled(g, d, buf), room)

\* h2v1_merged_upsample and h2v2_merged_upsample: row i of a row group.
upmethod(g, main, buf, group, i) ==
  [c \in Comps(g) |->
     LET s == Fetch(main, c, buf[c][IF c = 1 THEN (group * g.max_v) + i ELSE group]) IN <<s, s>>]

\* (mutant) It waits for room for both rows.
MergedWhenRoom(g, d, buf, num_rows) ==
  IF num_rows < Least(g.max_v, d.up.rows_to_go) THEN [d EXCEPT !.up.emitted = <<>>]
  ELSE [d EXCEPT !.up.emitted = [i \in 1 .. num_rows |-> upmethod(g, d.main, buf, d.main.rowgroup_ctr, i - 1)],
                 !.up.rows_to_go = @ - num_rows,
                 !.main.rowgroup_ctr = @ + 1]

\* A second row there is no room for waits in spare_row, also the one below the
\* last row of an image of odd height.
MergedRows(g, d, buf, num_rows) ==
  LET spare == g.max_v = 2 /\ num_rows < 2
  IN  [d EXCEPT !.up.emitted = [i \in 1 .. num_rows |-> upmethod(g, d.main, buf, d.main.rowgroup_ctr, i - 1)],
                !.up.spare_full = spare,
                !.up.spare_row = IF spare THEN upmethod(g, d.main, buf, d.main.rowgroup_ctr, 1) ELSE @,
                !.up.rows_to_go = @ - num_rows,
                !.main.rowgroup_ctr = IF spare THEN @ ELSE @ + 1]

\* merged_2v_upsample and merged_1v_upsample.
merged_upsample(g, d, buf, room) ==
  IF g.max_v = 2 /\ d.up.spare_full
  THEN [d EXCEPT !.up.emitted = <<d.up.spare_row>>, !.up.spare_full = FALSE,
                 !.up.rows_to_go = @ - 1, !.main.rowgroup_ctr = @ + 1]
  ELSE MergedRows(g, d, buf, Least(Least(g.max_v, d.up.rows_to_go), room))

start_pass_upsample(g, up) ==
  [up EXCEPT !.next_row_out = g.max_v, !.spare_full = FALSE, !.rows_to_go = g.height]

upsample(g, d, buf, room) ==
  IF g.merged THEN merged_upsample(g, d, buf, room) ELSE sep_upsample(g, d, buf, room)

(***************************************************************************)
(* The postprocessing controller: strips of max_v_samp_factor rows of an   *)
(* array of the whole image.                                               *)
(***************************************************************************)

strip_height(g) == g.max_v
StripRows(g) == CeilDiv(g.height, strip_height(g)) * strip_height(g)

start_pass_dpost(post, quantize, pass_mode) ==
  [post EXCEPT !.starting_row = 0, !.next_row = 0,
               !.post_process_data = CASE pass_mode = "SAVE_AND_PASS" -> "prepass"
                                       [] pass_mode = "CRANK_DEST" -> "2pass"
                                       [] quantize -> "1pass"
                                       [] OTHER -> "upsample"]

\* The next strip begins when one is full.
Advance(g, post, num_rows) ==
  IF post.next_row + num_rows >= strip_height(g)
  THEN [post EXCEPT !.starting_row = @ + strip_height(g), !.next_row = 0]
  ELSE [post EXCEPT !.next_row = @ + num_rows]

Collected(d) == [d EXCEPT !.rows = @ \o d.up.emitted]

post_process_1pass(g, d, buf, out_rows_avail) ==
  Collected(upsample(g, d, buf, Least(out_rows_avail - Len(d.rows), strip_height(g))))

\* The rows upsampled go to the strip at row at, and to the quantizer.
Saved(g, d, at) ==
  [d EXCEPT
     !.post = [Advance(g, @, Len(d.up.emitted)) EXCEPT
                 !.whole_image = [i \in DOMAIN @ |-> IF i \in at .. at + Len(d.up.emitted) - 1
                                                     THEN d.up.emitted[i - at + 1] ELSE @[i]],
                 !.histogram = @ \o d.up.emitted],
     !.rows = @ \o d.up.emitted]

\* The quantizer only scans the rows; none are put out, and out_row_ctr counts
\* them.
post_process_prepass(g, d, buf) ==
  Saved(g, upsample(g, d, buf, strip_height(g) - d.post.next_row), d.post.starting_row + d.post.next_row)

\* "We have to check bottom of image here, can't depend on upsampler."
RowsToBottom(g, post) == g.height - post.starting_row

\* What the strip, the application's buffer and the image have room for.
RowsOfStrip(g, d, out_rows_avail) ==
  Least(Least(strip_height(g) - d.post.next_row, out_rows_avail - Len(d.rows)), RowsToBottom(g, d.post))

MappedRows(g, d, num_rows) ==
  [d EXCEPT !.post = Advance(g, @, num_rows),
            !.rows = @ \o [i \in 1 .. num_rows |->
                             d.post.whole_image[d.post.starting_row + d.post.next_row + i - 1]]]

post_process_2pass(g, d, out_rows_avail) == MappedRows(g, d, RowsOfStrip(g, d, out_rows_avail))

post_process_data(g, d, buf, out_rows_avail) ==
  CASE d.post.post_process_data = "2pass" -> post_process_2pass(g, d, out_rows_avail)
    [] d.post.post_process_data = "prepass" -> post_process_prepass(g, d, buf)
    [] d.post.post_process_data = "1pass" -> post_process_1pass(g, d, buf, out_rows_avail)
    [] OTHER -> Collected(upsample(g, d, buf, out_rows_avail - Len(d.rows)))

(***************************************************************************)
(* The main controller hands out what the coefficient controller put into  *)
(* its buffer.                                                             *)
(***************************************************************************)

Feed(g, d, out_rows_avail) == post_process_data(g, d, InputBuffer(g, d.main), out_rows_avail)

EmptyIfConsumed(g, d) ==
  IF d.main.rowgroup_ctr >= g.M
  THEN [d EXCEPT !.main.buffer_full = FALSE, !.main.rowgroup_ctr = 0] ELSE d

process_data_simple_main(g, d, out_rows_avail) == EmptyIfConsumed(g, Feed(g, d, out_rows_avail))

Consumed(d) == d.main.rowgroup_ctr >= d.main.rowgroups_avail

\* The first M - 1 row groups of an iMCU row; the last one has to wait for the
\* row below it, unless there is none.
PrepareForIMCU(g, main) ==
  LET ready == [main EXCEPT !.rowgroup_ctr = 0, !.rowgroups_avail = g.M - 1, !.context_state = "PROCESS"]
  IN  IF main.iMCU_row_ctr = g.iMCU_rows THEN set_bottom_pointers(g, ready) ELSE ready

\* (mutant) The lists stay as they are at the top of the image.
NoWraparound(g, main) ==
  [main EXCEPT !.whichptr = 1 - @, !.buffer_full = FALSE,
               !.rowgroup_ctr = g.M + 1, !.rowgroups_avail = g.M + 2,
               !.context_state = "POSTPONED"]

\* The last row group is at index M + 1 of the other list.
PostponeLastGroup(g, main) ==
  [main EXCEPT !.xbuffer = IF main.iMCU_row_ctr = 1 THEN set_wraparound_pointers(g, @) ELSE @,
               !.whichptr = 1 - @, !.buffer_full = FALSE,
               !.rowgroup_ctr = g.M + 1, !.rowgroups_avail = g.M + 2,
               !.context_state = "POSTPONED"]

\* CTX_PROCESS_IMCU, and CTX_PREPARE_FOR_IMCU before it.
PostponeIfConsumed(g, d) == IF Consumed(d) THEN [d EXCEPT !.main = PostponeLastGroup(g, @)] ELSE d
Prepared(g, d) ==
  IF d.main.context_state = "PREPARE" THEN [d EXCEPT !.main = PrepareForIMCU(g, @)] ELSE d
ProcessIMCU(g, d, out_rows_avail) == PostponeIfConsumed(g, Feed(g, Prepared(g, d), out_rows_avail))

\* CTX_POSTPONED_ROW; what follows needs room for more rows.
LeavePostponed(d) == IF Consumed(d) THEN [d EXCEPT !.main.context_state = "PREPARE"] ELSE d
GoOn(g, d, out_rows_avail) ==
  IF d.main.context_state = "POSTPONED" \/ Len(d.rows) >= out_rows_avail THEN d
  ELSE ProcessIMCU(g, d, out_rows_avail)

process_data_context_main(g, d, out_rows_avail) ==
  IF d.main.context_state = "POSTPONED"
  THEN GoOn(g, LeavePostponed(Feed(g, d, out_rows_avail)), out_rows_avail)
  ELSE ProcessIMCU(g, d, out_rows_avail)
=============================================================================
