-------------------------- MODULE CompressPipeline --------------------------
(***************************************************************************)
(* What becomes of the rows that an application writes: the preprocessing  *)
(* controller (jcprepct.c) downsamples them in row groups, with rows of    *)
(* context if the image is smoothed, the main controller (jcmainct.c)      *)
(* collects iMCU rows of them, and the coefficient controllers             *)
(* (jccoefct.c, jctrans.c) make MCUs for the entropy coder, which may be   *)
(* suspended at each of them.                                              *)
(*                                                                         *)
(* A row of the image is its number, a sample row the tuple of the image   *)
(* rows it is made of.  A block has the sample rows, and the column, that  *)
(* its DC value comes from; ac is FALSE in a dummy block.                  *)
(***************************************************************************)
EXTENDS MarkerWriter

(***************************************************************************)
(* The preprocessing controller                                            *)
(***************************************************************************)

\* The context buffer holds three row groups; the pointers above and below it
\* lead to its last and its first group.
buf_height(p) == 3 * MaxV(p)
InBuffer(p, i) == IF need_context_rows(p) THEN i % buf_height(p) ELSE i

start_pass_prep(c) ==
  [c EXCEPT !.prep = [@ EXCEPT !.rows_to_go = c.par.height, !.next_buf_row = 0, !.this_row_group = 0,
                               !.next_buf_stop = 2 * MaxV(c.par)]]

\* Rows first .. first + n - 1 of the colour buffer take the next rows of the call.
color_convert(c, first, n) ==
  [c EXCEPT !.prep.color_buf =
     [i \in DOMAIN @ |-> IF i \in first .. first + n - 1
                         THEN c.next_scanline + c.in_row_ctr + i - first ELSE @[i]]]

TakeRows(c, n) ==
  [color_convert(c, c.prep.next_buf_row, n) EXCEPT
     !.in_row_ctr = @ + n, !.prep.next_buf_row = @ + n, !.prep.rows_to_go = @ - n]

\* expand_bottom_edge of the colour buffer; the row above the first one is the
\* last of the context buffer.
ExpandBottom(c, output_rows) ==
  [c EXCEPT !.prep.color_buf =
              [i \in DOMAIN @ |-> IF i \in c.prep.next_buf_row .. output_rows - 1
                                  THEN @[InBuffer(c.par, c.prep.next_buf_row - 1)] ELSE @[i]],
            !.prep.next_buf_row = output_rows]

\* A sample row is an average of v_expand rows; smoothing adds their neighbours.
SampleRow(c, x, at, j) ==
  LET v_expand == MaxV(c.par) \div V(c.par, x)
      first    == at + (j * v_expand)
      context  == IF smooths(c.par, x) THEN 1 ELSE 0
  IN  [k \in 1 .. v_expand + (2 * context) |-> c.prep.color_buf[InBuffer(c.par, first + k - 1 - context)]]

\* sep_downsample: the row group at `at` becomes the next one of the main buffer.
downsample(c, at) ==
  [c EXCEPT !.main.buffer =
              [x \in Components(c.par) |->
                 [r \in DOMAIN @[x] |->
                    LET j == r - (c.main.rowgroup_ctr * V(c.par, x))
                    IN  IF j \in 0 .. V(c.par, x) - 1 THEN SampleRow(c, x, at, j) ELSE @[x][r]]],
            !.main.rowgroup_ctr = @ + 1]

\* At the bottom the row group is filled up with the last row.
PadGroup(c) ==
  IF c.prep.rows_to_go = 0 /\ c.prep.next_buf_row < MaxV(c.par) THEN ExpandBottom(c, MaxV(c.par)) ELSE c

EmptyGroup(c) ==
  IF c.prep.next_buf_row = MaxV(c.par) THEN [downsample(c, 0) EXCEPT !.prep.next_buf_row = 0] ELSE c

\* And the iMCU row with the last sample row.
PadIMCU(c) ==
  IF c.prep.rows_to_go = 0 /\ c.main.rowgroup_ctr < DCTSIZE
  THEN [c EXCEPT !.main.buffer =
                   [x \in Components(c.par) |->
                      LET rows == c.main.rowgroup_ctr * V(c.par, x)
                      IN  [r \in DOMAIN @[x] |-> IF r < rows THEN @[x][r] ELSE @[x][rows - 1]]],
                 !.main.rowgroup_ctr = DCTSIZE]
  ELSE c

RECURSIVE pre_process_data(_, _)
pre_process_data(c, avail) ==
  IF c.in_row_ctr < avail /\ c.main.rowgroup_ctr < DCTSIZE
  THEN pre_process_data(
         PadIMCU(EmptyGroup(PadGroup(
           TakeRows(c, Min({MaxV(c.par) - c.prep.next_buf_row, avail - c.in_row_ctr}))))), avail)
  ELSE c

\* The first row is its own context above: the rows at -1 .. -max_v.
PadTop(old, c) ==
  IF old.prep.rows_to_go # c.par.height THEN c
  ELSE [c EXCEPT !.prep.color_buf =
          [i \in DOMAIN @ |-> IF i \in {InBuffer(c.par, 0 - r) : r \in 1 .. MaxV(c.par)} THEN @[0] ELSE @[i]]]

TakeContextRows(c, avail) ==
  PadTop(c, TakeRows(c, Min({c.prep.next_buf_stop - c.prep.next_buf_row, avail - c.in_row_ctr})))

\* (mutant) The wraparound of the group comes one group late.
WrapsLate(c) ==
  LET next == IF c.prep.next_buf_row >= buf_height(c.par) THEN 0 ELSE c.prep.next_buf_row
      this == c.prep.this_row_group + MaxV(c.par)
  IN  [c EXCEPT !.prep.this_row_group = IF this > buf_height(c.par) THEN 0 ELSE this,
                !.prep.next_buf_row = next,
                !.prep.next_buf_stop = next + MaxV(c.par)]

\* this_row_group and next_buf_row wrap around.
AdvanceGroup(c) ==
  LET next == IF c.prep.next_buf_row >= buf_height(c.par) THEN 0 ELSE c.prep.next_buf_row
      this == c.prep.this_row_group + MaxV(c.par)
  IN  [c EXCEPT !.prep.this_row_group = IF this >= buf_height(c.par) THEN 0 ELSE this,
                !.prep.next_buf_row = next,
                !.prep.next_buf_stop = next + MaxV(c.par)]

EmptyContextGroup(c) ==
  IF c.prep.next_buf_row = c.prep.next_buf_stop THEN AdvanceGroup(downsample(c, c.prep.this_row_group)) ELSE c

PadContext(c) ==
  IF c.prep.next_buf_row < c.prep.next_buf_stop THEN ExpandBottom(c, c.prep.next_buf_stop) ELSE c

RECURSIVE pre_process_context(_, _)
pre_process_context(c, avail) ==
  CASE c.main.rowgroup_ctr = DCTSIZE -> c
    [] c.main.rowgroup_ctr < DCTSIZE /\ c.in_row_ctr < avail ->
         pre_process_context(EmptyContextGroup(TakeContextRows(c, avail)), avail)
    [] c.main.rowgroup_ctr < DCTSIZE /\ c.in_row_ctr >= avail /\ c.prep.rows_to_go # 0 -> c
    [] OTHER -> pre_process_context(EmptyContextGroup(PadContext(c)), avail)

PreProcess(c, avail) ==
  IF c.main.rowgroup_ctr = DCTSIZE THEN c
  ELSE IF need_context_rows(c.par) THEN pre_process_context(c, avail) ELSE pre_process_data(c, avail)

(***************************************************************************)
(* The entropy coder as the controllers see it (jchuff.c, jphuff.c)        *)
(***************************************************************************)

\* The tables a pass codes with are those of its start.
start_pass_entropy(c, gather_statistics) ==
  [c EXCEPT !.entropy =
     [ gather |-> gather_statistics, counted |-> <<>>,
       tables |-> [x \in DOMAIN c.scan.comps |->
                     [quant |-> c.fdct[c.scan.comps[x]],
                      dc |-> c.dc[Comps(c.par)[c.scan.comps[x]].dc].content,
                      ac |-> c.ac[Comps(c.par)[c.scan.comps[x]].ac].content]],
       restarts_to_go |-> c.setup.restart_interval, next_restart_num |-> 0 ]]

RestartDue(c) == c.setup.restart_interval > 0 /\ c.entropy.restarts_to_go = 0

CountRestart(c) ==
  IF c.setup.restart_interval = 0 THEN c
  ELSE [c EXCEPT !.entropy.restarts_to_go = IF RestartDue(c) THEN c.setup.restart_interval - 1 ELSE @ - 1,
                 !.entropy.next_restart_num = IF RestartDue(c) THEN (@ + 1) % 8 ELSE @]

WriteMCU(c, blocks) ==
  LET rst == IF RestartDue(c) THEN emit(c, "RST", c.entropy.next_restart_num) ELSE c
  IN  [CountRestart(emit(rst, "MCU", [blocks |-> blocks, tables |-> c.entropy.tables])) EXCEPT
         !.done = TRUE, !.room = IF c.par.suspends THEN @ - 1 ELSE @]

\* In a pass that only counts symbols nothing is written.
encode_mcu(c, blocks) ==
  CASE c.entropy.gather -> [CountRestart(c) EXCEPT !.entropy.counted = Append(@, blocks), !.done = TRUE]
    [] ~ c.entropy.gather /\ c.par.suspends /\ c.room = 0 -> [c EXCEPT !.done = FALSE]
    [] OTHER -> WriteMCU(c, blocks)

(***************************************************************************)
(* The coefficient controllers                                             *)
(***************************************************************************)

LastIMCU(c) == c.coef.iMCU_row_num >= total_iMCU_rows(c.par) - 1

start_iMCU_row(c) ==
  [c EXCEPT !.coef.mcu_ctr = 0, !.coef.MCU_vert_offset = 0,
            !.coef.MCU_rows_per_iMCU_row =
               IF Len(c.scan.comps) > 1 THEN 1
               ELSE IF LastIMCU(c) THEN c.setup.last_row_height[1] ELSE V(c.par, c.scan.comps[1])]

start_pass_coef(c, mode) ==
  start_iMCU_row([c EXCEPT !.coef.mode = mode, !.coef.iMCU_row_num = 0])

Dummy(block) == [block EXCEPT !.ac = FALSE]

forward_DCT(c, x, row, col) ==
  [ comp |-> x, col |-> col, ac |-> TRUE,
    src |-> [i \in 1 .. DCTSIZE |-> c.main.buffer[x][(row * DCTSIZE) + i - 1]] ]

\* Block `col` of row `row` of the current iMCU row: from the samples, or from the
\* coefficients that a transcoder has been given.
RealBlock(c, x, row, col) ==
  IF c.par.transcode
  THEN [comp |-> x, col |-> col, ac |-> TRUE, src |-> <<(c.coef.iMCU_row_num * V(c.par, x)) + row>>]
  ELSE forward_DCT(c, x, row, col)

\* One row of blocks of the i-th component of an MCU, after those before it:
\* beyond the edges the DC value before it is repeated.
RowOfMCU(c, i, yindex, blocks) ==
  LET x     == c.scan.comps[i]
      width == c.setup.MCU_width[i]
      row   == c.coef.MCU_vert_offset + yindex
      count == IF LastIMCU(c) /\ row >= c.setup.last_row_height[i] THEN 0
               ELSE IF c.coef.mcu_ctr < c.setup.MCUs_per_row - 1 THEN width ELSE c.setup.last_col_width[i]
      reals == blocks \o [k \in 1 .. count |-> RealBlock(c, x, row, (c.coef.mcu_ctr * width) + k - 1)]
  IN  reals \o [k \in 1 .. width - count |-> Dummy(Last(reals))]

\* The rows of blocks of an MCU in the order of the file.
RowsOfMCU(c) ==
  FlattenSeq([i \in DOMAIN c.scan.comps |-> [y \in 1 .. c.setup.MCU_height[i] |-> <<i, y - 1>>]])

MCU(c) == FoldLeft(LAMBDA blocks, at : RowOfMCU(c, at[1], at[2], blocks), <<>>, RowsOfMCU(c))

\* The virtual arrays hold dummy blocks as well.
StoredMCU(c) ==
  FlattenSeq([n \in DOMAIN RowsOfMCU(c) |->
    LET i == RowsOfMCU(c)[n][1]
        x == c.scan.comps[i]
        row == (c.coef.iMCU_row_num * V(c.par, x)) + c.coef.MCU_vert_offset + RowsOfMCU(c)[n][2]
    IN  [k \in 1 .. c.setup.MCU_width[i] |->
           c.coef.whole_image[x][row][(c.coef.mcu_ctr * c.setup.MCU_width[i]) + k - 1]]])

NextMCU(c) ==
  IF c.coef.mcu_ctr < c.setup.MCUs_per_row - 1 THEN [c EXCEPT !.coef.mcu_ctr = @ + 1]
  ELSE [c EXCEPT !.coef.mcu_ctr = 0, !.coef.MCU_vert_offset = @ + 1]

\* An iMCU row in as many calls as it takes; done tells whether it is complete.
RECURSIVE EncodeMCUs(_)
GoOnUnlessSuspended(c) == IF c.done THEN EncodeMCUs(NextMCU(c)) ELSE c
EncodeMCUs(c) ==
  IF c.coef.MCU_vert_offset = c.coef.MCU_rows_per_iMCU_row
  THEN start_iMCU_row([c EXCEPT !.coef.iMCU_row_num = @ + 1, !.done = TRUE])
  ELSE GoOnUnlessSuspended(encode_mcu(c, IF c.coef.mode = "PASS_THRU" \/ c.par.transcode THEN MCU(c) ELSE StoredMCU(c)))

\* Block k of row r of the iMCU row, of component x, with the dummy blocks.
BlockToStore(c, x, r, k) ==
  LET across == width_in_blocks(c.par, x)
      rows   == IF LastIMCU(c) THEN Rest(height_in_blocks(c.par, x), V(c.par, x)) ELSE V(c.par, x)
      InRow(row, col) == IF col < across THEN forward_DCT(c, x, row, col) ELSE Dummy(forward_DCT(c, x, row, across - 1))
      LastOfMCU == ((k \div H(c.par, x)) * H(c.par, x)) + H(c.par, x) - 1
  IN  IF r < rows THEN InRow(r, k) ELSE Dummy(InRow(rows - 1, LastOfMCU))

StoreIMCU(c) ==
  [c EXCEPT !.coef.whole_image =
     [x \in Components(c.par) |->
        [r \in DOMAIN @[x] |->
           LET row == r - (c.coef.iMCU_row_num * V(c.par, x))
           IN  IF row \in 0 .. V(c.par, x) - 1
               THEN [k \in DOMAIN @[x][r] |-> BlockToStore(c, x, row, k)] ELSE @[x][r]]]]

\* A suspended first pass stores its row again.
compress_data(c) == EncodeMCUs(IF c.coef.mode = "SAVE_AND_PASS" THEN StoreIMCU(c) ELSE c)

(***************************************************************************)
(* The main controller                                                     *)
(***************************************************************************)

start_pass_main(c) == [c EXCEPT !.main.cur_iMCU_row = 0, !.main.rowgroup_ctr = 0, !.main.suspended = FALSE]

\* (mutant) The last row is reported although it has not been compressed.
ReportsLastRow(c) == [c EXCEPT !.main.suspended = TRUE]

\* Until the row is complete its last input row counts as not yet consumed.
PretendNotConsumed(c) ==
  IF c.main.suspended THEN c ELSE [c EXCEPT !.in_row_ctr = @ - 1, !.main.suspended = TRUE]

FinishIMCU(c) ==
  [c EXCEPT !.in_row_ctr = IF c.main.suspended THEN @ + 1 ELSE @,
            !.main.suspended = FALSE, !.main.rowgroup_ctr = 0, !.main.cur_iMCU_row = @ + 1]

RECURSIVE process_data_simple_main(_, _)
AfterIMCU(c, avail) ==
  IF c.done THEN process_data_simple_main(FinishIMCU(c), avail) ELSE PretendNotConsumed(c)
CompressIfFull(c, avail) == IF c.main.rowgroup_ctr = DCTSIZE THEN AfterIMCU(compress_data(c), avail) ELSE c
process_data_simple_main(c, avail) ==
  IF c.main.cur_iMCU_row < total_iMCU_rows(c.par) THEN CompressIfFull(PreProcess(c, avail), avail) ELSE c
=============================================================================
