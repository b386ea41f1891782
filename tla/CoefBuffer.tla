----------------------------- MODULE CoefBuffer -----------------------------
(***************************************************************************)
(* The coefficient controller of libjpeg's decompressor (jdcoefct.c).      *)
(*                                                                         *)
(* With a buffer for the whole image its input side stores the blocks of   *)
(* one scan after another while the output side follows; without one, the  *)
(* iMCU row read is the iMCU row put out.  The source gives MCUs and       *)
(* markers, one at a time, and may have none to give.                      *)
(*                                                                         *)
(* d.coef.stored[c][r] counts the scans that the blocks of component c in  *)
(* iMCU row r have been read from.                                         *)
(***************************************************************************)
EXTENDS RowPipeline, SequencesExt

ScanOf(im, k) == im.scans[k.input_scan]

MCUs_per_row(im, k) ==
  LET scan == ScanOf(im, k)
      h == IF Cardinality(scan.comps) > 1 THEN 1 ELSE im.comps[CHOOSE c \in scan.comps : TRUE].h
  IN  CeilDiv(im.width * h, MaxH(im) * DCTSIZE)

last_row_height(g, im, c) ==
  LET n == g.blocks[c] % im.comps[c].v IN IF n = 0 THEN im.comps[c].v ELSE n

\* start_iMCU_row: an interleaved scan has one MCU row in an iMCU row.
MCU_rows_per_iMCU_row(g, im, k) ==
  LET scan == ScanOf(im, k)
      c == CHOOSE x \in scan.comps : TRUE
  IN  CASE Cardinality(scan.comps) > 1      -> 1
        [] k.input_row < g.iMCU_rows - 1    -> im.comps[c].v
        [] OTHER                            -> last_row_height(g, im, c)

start_input_pass(k) ==
  [k EXCEPT !.input_row = 0, !.MCU_ctr = 0, !.MCU_vert_offset = 0, !.phase = "data"]

\* The MCUs of the iMCU row that are still to be read, as many as there are.
Decoded(g, im, p, k) ==
  LET left == (MCUs_per_row(im, k) * (MCU_rows_per_iMCU_row(g, im, k) - k.MCU_vert_offset)) - k.MCU_ctr
  IN  IF p.suspends THEN Least(left, k.ready) ELSE left

\* Either the whole row has been read, or the position is kept for the next call.
RowAfter(g, im, p, k) ==
  LET n == Decoded(g, im, p, k)
      at == (MCUs_per_row(im, k) * k.MCU_vert_offset) + k.MCU_ctr + n
      whole == at = MCUs_per_row(im, k) * MCU_rows_per_iMCU_row(g, im, k)
  IN  [k EXCEPT !.ready = IF p.suspends THEN @ - n ELSE @,
                !.MCU_vert_offset = IF whole THEN 0 ELSE at \div MCUs_per_row(im, k),
                !.MCU_ctr = IF whole THEN 0 ELSE at % MCUs_per_row(im, k),
                !.input_row = IF whole THEN @ + 1 ELSE @]

\* finish_input_pass after the last row: markers are expected next.
EndOfScan(g, k) == IF k.input_row = g.iMCU_rows THEN [k EXCEPT !.phase = "markers"] ELSE k

Stored(im, k, r) ==
  [k EXCEPT !.stored = [c \in DOMAIN @ |-> IF c \in ScanOf(im, k).comps
                                           THEN [@[c] EXCEPT ![r] = @ + 1] ELSE @[c]]]

\* k is the controller before, after the one behind the row, k.code what the
\* call returns.
StoreRow(g, im, k, after) ==
  IF after.input_row = k.input_row THEN [after EXCEPT !.code = "SUSPENDED"]
  ELSE [EndOfScan(g, Stored(im, after, k.input_row)) EXCEPT !.code = "ROW_COMPLETED"]

consume_data(g, im, p, k) == StoreRow(g, im, k, RowAfter(g, im, p, k))

\* consume_markers of jdinput.c behind the first scan; the scan wanted is limited
\* to those of the file.
consume_markers(im, p, k) ==
  LET read == [k EXCEPT !.ready = IF p.suspends THEN @ - 1 ELSE @]
  IN  CASE k.eoi                        -> [k EXCEPT !.code = "REACHED_EOI"]
        [] p.suspends /\ k.ready = 0    -> [k EXCEPT !.code = "SUSPENDED"]
        [] k.input_scan < Len(im.scans) ->
             start_input_pass([read EXCEPT !.input_scan = @ + 1, !.code = "REACHED_SOS"])
        [] OTHER                        ->
             [read EXCEPT !.eoi = TRUE, !.output_scan = Least(@, k.input_scan), !.code = "REACHED_EOI"]

\* Without a buffer, dummy_consume_data has nothing to store the rows in.
consume_input(g, im, p, k) ==
  CASE k.phase = "markers" -> consume_markers(im, p, k)
    [] g.full_coefs        -> consume_data(g, im, p, k)
    [] OTHER               -> [k EXCEPT !.code = "SUSPENDED"]

\* Blocks of the image in iMCU row r of component c; not last_row_height, which
\* belongs to the input side.
BlockRows(g, im, c, r) ==
  IF r < g.iMCU_rows - 1 THEN im.comps[c].v ELSE last_row_height(g, im, c)

\* The block rows above and below are used to smooth one, its own at the edges.
Around(g, im, k, c, b) ==
  Min({k.stored[c][x \div im.comps[c].v] : x \in (b - 1 .. b + 1) \cap (0 .. g.blocks[c] - 1)})

\* The inverse DCT of iMCU row r, into the rows that buf points to.
InverseDCT(g, im, d, buf, r) ==
  [d EXCEPT !.main.buffer =
    [c \in Comps(g) |->
       LET n == BlockRows(g, im, c, r) * g.size[c]
           block(i) == (r * im.comps[c].v) + (i \div g.size[c])
           sample(i) == [row    |-> (r * iMCUheight(g, c)) + i,
                         scans  |-> d.coef.stored[c][r],
                         around |-> IF d.coef.smooth THEN Around(g, im, d.coef, c, block(i))
                                    ELSE d.coef.stored[c][r]]
       IN  IF g.method[c] = "noop" THEN @[c]
           ELSE [b \in DOMAIN @[c] |->
                   IF \E i \in 0 .. n - 1 : buf[c][i] = b
                   THEN sample(CHOOSE i \in 0 .. n - 1 : buf[c][i] = b) ELSE @[c][b]]]]

\* d.coef is behind the row r by now.
PutOut(g, im, d, buf, r) ==
  IF d.coef.code = "SUSPENDED" THEN d
  ELSE [InverseDCT(g, im, d, buf, r) EXCEPT !.coef.output_row = @ + 1]

decompress_onepass(g, im, p, d, buf) ==
  PutOut(g, im, [d EXCEPT !.coef = consume_data(g, im, p, @)], buf, d.coef.input_row)

\* (mutant) The row below is not waited for while the DC values are read.
MustReadCurrentRowOnly(im, k) ==
  IF k.smooth
  THEN /\ ~ k.eoi
       /\ \/ k.input_scan < k.output_scan
          \/ k.input_scan = k.output_scan /\ k.input_row <= k.output_row
  ELSE \/ k.input_scan < k.output_scan
       \/ k.input_scan = k.output_scan /\ k.input_row <= k.output_row

\* (mutant) The output may catch up with the input.
MustReadToRow(im, k) ==
  \/ k.input_scan < k.output_scan
  \/ k.input_scan = k.output_scan /\ k.input_row < k.output_row

\* "Force some input to be done if we are getting ahead of the input."
MustRead(im, k) ==
  IF k.smooth
  THEN /\ ~ k.eoi
       /\ \/ k.input_scan < k.output_scan
          \/ /\ k.input_scan = k.output_scan
             /\ k.input_row <= k.output_row + (IF ScanOf(im, k).dc THEN 1 ELSE 0)
  ELSE \/ k.input_scan < k.output_scan
       \/ k.input_scan = k.output_scan /\ k.input_row <= k.output_row

RECURSIVE ReadAhead(_, _, _, _)
ReadOn(g, im, p, k) == IF k.code = "SUSPENDED" THEN k ELSE ReadAhead(g, im, p, k)
ReadAhead(g, im, p, k) ==
  IF MustRead(im, k) THEN ReadOn(g, im, p, consume_input(g, im, p, k))
  ELSE [k EXCEPT !.code = "ROW_COMPLETED"]

decompress_data(g, im, p, d, buf) ==
  IF g.full_coefs
  THEN PutOut(g, im, [d EXCEPT !.coef = ReadAhead(g, im, p, @)], buf, d.coef.output_row)
  ELSE decompress_onepass(g, im, p, d, buf)

\* The scans of component c, of the first n, whose input has begun.
ScansBegun(im, c, n) == {i \in 1 .. n : c \in im.scans[i].comps}

\* Smoothing is for progressive files: the DC values of all components must be
\* there, and some of the AC values it estimates still missing.
smoothing_ok(g, im, k) ==
  /\ im.progressive /\ ~ im.zero_quantizer
  /\ \A c \in Comps(g) : \E i \in ScansBegun(im, c, k.input_scan) : im.scans[i].dc
  /\ \E c \in Comps(g) : \E i \in ScansBegun(im, c, Len(im.scans)) : i > k.input_scan /\ ~ im.scans[i].dc

start_output_pass(g, im, p, k) ==
  [k EXCEPT !.output_row = 0,
            !.smooth = g.full_coefs /\ p.smoothing /\ smoothing_ok(g, im, k)]

\* The scans that the first n of a file give to component c.
ScansOf(im, c, n) == Cardinality(ScansBegun(im, c, n))
=============================================================================
