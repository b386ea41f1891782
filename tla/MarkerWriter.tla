---------------------------- MODULE MarkerWriter ----------------------------
(***************************************************************************)
(* The markers that libjpeg's compressor writes (jcmarker.c), and the      *)
(* tables it has sent already.                                             *)
(*                                                                         *)
(* c is the compression object.  c.quant, c.dc and c.ac are its tables,    *)
(* each with its content and sent_table; c.out is what it has written, one *)
(* record per marker or MCU.  A marker cannot be suspended: the            *)
(* application leaves room for the markers, as jcmarker.c demands.         *)
(***************************************************************************)
EXTENDS CompressParams, SequencesExt

emit(c, marker, value) == [c EXCEPT !.out = Append(@, [m |-> marker, v |-> value])]
emit_marker(c, marker) == emit(c, marker, <<>>)

\* A table is written unless it has been sent.
emit_dqt(c, i) ==
  IF c.quant[i].sent_table THEN c
  ELSE emit([c EXCEPT !.quant[i].sent_table = TRUE], "DQT", [index |-> i, table |-> c.quant[i].content])

emit_dht(c, i, is_ac) ==
  IF is_ac
  THEN IF c.ac[i].sent_table THEN c
       ELSE emit([c EXCEPT !.ac[i].sent_table = TRUE], "DHT", [index |-> i, ac |-> TRUE, table |-> c.ac[i].content])
  ELSE IF c.dc[i].sent_table THEN c
       ELSE emit([c EXCEPT !.dc[i].sent_table = TRUE], "DHT", [index |-> i, ac |-> FALSE, table |-> c.dc[i].content])

\* 16-bit precision: an entry above 255.
precision(content) == IF content.largest > 255 THEN 1 ELSE 0

write_file_header(c) ==
  LET soi  == [emit_marker(c, "SOI") EXCEPT !.last_restart_interval = 0]
      app0 == IF write_JFIF_header(c.par) THEN emit_marker(soi, "JFIF") ELSE soi
  IN  IF write_Adobe_marker(c.par) THEN emit_marker(app0, "Adobe") ELSE app0

\* Baseline files have 8-bit quantizers and the tables 0 and 1.
SOFcode(c) ==
  CASE progressive_mode(c.par) -> "SOF2"
    [] \E x \in Components(c.par) :
         \/ Comps(c.par)[x].dc > 1 \/ Comps(c.par)[x].ac > 1
         \/ precision(c.quant[Comps(c.par)[x].quant].content) = 1 -> "SOF1"
    [] OTHER -> "SOF0"

emit_sof(c) == emit(c, SOFcode(c), [comps |-> Comps(c.par), height |-> c.par.height])

write_frame_header(c) == emit_sof(FoldLeft(LAMBDA k, x : emit_dqt(k, x.quant), c, Comps(c.par)))

\* The Huffman tables of a scan: a progressive one uses DC or AC tables only,
\* and none to refine DC values.
uses_dc(c) == ~ progressive_mode(c.par) \/ (c.scan.Ss = 0 /\ c.scan.Ah = 0)
uses_ac(c) == ~ progressive_mode(c.par) \/ c.scan.Ss # 0

TablesOf(c, k, x) ==
  LET dc == IF uses_dc(c) THEN emit_dht(k, Comps(c.par)[x].dc, FALSE) ELSE k
  IN  IF uses_ac(c) THEN emit_dht(dc, Comps(c.par)[x].ac, TRUE) ELSE dc

emit_dri(c) ==
  IF c.setup.restart_interval = c.last_restart_interval THEN c
  ELSE [emit(c, "DRI", c.setup.restart_interval) EXCEPT !.last_restart_interval = c.setup.restart_interval]

emit_sos(c) ==
  emit(c, "SOS",
       [ comps |-> [x \in DOMAIN c.scan.comps |->
                      [ comp |-> c.scan.comps[x],
                        td |-> IF uses_dc(c) THEN Comps(c.par)[c.scan.comps[x]].dc ELSE 0,
                        ta |-> IF uses_ac(c) THEN Comps(c.par)[c.scan.comps[x]].ac ELSE 0 ]],
         scan |-> c.scan ])

write_scan_header(c) == emit_sos(emit_dri(FoldLeft(LAMBDA k, x : TablesOf(c, k, x), c, c.scan.comps)))

write_file_trailer(c) == emit_marker(c, "EOI")

\* An abbreviated file of all tables that have not been sent.
write_tables_only(c) ==
  LET dqts == emit_dqt(emit_dqt(emit_marker(c, "SOI"), 0), 1)
      zero == emit_dht(emit_dht(dqts, 0, FALSE), 0, TRUE)
  IN  emit_marker(emit_dht(emit_dht(zero, 1, FALSE), 1, TRUE), "EOI")

jpeg_suppress_tables(c, suppress) ==
  [c EXCEPT !.quant = [i \in DOMAIN @ |-> [@[i] EXCEPT !.sent_table = suppress]],
            !.dc = [i \in DOMAIN @ |-> [@[i] EXCEPT !.sent_table = suppress]],
            !.ac = [i \in DOMAIN @ |-> [@[i] EXCEPT !.sent_table = suppress]]]
=============================================================================
