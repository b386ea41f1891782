---------------------------- MODULE HuffDecoder ----------------------------
(***************************************************************************)
(* The entropy decoders of libjpeg: bits out of bytes that arrive piece by *)
(* piece (jdhuff.h, jdhuff.c), sequential MCUs (jdhuff.c) and progressive  *)
(* ones (jdphuff.c).                                                       *)
(*                                                                         *)
(* A decoder d is a record: scan, as in HuffEncoder; stream, the bytes of  *)
(* the scan and the marker behind it, of which avail have arrived and pos  *)
(* are read; get, the bits in the buffer; unread_marker;                   *)
(* insufficient_data; saved [dc, EOBRUN]; restarts_to_go,                  *)
(* next_restart_num; coef_bits and warnings of the progression; dc_needed  *)
(* and ac_needed, the components of which these coefficients are wanted.   *)
(* A working state w is the part that becomes d when an MCU is complete:   *)
(*   pos, get, dc, EOBRUN   as in d                                        *)
(*   ok     FALSE once the source had no byte: the MCU is suspended        *)
(*   val    the last symbol or bits that were read                         *)
(*   data   the blocks of the MCU, changed in place                        *)
(*   newnz  the places that became nonzero in this call                    *)
(***************************************************************************)
EXTENDS HuffTables

CONSTANT MIN_GET_BITS   \* what the bit buffer is filled to: 25, or 15 with slow shifts

ASSUME BitBufferAssumption == MIN_GET_BITS \in 15 .. 25

LastPlace == 63
AtPlace(k) == Min({k, LastPlace})     \* jpeg_natural_order has 16 more entries, all 63

NewDecoder(scan, interval, stream, dtbls, coef_bits, dc_needed, ac_needed) ==
  [scan |-> scan, interval |-> interval, stream |-> stream, avail |-> 0, pos |-> 0, get |-> <<>>,
   unread_marker |-> 0, insufficient_data |-> FALSE,
   saved |-> [dc |-> [c \in Range(scan.member) |-> 0], EOBRUN |-> 0],
   restarts_to_go |-> interval, next_restart_num |-> 0, dtbls |-> dtbls,
   coef_bits |-> coef_bits, warnings |-> {}, dc_needed |-> dc_needed, ac_needed |-> ac_needed]

Load(d, data) ==
  [stream |-> d.stream, avail |-> d.avail, pos |-> d.pos, get |-> d.get, marker |-> d.unread_marker,
   insufficient |-> d.insufficient_data, dc |-> d.saved.dc, EOBRUN |-> d.saved.EOBRUN,
   ok |-> TRUE, val |-> 0, data |-> data, newnz |-> {}]

(***************************************************************************)
(* The bit buffer (jpeg_fill_bit_buffer)                                   *)
(***************************************************************************)

Suspended(w) == [w EXCEPT !.ok = FALSE]
ByteBits(b) == BitsOf(b, 8)

\* The first byte after position i that is no fill byte; 0 if none has arrived.
RECURSIVE AfterFill(_, _)
AfterFill(w, i) == IF i > w.avail THEN 0 ELSE IF w.stream[i] # 255 THEN i ELSE AfterFill(w, i + 1)

AfterFF(w, i) ==
  IF i = 0 THEN Suspended(w)
  ELSE IF w.stream[i] = 0 THEN [w EXCEPT !.pos = i, !.get = @ \o ByteBits(255)]
  ELSE [w EXCEPT !.pos = i, !.marker = w.stream[i]]

ReadByte(w) ==
  IF w.pos >= w.avail THEN Suspended(w)
  ELSE IF w.stream[w.pos + 1] = 255 THEN AfterFF(w, AfterFill(w, w.pos + 2))
  ELSE [w EXCEPT !.pos = @ + 1, !.get = @ \o ByteBits(w.stream[w.pos + 1])]

RECURSIVE ReadBytes(_)
ReadBytes(w) == IF w.ok /\ w.marker = 0 /\ Len(w.get) < MIN_GET_BITS THEN ReadBytes(ReadByte(w)) ELSE w

\* Behind a marker there are zeros.
WithZeros(w, nbits) ==
  IF w.ok /\ nbits > Len(w.get)
  THEN [w EXCEPT !.insufficient = TRUE, !.get = @ \o [i \in 1 .. MIN_GET_BITS - Len(@) |-> 0]]
  ELSE w
jpeg_fill_bit_buffer(w, nbits) == WithZeros(ReadBytes(w), nbits)

CHECK_BIT_BUFFER(w, nbits) == IF w.ok /\ Len(w.get) < nbits THEN jpeg_fill_bit_buffer(w, nbits) ELSE w
PEEK_BITS(w, nbits) == Number(SubSeq(w.get, 1, nbits))
DROP_BITS(w, nbits) == [w EXCEPT !.get = SubSeq(@, nbits + 1, Len(@))]
Taken(w, nbits) == IF w.ok THEN [DROP_BITS(w, nbits) EXCEPT !.val = PEEK_BITS(w, nbits)] ELSE w
GET_BITS(w, nbits) == Taken(CHECK_BIT_BUFFER(w, nbits), nbits)

(***************************************************************************)
(* Symbols (HUFF_DECODE, jpeg_huff_decode)                                 *)
(***************************************************************************)

\* One bit at a time, until the code is one of length l, or too long for any.
RECURSIVE Longer(_, _, _, _)
Longer(w, t, l, code) ==
  IF ~ w.ok THEN w
  ELSE IF l > MaxLength THEN [w EXCEPT !.val = 0]
  ELSE IF code <= t.maxcode[l] THEN [w EXCEPT !.val = t.huffval[code + t.valoffset[l]]]
  ELSE LET v == GET_BITS(w, 1) IN Longer(v, t, l + 1, (2 * code) + v.val)
FromCode(w, t, l) == Longer(w, t, l, w.val)
jpeg_huff_decode(w, t, min_bits) == FromCode(GET_BITS(w, min_bits), t, min_bits)

Looked(w, t, look) ==
  IF look.nbits > 0 THEN [DROP_BITS(w, look.nbits) EXCEPT !.val = look.sym]
  ELSE jpeg_huff_decode(w, t, HUFF_LOOKAHEAD + 1)
LookUp(w, t) ==
  IF ~ w.ok THEN w
  ELSE IF Len(w.get) < HUFF_LOOKAHEAD THEN jpeg_huff_decode(w, t, 1)
  ELSE Looked(w, t, t.look[PEEK_BITS(w, HUFF_LOOKAHEAD)])
HUFF_DECODE(w, t) ==
  LookUp(IF w.ok /\ Len(w.get) < HUFF_LOOKAHEAD THEN jpeg_fill_bit_buffer(w, 0) ELSE w, t)

HUFF_EXTEND(x, s) == IF s > 0 /\ x < 2 ^ (s - 1) THEN x + 1 - (2 ^ s) ELSE x

\* s bits and what they stand for; nothing if there are none.
Extended(w, s) == IF w.ok THEN [w EXCEPT !.val = HUFF_EXTEND(@, s)] ELSE w
Receive(w, s) == IF s = 0 THEN [w EXCEPT !.val = 0] ELSE Extended(GET_BITS(w, s), s)

(***************************************************************************)
(* Restarts                                                                *)
(***************************************************************************)

\* The next marker in what has arrived (next_marker, jdmarker.c).
MarkerPlaces(d) == {i \in d.pos + 2 .. d.avail : d.stream[i - 1] = 255 /\ d.stream[i] \notin {0, 255}}

\* read_restart_marker, for markers that are in their places.
NextMarker(d) ==
  IF d.unread_marker # 0 \/ MarkerPlaces(d) = {} THEN d
  ELSE [d EXCEPT !.pos = Min(MarkerPlaces(d)), !.unread_marker = d.stream[Min(MarkerPlaces(d))]]
EOI == 217
Restarted(d, marker) ==
  [d EXCEPT !.unread_marker = marker, !.next_restart_num = (@ + 1) % 8,
            !.saved = [dc |-> [c \in DOMAIN @.dc |-> 0], EOBRUN |-> 0],
            !.restarts_to_go = d.interval, !.insufficient_data = @ /\ marker # 0]
\* An EOI is left where it is (jpeg_resync_to_restart).
TakeRestart(d) ==
  IF d.unread_marker = 208 + d.next_restart_num THEN Restarted(d, 0)
  ELSE IF d.unread_marker = EOI THEN Restarted(d, EOI)
  ELSE d
process_restart(d) == TakeRestart(NextMarker([d EXCEPT !.get = <<>>]))

RestartNeeded(d) == d.interval > 0 /\ d.restarts_to_go = 0
AfterRestart(d) == IF RestartNeeded(d) THEN process_restart(d) ELSE d

(***************************************************************************)
(* Sequential MCUs (decode_mcu)                                            *)
(***************************************************************************)

PutDC(w, d, c, b) ==
  IF w.ok /\ c \in d.dc_needed
  THEN [w EXCEPT !.dc[c] = @ + w.val, !.data[b][0] = w.dc[c] + w.val] ELSE w
DecodeDifference(w) == Receive(w, w.val)
DecodeDC(w, d, c, b) == PutDC(DecodeDifference(HUFF_DECODE(w, d.dtbls[DCTable(c)])), d, c, b)

PutAC(w, d, k, c, b) ==
  IF w.ok /\ c \in d.ac_needed THEN [w EXCEPT !.data[b][AtPlace(k)] = w.val] ELSE w

RECURSIVE DecodeACs(_, _, _, _, _), ACSymbol(_, _, _, _, _)
DecodeACs(w, d, k, c, b) ==
  IF ~ w.ok \/ k > LastPlace THEN w ELSE ACSymbol(HUFF_DECODE(w, d.dtbls[ACTable(c)]), d, k, c, b)
ACSymbol(w, d, k, c, b) ==
  LET r == w.val \div 16
      s == w.val % 16
  IN  IF ~ w.ok \/ (s = 0 /\ r # 15) THEN w
      ELSE IF s = 0 THEN DecodeACs(w, d, k + 16, c, b)
      ELSE DecodeACs(PutAC(Receive(w, s), d, k + r, c, b), d, k + r + 1, c, b)

DecodeBlock(w, d, b) == DecodeACs(DecodeDC(w, d, d.scan.member[b], b), d, 1, d.scan.member[b], b)
decode_mcu(w, d) == FoldLeft(LAMBDA u, b : DecodeBlock(u, d, b), w, [b \in DOMAIN d.scan.member |-> b])

(***************************************************************************)
(* Progressive MCUs                                                        *)
(***************************************************************************)

PutScaledDC(w, d, c, b) ==
  IF w.ok THEN [w EXCEPT !.dc[c] = @ + w.val, !.data[b][0] = (w.dc[c] + w.val) * (2 ^ d.scan.Al)] ELSE w
DecodeFirstDC(w, d, c, b) == PutScaledDC(DecodeDifference(HUFF_DECODE(w, d.dtbls[DCTable(c)])), d, c, b)
decode_mcu_DC_first(w, d) ==
  FoldLeft(LAMBDA u, b : DecodeFirstDC(u, d, d.scan.member[b], b), w, [b \in DOMAIN d.scan.member |-> b])

BitSet(x, Al) == (x \div (2 ^ Al)) % 2 = 1
SetBit(w, d, b) ==
  IF w.ok /\ w.val = 1 /\ ~ BitSet(w.data[b][0], d.scan.Al)
  THEN [w EXCEPT !.data[b][0] = @ + (2 ^ d.scan.Al)] ELSE w
decode_mcu_DC_refine(w, d) ==
  FoldLeft(LAMBDA u, b : SetBit(GET_BITS(u, 1), d, b), w, [b \in DOMAIN d.scan.member |-> b])

ACTableOf(d) == d.dtbls[ACTable(d.scan.member[1])]
PutScaledAC(w, d, k) == IF w.ok THEN [w EXCEPT !.data[1][AtPlace(k)] = w.val * (2 ^ d.scan.Al)] ELSE w

\* An end-of-band code of 2^r blocks and r more bits.
EobRun(w, r) == IF w.ok THEN [w EXCEPT !.EOBRUN = (2 ^ r) + (IF r = 0 THEN 0 ELSE w.val)] ELSE w
EobSymbol(w, r) == EobRun(IF r = 0 THEN w ELSE GET_BITS(w, r), r)
OneBandDone(w) == IF w.ok THEN [w EXCEPT !.EOBRUN = @ - 1] ELSE w

RECURSIVE FirstACs(_, _, _), FirstACSymbol(_, _, _)
FirstACs(w, d, k) == IF ~ w.ok \/ k > d.scan.Se THEN w ELSE FirstACSymbol(HUFF_DECODE(w, ACTableOf(d)), d, k)
FirstACSymbol(w, d, k) ==
  LET r == w.val \div 16
      s == w.val % 16
  IN  IF ~ w.ok THEN w
      ELSE IF s > 0 THEN FirstACs(PutScaledAC(Receive(w, s), d, k + r), d, k + r + 1)
      ELSE IF r = 15 THEN FirstACs(w, d, k + 16)
      ELSE OneBandDone(EobSymbol(w, r))
decode_mcu_AC_first(w, d) == IF w.EOBRUN > 0 THEN OneBandDone(w) ELSE FirstACs(w, d, d.scan.Ss)

\* A correction bit of 1 enlarges the coefficient, unless an earlier call has done it.
Enlarge(x, Al) == IF BitSet(x, Al) THEN x ELSE IF x >= 0 THEN x + (2 ^ Al) ELSE x - (2 ^ Al)
CorrectWith(w, d, k) == IF w.ok /\ w.val = 1 THEN [w EXCEPT !.data[1][k] = Enlarge(@, d.scan.Al)] ELSE w
CorrectCoef(w, d, k) == CorrectWith(GET_BITS(w, 1), d, k)

\* Over coefficients that were nonzero and r that were not; [w, k] with the place reached.
RECURSIVE Advance(_, _, _, _)
Advance(w, d, k, r) ==
  IF ~ w.ok \/ k > d.scan.Se THEN [w |-> w, k |-> k]
  ELSE IF w.data[1][k] # 0 THEN Advance(CorrectCoef(w, d, k), d, k + 1, r)
  ELSE IF r = 0 THEN [w |-> w, k |-> k]
  ELSE Advance(w, d, k + 1, r - 1)

RECURSIVE RestOfBand(_, _, _)
RestOfBand(w, d, k) ==
  IF ~ w.ok \/ k > d.scan.Se THEN OneBandDone(w)
  ELSE RestOfBand(IF w.data[1][k] = 0 THEN w ELSE CorrectCoef(w, d, k), d, k + 1)

NewCoef(w, d, k, positive) ==
  IF w.ok THEN [w EXCEPT !.data[1][AtPlace(k)] = IF positive = 1 THEN 2 ^ d.scan.Al ELSE -(2 ^ d.scan.Al),
                         !.newnz = @ \union {AtPlace(k)}]
  ELSE w

RECURSIVE RefineACs(_, _, _), RefineSymbol(_, _, _), AfterNew(_, _, _), AfterZRL(_, _)
RefineACs(w, d, k) == IF ~ w.ok \/ k > d.scan.Se THEN w ELSE RefineSymbol(HUFF_DECODE(w, ACTableOf(d)), d, k)
AfterNew(a, d, positive) == RefineACs(NewCoef(a.w, d, a.k, positive), d, a.k + 1)
AfterZRL(a, d) == RefineACs(a.w, d, a.k + 1)
SignThen(w, d, k, r) == AfterNew(Advance(w, d, k, r), d, w.val)
RefineSymbol(w, d, k) ==
  LET r == w.val \div 16
      s == w.val % 16
  IN  IF ~ w.ok THEN w
      ELSE IF s > 0 THEN SignThen(GET_BITS(w, 1), d, k, r)
      ELSE IF r = 15 THEN AfterZRL(Advance(w, d, k, r), d)
      ELSE RestOfBand(EobSymbol(w, r), d, k)
decode_mcu_AC_refine(w, d) ==
  IF w.EOBRUN > 0 THEN RestOfBand(w, d, d.scan.Ss) ELSE RefineACs(w, d, d.scan.Ss)

(***************************************************************************)
(* One call: the MCU is complete, or nothing but its data has changed      *)
(***************************************************************************)

\* (mutant) what became nonzero stays so
KeepNew(w) == w.data
\* Only AC refinement has newnz.
Undo(w) == [b \in DOMAIN w.data |-> [k \in DOMAIN w.data[b] |-> IF k \in w.newnz THEN 0 ELSE w.data[b][k]]]

MCUDone(d, data) == [d |-> [d EXCEPT !.restarts_to_go = @ - 1], data |-> data, done |-> TRUE]
MCUSuspended(d, data) == [d |-> d, data |-> data, done |-> FALSE]
Saved(d, w) ==
  [d EXCEPT !.pos = w.pos, !.get = w.get, !.saved = [dc |-> w.dc, EOBRUN |-> w.EOBRUN],
            !.unread_marker = w.marker, !.insufficient_data = w.insufficient]
\* A marker is remembered even then, but no MCU that has met one is suspended.
Permanent(d, w) == [d EXCEPT !.unread_marker = w.marker, !.insufficient_data = w.insufficient]
Result(d, w) == IF w.ok THEN MCUDone(Saved(d, w), w.data) ELSE MCUSuspended(Permanent(d, w), Undo(w))

Routine(w, d, progressive) ==
  CASE ~ progressive                    -> decode_mcu(w, d)
    [] progressive /\ d.scan.Ss = 0 /\ d.scan.Ah = 0 -> decode_mcu_DC_first(w, d)
    [] progressive /\ d.scan.Ss = 0 /\ d.scan.Ah > 0 -> decode_mcu_DC_refine(w, d)
    [] progressive /\ d.scan.Ss > 0 /\ d.scan.Ah = 0 -> decode_mcu_AC_first(w, d)
    [] OTHER                            -> decode_mcu_AC_refine(w, d)

\* DC refinement reads on behind the data: zeros change nothing there.
SkipsData(d, progressive) == d.insufficient_data /\ ~ (progressive /\ d.scan.Ss = 0 /\ d.scan.Ah > 0)
DecodeNext(d, data, progressive) ==
  IF RestartNeeded(d) THEN MCUSuspended(d, data)
  ELSE IF SkipsData(d, progressive) THEN MCUDone(d, data)
  ELSE Result(d, Routine(Load(d, data), d, progressive))
DecodeMCU(d, data, progressive) == DecodeNext(AfterRestart(d), data, progressive)

(***************************************************************************)
(* The start of a scan (start_pass_huff_decoder, start_pass_phuff_decoder) *)
(***************************************************************************)

\* JERR_BAD_PROGRESSION
BadProgression(scan) ==
  \/ scan.Ss = 0 /\ scan.Se # 0
  \/ scan.Ss > 0 /\ (scan.Ss > scan.Se \/ scan.Se > LastPlace \/ Len(scan.member) # 1)
  \/ scan.Ah # 0 /\ scan.Al # scan.Ah - 1
  \/ scan.Al > 13

\* Coefficients that are not sent in the order they should be (JWRN_BOGUS_PROGRESSION).
BogusProgression(coef_bits, scan) ==
  \E c \in Range(scan.member) :
    \/ scan.Ss > 0 /\ coef_bits[c][0] < 0
    \/ \E k \in scan.Ss .. scan.Se : scan.Ah # (IF coef_bits[c][k] < 0 THEN 0 ELSE coef_bits[c][k])
CoefBits(coef_bits, scan) ==
  [c \in DOMAIN coef_bits |->
     [k \in DOMAIN coef_bits[c] |->
        IF c \in Range(scan.member) /\ k \in scan.Ss .. scan.Se THEN scan.Al ELSE coef_bits[c][k]]]

=============================================================================
