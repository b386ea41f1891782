---------------------------- MODULE HuffEncoder ----------------------------
(***************************************************************************)
(* The entropy encoders of libjpeg: sequential (jchuff.c) and progressive  *)
(* (jcphuff.c).  Both turn the blocks of an MCU into tokens, Huffman       *)
(* symbols and plain bits, which are either counted or put out as bytes.   *)
(*                                                                         *)
(* A block is a function on the 64 places of its coefficients in zigzag    *)
(* order.  An encoder e is a record:                                       *)
(*   scan     what is coded: [member, Ss, Se, Ah, Al], member being        *)
(*            MCU_membership, the component of each block of an MCU        *)
(*   saved    [dc, put]: the last DC value of each component and the bits  *)
(*            that do not fill a byte                                      *)
(*   EOBRUN, bit_buffer     end-of-band codes and correction bits pending  *)
(*   restarts_to_go, next_restart_num                                      *)
(*   bytes    what this scan has put out                                   *)
(*   counts   how often each symbol was used, by table                     *)
(***************************************************************************)
EXTENDS HuffTables

CONSTANTS MAX_CORR_BITS,   \* size of the buffer for correction bits, 1000 in jcphuff.c
          MAX_EOBRUN       \* end-of-band codes that may be pending, 0x7FFF in jcphuff.c

ASSUME EncoderAssumption == MAX_CORR_BITS \in Nat /\ MAX_CORR_BITS >= 64 /\ MAX_EOBRUN \in 1 .. 32767

DCTSIZE2 == 64
MAX_COEF_BITS == 10

\* A token: a Huffman symbol of a table, or bits.
Sym(table, symbol) == [kind |-> "symbol", table |-> table, value |-> symbol, size |-> 0]
Plain(value, size) == [kind |-> "bits", table |-> 0, value |-> value % (2 ^ size), size |-> size]
Restart(num) == [kind |-> "restart", table |-> 0, value |-> num, size |-> 0]

Magnitude(x) == IF x < 0 THEN -x ELSE x
NumBits(x) == Min({n \in 0 .. 20 : Magnitude(x) < 2 ^ n})
\* The value itself if positive, the complement of its magnitude if negative.
Amplitude(x) == IF x < 0 THEN x - 1 ELSE x
WithBits(x) == IF x = 0 THEN <<>> ELSE <<Plain(Amplitude(x), NumBits(x))>>
ZRLs(table, r) == [i \in 1 .. r \div 16 |-> Sym(table, 240)]

(***************************************************************************)
(* Sequential: one block, coded and counted                                *)
(***************************************************************************)

\* The places of the coefficients that are not zero, after the DC value, in order.
NonZero(block, first, last) == SelectSeq([i \in 1 .. last - first + 1 |-> first + i - 1], LAMBDA k : block[k] # 0)

Coefficient(table, block, from, k) ==
  ZRLs(table, k - from) \o <<Sym(table, (16 * ((k - from) % 16)) + NumBits(block[k]))>> \o WithBits(block[k])

ACTokens(table, block, places) ==
  LET From(n) == IF n = 1 THEN 1 ELSE places[n - 1] + 1
  IN  FlattenSeq([n \in DOMAIN places |-> Coefficient(table, block, From(n), places[n])])
        \o (IF From(Len(places) + 1) < DCTSIZE2 THEN <<Sym(table, 0)>> ELSE <<>>)

encode_one_block(block, last_dc_val, dctbl, actbl) ==
  <<Sym(dctbl, NumBits(block[0] - last_dc_val))>> \o WithBits(block[0] - last_dc_val)
    \o ACTokens(actbl, block, NonZero(block, 1, DCTSIZE2 - 1))

ACCounted(actbl, block, places) ==
  LET From(n) == IF n = 1 THEN 1 ELSE places[n - 1] + 1
      Symbols(n) == ZRLs(actbl, places[n] - From(n))
                   \o <<Sym(actbl, (16 * ((places[n] - From(n)) % 16)) + NumBits(block[places[n]]))>>
  IN  FlattenSeq([n \in DOMAIN places |-> Symbols(n)])
        \o (IF From(Len(places) + 1) < DCTSIZE2 THEN <<Sym(actbl, 0)>> ELSE <<>>)
htest_one_block(block, last_dc_val, dctbl, actbl) ==
  <<Sym(dctbl, NumBits(block[0] - last_dc_val))>> \o ACCounted(actbl, block, NonZero(block, 1, DCTSIZE2 - 1))

\* JERR_BAD_DCT_COEF
BadCoefficient(block, last_dc_val) ==
  \/ NumBits(block[0] - last_dc_val) > MAX_COEF_BITS + 1
  \/ \E k \in 1 .. DCTSIZE2 - 1 : NumBits(block[k]) > MAX_COEF_BITS

(***************************************************************************)
(* Bytes                                                                   *)
(***************************************************************************)

OfByte(put) == Number(SubSeq(put, 1, 8))
Stuffed(b) == IF b = 255 THEN <<255, 0>> ELSE <<b>>

RST(num) == <<255, 208 + num>>
Ones == [i \in 1 .. 7 |-> 1]
\* The bits that do not fill a byte go out with ones behind them.
flush_bits(o) == [put |-> <<>>, bytes |-> o.bytes \o IF o.put = <<>> THEN <<>> ELSE Stuffed(OfByte(o.put \o Ones))]

EmitByte(o) == [put |-> SubSeq(o.put, 9, Len(o.put)), bytes |-> o.bytes \o Stuffed(OfByte(o.put))]
EmitMarker(o, num) == [o EXCEPT !.bytes = @ \o RST(num)]
Emit(o, token, codes) ==
  CASE token.kind = "restart" -> EmitMarker(flush_bits(o), token.value)
    [] token.kind = "bits"    -> [o EXCEPT !.put = @ \o BitsOf(token.value, token.size)]
    [] OTHER                  -> [o EXCEPT !.put = @ \o codes[token.table][token.value]]

\* The tokens from the i-th on.
RECURSIVE PutOutFrom(_, _, _, _)
PutOutFrom(o, tokens, codes, i) ==
  IF Len(o.put) >= 8 THEN PutOutFrom(EmitByte(o), tokens, codes, i)
  ELSE IF i > Len(tokens) THEN o
  ELSE PutOutFrom(Emit(o, tokens[i], codes), tokens, codes, i + 1)
PutOut(o, tokens, codes) == PutOutFrom(o, tokens, codes, 1)

\* JERR_HUFF_MISSING_CODE
MissingCode(tokens, codes) ==
  \E i \in DOMAIN tokens : tokens[i].kind = "symbol" /\ tokens[i].value \notin DOMAIN codes[tokens[i].table]

\* How often each symbol of each table was used, with the tokens.
Uses(tokens, t, x) == {i \in DOMAIN tokens : tokens[i].kind = "symbol" /\ tokens[i].table = t /\ tokens[i].value = x}
Used(tokens, t) == {tokens[i].value : i \in {j \in DOMAIN tokens : tokens[j].kind = "symbol" /\ tokens[j].table = t}}
CountTable(count, tokens, t) ==
  [x \in DOMAIN count \union Used(tokens, t) |->
     (IF x \in DOMAIN count THEN count[x] ELSE 0) + Cardinality(Uses(tokens, t, x))]
Count(counts, tokens) == [t \in Tables |-> CountTable(counts[t], tokens, t)]

(***************************************************************************)
(* Encoders                                                                *)
(***************************************************************************)

NewEncoder(scan, interval, gather) ==
  [scan |-> scan, interval |-> interval, gather |-> gather,
   saved |-> [dc |-> [c \in Range(scan.member) |-> 0], put |-> <<>>],
   EOBRUN |-> 0, bit_buffer |-> <<>>, restarts_to_go |-> interval, next_restart_num |-> 0,
   tokens |-> <<>>, bytes |-> <<>>, counts |-> [t \in Tables |-> <<>>], overrun |-> FALSE, error |-> FALSE]

RestartDue(e) == e.interval > 0 /\ e.restarts_to_go = 0
CountMCU(e) ==
  IF e.interval = 0 THEN e
  ELSE IF e.restarts_to_go > 0 THEN [e EXCEPT !.restarts_to_go = @ - 1]
  ELSE [e EXCEPT !.restarts_to_go = e.interval - 1, !.next_restart_num = (@ + 1) % 8]

ResetDC(e) == [e EXCEPT !.saved.dc = [c \in DOMAIN @ |-> 0]]
Add(e, tokens) == [e EXCEPT !.tokens = @ \o tokens]

(***************************************************************************)
(* Sequential MCUs (encode_mcu_huff, encode_mcu_gather)                    *)
(***************************************************************************)

NextBlock(e, c, block) ==
  [e EXCEPT !.tokens = @ \o IF e.gather THEN htest_one_block(block, e.saved.dc[c], DCTable(c), ACTable(c))
                            ELSE encode_one_block(block, e.saved.dc[c], DCTable(c), ACTable(c)),
            !.error = @ \/ BadCoefficient(block, e.saved.dc[c]),
            !.saved.dc[c] = block[0]]
Blocks(e, data) == FoldLeft(LAMBDA u, b : NextBlock(u, e.scan.member[b], data[b]), e, [b \in DOMAIN data |-> b])

emit_restart(e) == ResetDC(Add(e, <<Restart(e.next_restart_num)>>))
RestartFirst(e) == IF RestartDue(e) THEN emit_restart(e) ELSE e

\* What an MCU adds is kept only if the destination takes all of it, that is if
\* its buffer is not full afterwards; otherwise the MCU is coded again.
Written(e, f, o, free) ==
  IF Len(o.bytes) >= free THEN e
  ELSE CountMCU([f EXCEPT !.bytes = @ \o o.bytes, !.saved.put = o.put, !.tokens = <<>>])
Counted(e) == CountMCU([e EXCEPT !.counts = Count(@, e.tokens), !.tokens = <<>>])
Exits(e) == [e EXCEPT !.error = TRUE]

WriteTokens(e, f, codes, free) ==
  IF f.error \/ MissingCode(f.tokens, codes) THEN Exits(e)
  ELSE Written(e, f, PutOut([put |-> e.saved.put, bytes |-> <<>>], f.tokens, codes), free)

encode_mcu_huff(e, data, codes, free) == WriteTokens(e, Blocks(RestartFirst(e), data), codes, free)
encode_mcu_gather(e, data) == Counted(Blocks(RestartFirst(e), data))

(***************************************************************************)
(* Progressive MCUs                                                        *)
(***************************************************************************)

ACOf(e) == ACTable(e.scan.member[1])
Buffered(bits) == [i \in DOMAIN bits |-> Plain(bits[i], 1)]

PutEobrun(e) ==
  LET nbits == NumBits(e.EOBRUN) - 1
  IN  [Add(e, <<Sym(ACOf(e), 16 * nbits)>> \o (IF nbits > 0 THEN <<Plain(e.EOBRUN, nbits)>> ELSE <<>>)
                \o Buffered(e.bit_buffer))
         EXCEPT !.EOBRUN = 0, !.bit_buffer = <<>>]
emit_eobrun(e) == IF e.EOBRUN > 0 THEN PutEobrun(e) ELSE e

RestartProgressive(e) == [emit_restart(emit_eobrun(e)) EXCEPT !.EOBRUN = 0, !.bit_buffer = <<>>]
RestartProgressiveFirst(e) == IF RestartDue(e) THEN RestartProgressive(e) ELSE e

\* The point transform: a shift for DC, a division rounding towards 0 for AC.
ShiftDC(x, Al) == x \div (2 ^ Al)
ShiftAC(x, Al) == Magnitude(x) \div (2 ^ Al)

DCFirst(e, c, dc) ==
  [Add(e, <<Sym(DCTable(c), NumBits(dc - e.saved.dc[c]))>> \o WithBits(dc - e.saved.dc[c]))
     EXCEPT !.saved.dc[c] = dc, !.error = @ \/ NumBits(dc - e.saved.dc[c]) > MAX_COEF_BITS + 1]
encode_mcu_DC_first(e, data) ==
  FoldLeft(LAMBDA u, b : DCFirst(u, e.scan.member[b], ShiftDC(data[b][0], e.scan.Al)), e, [b \in DOMAIN data |-> b])

encode_mcu_DC_refine(e, data) ==
  Add(e, [b \in DOMAIN data |-> Plain(ShiftDC(data[b][0], e.scan.Al), 1)])

\* The working state of a band: encoder, run of zeros, correction bits of this block.
InBand(e, r, BR) == [e |-> e, r |-> r, BR |-> BR]

ForceEobrun(e) ==
  IF e.EOBRUN = MAX_EOBRUN \/ Len(e.bit_buffer) > (MAX_CORR_BITS - DCTSIZE2) + 1 THEN emit_eobrun(e) ELSE e
EndOfBand(w) ==
  IF w.r = 0 /\ w.BR = <<>> THEN w.e
  ELSE ForceEobrun([w.e EXCEPT !.EOBRUN = @ + 1, !.bit_buffer = @ \o w.BR])

SignedAC(x, temp) == IF x < 0 THEN -temp ELSE temp
FirstCode(w, value) ==
  InBand([Add(emit_eobrun(w.e), ZRLs(ACOf(w.e), w.r) \o <<Sym(ACOf(w.e), (16 * (w.r % 16)) + NumBits(value))>>
                                  \o WithBits(value))
            EXCEPT !.error = @ \/ NumBits(value) > MAX_COEF_BITS], 0, <<>>)
FirstAC(w, x) ==
  IF ShiftAC(x, w.e.scan.Al) = 0 THEN [w EXCEPT !.r = @ + 1]
  ELSE FirstCode(w, SignedAC(x, ShiftAC(x, w.e.scan.Al)))
RECURSIVE FirstBand(_, _, _)
FirstBand(w, block, k) ==
  IF w.e.error \/ k > w.e.scan.Se THEN w ELSE FirstBand(FirstAC(w, block[k]), block, k + 1)
encode_mcu_AC_first(e, data) == EndOfBand(FirstBand(InBand(e, 0, <<>>), data[1], e.scan.Ss))

\* A run of 16 zeros before a coefficient that is coded, with the correction bits
\* met so far.
RECURSIVE ZRLsBefore(_)
ZRLsBefore(w) ==
  IF w.r <= 15 THEN w
  ELSE ZRLsBefore(InBand(Add(emit_eobrun(w.e), <<Sym(ACOf(w.e), 240)>> \o Buffered(w.BR)), w.r - 16, <<>>))

NewlyNonZero(w, x) ==
  InBand(Add(emit_eobrun(w.e), <<Sym(ACOf(w.e), (16 * w.r) + 1), Plain(IF x < 0 THEN 0 ELSE 1, 1)>> \o Buffered(w.BR)),
         0, <<>>)
\* The bits are stored behind those of earlier blocks, BE of them.
Correct(w, bit) ==
  [w EXCEPT !.BR = Append(@, bit),
            !.e.overrun = @ \/ Len(w.e.bit_buffer) + Len(w.BR) >= MAX_CORR_BITS]
Refine(w, x, temp, EOB, k) ==
  IF temp = 0 THEN [w EXCEPT !.r = @ + 1]
  ELSE IF temp > 1 THEN Correct(IF k <= EOB THEN ZRLsBefore(w) ELSE w, temp % 2)
  ELSE NewlyNonZero(ZRLsBefore(w), x)

\* The last coefficient that becomes nonzero.
EOBPlace(e, block) == Max({0} \union {k \in e.scan.Ss .. e.scan.Se : ShiftAC(block[k], e.scan.Al) = 1})
RECURSIVE RefineBand(_, _, _, _)
RefineBand(w, block, EOB, k) ==
  IF w.e.overrun \/ k > w.e.scan.Se THEN w
  ELSE RefineBand(Refine(w, block[k], ShiftAC(block[k], w.e.scan.Al), EOB, k), block, EOB, k + 1)
encode_mcu_AC_refine(e, data) ==
  EndOfBand(RefineBand(InBand(e, 0, <<>>), data[1], EOBPlace(e, data[1]), e.scan.Ss))

encode_mcu(e, data) ==
  CASE e.scan.Ss = 0 /\ e.scan.Ah = 0 -> encode_mcu_DC_first(e, data)
    [] e.scan.Ss = 0 /\ e.scan.Ah > 0 -> encode_mcu_DC_refine(e, data)
    [] e.scan.Ss > 0 /\ e.scan.Ah = 0 -> encode_mcu_AC_first(e, data)
    [] OTHER                          -> encode_mcu_AC_refine(e, data)

\* A destination that cannot take the bytes ends the program (JERR_CANT_SUSPEND).
Unlimited == 1000000
EmitTokens(e, codes) ==
  IF e.gather THEN Counted(e) ELSE WriteTokens(e, e, codes, Unlimited)
encode_mcu_progressive(e, data, codes) == EmitTokens(encode_mcu(RestartProgressiveFirst(e), data), codes)

(***************************************************************************)
(* The end of a pass                                                       *)
(***************************************************************************)

Flushed(e, o) == [e EXCEPT !.bytes = @ \o o.bytes, !.saved.put = o.put, !.tokens = <<>>]
FlushPass(e, codes) ==
  IF MissingCode(e.tokens, codes) THEN Exits(e)
  ELSE Flushed(e, flush_bits(PutOut([put |-> e.saved.put, bytes |-> <<>>], e.tokens, codes)))
finish_pass_huff(e, codes) == FlushPass(e, codes)
finish_pass_phuff(e, codes) == FlushPass(emit_eobrun(e), codes)

\* Each table that was used is made anew (finish_pass_gather, finish_pass_gather_phuff).
Optimized(e, htbls) ==
  [t \in DOMAIN htbls |-> IF e.counts[t] = <<>> THEN htbls[t] ELSE jpeg_gen_optimal_table(e.counts[t])]
finish_pass_gather(e, htbls) == Optimized(e, htbls)
FinalCounts(e) == Count(e.counts, emit_eobrun(e).tokens)
finish_pass_gather_phuff(e, htbls) == Optimized([e EXCEPT !.counts = FinalCounts(e)], htbls)
=============================================================================
