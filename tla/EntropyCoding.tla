--------------------------- MODULE EntropyCoding ---------------------------
(***************************************************************************)
(* The DCTs and the entropy coders of libjpeg at work: the samples of an   *)
(* image become coefficients, these are coded scan after scan, first       *)
(* counted to make the tables if the tables are optimized, and every scan  *)
(* is decoded again from bytes that arrive piece by piece, and that may be *)
(* damaged or cut off on the way; at the end the coefficients become       *)
(* samples again.  This is what the controllers of compressor and          *)
(* decompressor have the coders do (compress_data and compress_output,     *)
(* consume_data and decompress_data), one pass at a time.                  *)
(*                                                                         *)
(* A job is an image and the way it is coded:                              *)
(*   samples       the blocks of each component, or <<>> to begin with     *)
(*   coefs         coefficients                                            *)
(*   sampling      the sampling factors of each component, <<h, v>>        *)
(*   quantval, method   the quantization table and the DCT both ways       *)
(*   script        its scans                                               *)
(*   interval      MCUs between restart markers, or 0                      *)
(*   progressive, optimize                                                 *)
(*   earlier       counts from which the tables the object has were made   *)
(*   dc, ac        the components whose coefficients the reader wants      *)
(*   faults        what may happen to the bytes: "damaged", "cut"          *)
(***************************************************************************)
EXTENDS HuffEncoder, HuffDecoder, InverseDCT

CONSTANTS Jobs,    \* the images that are coded
          Rooms,   \* free bytes the destination may have when an MCU is coded
          Pieces,  \* numbers of bytes that may arrive at a time
          Sizes    \* samples to a side of the blocks the reader may ask for

VARIABLES job, scan, phase,
          image,    \* the coefficients that are coded
          mcu,      \* the next MCU to be counted, coded or decoded
          enc, codes, htbls, counts,
          dec, waiting,
          coefs,    \* the coefficients that are decoded
          bogus,    \* the scans did not refine each other as they should
          fault,    \* what has happened to the bytes
          hurt,     \* the blocks, <<component, place>>, that faults may have reached
          output    \* what the reader gets: the size it asked for and the samples

vars == <<job, scan, phase, image, mcu, enc, codes, htbls, counts, dec, waiting, coefs, bogus, fault, hurt, output>>
coding == <<enc, codes, htbls, counts>>
decoding == <<dec, waiting, coefs, bogus, fault, hurt, output>>

(***************************************************************************)
(* Blocks and MCUs                                                         *)
(***************************************************************************)

Scan == job.script[scan]
Zero == [k \in 0 .. DCTSIZE2 - 1 |-> 0]

\* How many blocks of component c precede block b of an MCU, and are in an MCU.
Before(sc, c, b) == Cardinality({a \in 1 .. b - 1 : sc.member[a] = c})
Width(sc, c) == Before(sc, c, Len(sc.member) + 1)
PlaceOf(sc, i, b) == <<sc.member[b], ((i - 1) * Width(sc, sc.member[b])) + Before(sc, sc.member[b], b) + 1>>
MCUs(sc) == Len(image[sc.member[1]]) \div Width(sc, sc.member[1])

PlacesOf(sc, i) == {PlaceOf(sc, i, b) : b \in DOMAIN sc.member}
DataOf(blocks, sc, i) == [b \in DOMAIN sc.member |-> blocks[sc.member[b]][PlaceOf(sc, i, b)[2]]]
PutData(blocks, sc, i, data) ==
  [c \in DOMAIN blocks |-> [n \in DOMAIN blocks[c] |->
     IF <<c, n>> \in PlacesOf(sc, i) THEN data[CHOOSE b \in DOMAIN sc.member : PlaceOf(sc, i, b) = <<c, n>>]
     ELSE blocks[c][n]]]

\* The MCUs between the same two restart markers as MCU i.
Interval(i) == IF job.interval = 0 THEN 0 ELSE (i - 1) \div job.interval
SameInterval(sc, i) == {j \in 1 .. MCUs(sc) : Interval(j) = Interval(i)}

(***************************************************************************)
(* Coding                                                                  *)
(***************************************************************************)

EmptyBlocks(blocks) == [c \in DOMAIN blocks |-> [n \in DOMAIN blocks[c] |-> Zero]]
NoTable == [bits |-> [l \in 1 .. MaxLength |-> 0], huffval |-> <<>>]
Init ==
  /\ job \in Jobs
  /\ scan = 1 /\ mcu = 1
  /\ IF job.samples = <<>> THEN phase = "start" /\ image = job.coefs
     ELSE phase = "samples" /\ image = EmptyBlocks(job.samples)
  /\ output = <<>>
  /\ htbls = [t \in Tables |-> IF job.earlier[t] = <<>> THEN NoTable ELSE jpeg_gen_optimal_table(job.earlier[t])]
  /\ counts = job.earlier
  /\ enc = NewEncoder(job.script[1], job.interval, FALSE)
  /\ codes = [t \in Tables |-> <<>>]
  /\ dec = NewDecoder(job.script[1], job.interval, <<>>, codes, [c \in DOMAIN image |-> [k \in DOMAIN Zero |-> -1]], {}, {})
  /\ bogus = FALSE
  /\ waiting = FALSE
  /\ coefs = EmptyBlocks(image)
  /\ fault = "none" /\ hurt = {}

\* compress_data asks for the blocks of an MCU row; here all are made at once.
ForwardDCT ==
  /\ phase = "samples"
  /\ phase' = "start"
  /\ image' = [c \in DOMAIN job.samples |-> [n \in DOMAIN job.samples[c] |->
                 Zigzag(forward_DCT(job.samples[c][n], job.quantval, job.method))]]
  /\ UNCHANGED <<job, scan, mcu>> /\ UNCHANGED coding /\ UNCHANGED decoding

\* Tables are optimized in a pass of its own, but DC refinement has none.
NeedsTables(sc) == ~ (job.progressive /\ sc.Ss = 0 /\ sc.Ah > 0)
prepare_for_pass ==
  /\ phase = "start"
  /\ phase' = IF job.optimize /\ NeedsTables(Scan) THEN "gather" ELSE "tables"
  /\ mcu' = 1
  /\ enc' = NewEncoder(Scan, job.interval, TRUE)
  /\ UNCHANGED <<job, scan, image, codes, htbls, counts>> /\ UNCHANGED decoding

GatherMCU ==
  /\ phase = "gather" /\ mcu <= MCUs(Scan)
  /\ enc' = IF job.progressive THEN encode_mcu_progressive(enc, DataOf(image, Scan, mcu), codes)
            ELSE encode_mcu_gather(enc, DataOf(image, Scan, mcu))
  /\ mcu' = mcu + 1
  /\ UNCHANGED <<job, scan, image, phase, codes, htbls, counts>> /\ UNCHANGED decoding

AllCounts == IF job.progressive THEN FinalCounts(enc) ELSE enc.counts
finish_gather ==
  /\ phase = "gather" /\ mcu > MCUs(Scan)
  /\ phase' = "tables"
  /\ htbls' = IF job.progressive THEN finish_pass_gather_phuff(enc, htbls) ELSE finish_pass_gather(enc, htbls)
  /\ counts' = [t \in Tables |-> IF AllCounts[t] = <<>> THEN counts[t] ELSE AllCounts[t]]
  /\ UNCHANGED <<job, scan, image, mcu, enc, codes>> /\ UNCHANGED decoding

start_pass_output ==
  /\ phase = "tables"
  /\ phase' = "encode" /\ mcu' = 1
  /\ enc' = NewEncoder(Scan, job.interval, FALSE)
  /\ codes' = [t \in Tables |-> jpeg_make_c_derived_tbl(htbls[t])]
  /\ UNCHANGED <<job, scan, image, htbls, counts>> /\ UNCHANGED decoding

\* Without room for all of an MCU, the sequential encoder leaves it for later.
EncodeMCU(free) ==
  /\ phase = "encode" /\ mcu <= MCUs(Scan)
  /\ enc' = IF job.progressive THEN encode_mcu_progressive(enc, DataOf(image, Scan, mcu), codes)
            ELSE encode_mcu_huff(enc, DataOf(image, Scan, mcu), codes, free)
  /\ mcu' = IF enc' = enc THEN mcu ELSE mcu + 1
  /\ UNCHANGED <<job, scan, image, phase, codes, htbls, counts>> /\ UNCHANGED decoding

(***************************************************************************)
(* The bytes on their way                                                  *)
(***************************************************************************)

Finished == IF job.progressive THEN finish_pass_phuff(enc, codes) ELSE finish_pass_huff(enc, codes)
AtMarker(s, i) == i > 1 /\ s[i - 1] = 255 /\ s[i] # 0
Data(s) == {i \in DOMAIN s : s[i] # 255 /\ (i = 1 \/ s[i - 1] # 255)}
IntervalOf(s, i) == IF job.interval = 0 THEN 0 ELSE Cardinality({j \in 1 .. i : AtMarker(s, j)})

\* A byte that is data gets another value, or the file ends after it and the
\* source puts an EOI there (fill_input_buffer).
Damaged(s, i) == [s EXCEPT ![i] = 254 - @]
Cut(s, i) == SubSeq(s, 1, i)
Ended(s) == s \o <<255, EOI>>

\* Bits of refinement mean nothing where what they refine is not known.
Spreads(sc) == sc.Ss > 0 /\ sc.Ah > 0
Reached(sc, blocks) ==
  UNION {PlacesOf(sc, i) : i \in {j \in 1 .. MCUs(sc) : \E n \in SameInterval(sc, j) : PlacesOf(sc, n) \cap blocks # {}}}
HurtBefore(sc) == IF Spreads(sc) THEN hurt \union Reached(sc, hurt) ELSE hurt
BlocksOf(sc, Intervals) == UNION {PlacesOf(sc, i) : i \in {j \in 1 .. MCUs(sc) : Interval(j) \in Intervals}}

Send(s, kind, blocks) ==
  /\ phase' = "decode" /\ mcu' = 1
  /\ dec' = NewDecoder(Scan, job.interval, Ended(s), [t \in Tables |-> jpeg_make_d_derived_tbl(htbls[t])],
                       CoefBits(dec.coef_bits, Scan), job.dc, job.ac)
  /\ bogus' = (bogus \/ (job.progressive /\ (BadProgression(Scan) \/ BogusProgression(dec.coef_bits, Scan))))
  /\ fault' = kind
  /\ hurt' = HurtBefore(Scan) \union blocks
  /\ UNCHANGED <<job, scan, image, codes, htbls, counts, waiting, coefs, output>>

finish_pass == phase = "encode" /\ mcu > MCUs(Scan) /\ enc' = Finished

SendAll == finish_pass /\ Send(Finished.bytes, fault, {})
SendDamaged(i) ==
  /\ finish_pass
  /\ "damaged" \in job.faults /\ fault = "none" /\ i \in Data(Finished.bytes)
  /\ Send(Damaged(Finished.bytes, i), "damaged", BlocksOf(Scan, {IntervalOf(Finished.bytes, i)}))
SendCut(i) ==
  /\ finish_pass
  /\ "cut" \in job.faults /\ fault = "none" /\ i \in Data(Finished.bytes)
  /\ Send(Cut(Finished.bytes, i), "cut", BlocksOf(Scan, IntervalOf(Finished.bytes, i) .. MCUs(Scan)))

(***************************************************************************)
(* Decoding                                                                *)
(***************************************************************************)

\* The application reads on when the decoder has suspended for want of bytes.
Arrive(n) ==
  /\ phase = "decode" /\ waiting /\ dec.avail < Len(dec.stream)
  /\ dec' = [dec EXCEPT !.avail = Min({@ + n, Len(dec.stream)})]
  /\ waiting' = FALSE
  /\ UNCHANGED <<job, scan, image, phase, mcu, coefs, bogus, fault, hurt, output>> /\ UNCHANGED coding

Decoded(result) ==
  /\ dec' = result.d
  /\ coefs' = PutData(coefs, Scan, mcu, result.data)
  /\ waiting' = ~ result.done
  /\ mcu' = IF result.done THEN mcu + 1 ELSE mcu
\* The blocks of a sequential MCU are emptied before each call.
Prepared(data) == IF job.progressive THEN data ELSE [b \in DOMAIN data |-> Zero]
DecodeOne ==
  /\ phase = "decode" /\ mcu <= MCUs(Scan) /\ ~ waiting
  /\ Decoded(DecodeMCU(dec, Prepared(DataOf(coefs, Scan, mcu)), job.progressive))
  /\ UNCHANGED <<job, scan, image, phase, bogus, fault, hurt, output>> /\ UNCHANGED coding

\* Behind a file that is cut off there are no more scans.
finish_input_pass ==
  /\ phase = "decode" /\ mcu > MCUs(Scan)
  /\ IF scan = Len(job.script) \/ fault = "cut" THEN phase' = "done" /\ scan' = scan
     ELSE phase' = "start" /\ scan' = scan + 1
  /\ UNCHANGED <<job, image, mcu>> /\ UNCHANGED decoding /\ UNCHANGED coding

\* A component with fewer samples than others is made in larger blocks while that
\* spares the upsampling (jpeg_calc_output_dimensions).
MaxFactor(sampling, i) == Max({f[i] : f \in Range(sampling)})
DCT_scaled_size(sampling, c, size) ==
  Max({s \in {1, 2, 4, 8} : s >= size /\ \A i \in 1 .. 2 : sampling[c][i] * s <= MaxFactor(sampling, i) * size})

\* decompress_data and decompress_onepass, when the coefficients are there.
Output(size) ==
  /\ phase = "done" /\ job.samples # <<>>
  /\ phase' = "output"
  /\ output' = [size |-> size,
                samples |-> [c \in DOMAIN coefs |-> [n \in DOMAIN coefs[c] |->
                              inverse_DCT(Natural(coefs[c][n]), job.quantval, job.method,
                                          DCT_scaled_size(job.sampling, c, size))]]]
  /\ UNCHANGED <<job, scan, image, mcu, dec, waiting, coefs, bogus, fault, hurt>> /\ UNCHANGED coding

AllDone == (phase = "output" \/ (phase = "done" /\ job.samples = <<>>)) /\ UNCHANGED vars

Next ==
  \/ ForwardDCT \/ prepare_for_pass \/ GatherMCU \/ finish_gather \/ start_pass_output
  \/ \E free \in Rooms : EncodeMCU(free)
  \/ SendAll \/ \E i \in 1 .. Len(enc.bytes) : SendDamaged(i) \/ SendCut(i)
  \/ \E n \in Pieces : Arrive(n)
  \/ DecodeOne \/ finish_input_pass
  \/ \E size \in Sizes : Output(size)
  \/ AllDone

Spec == Init /\ [][Next]_vars

(***************************************************************************)
(* What the entropy coders of libjpeg promise each other.                  *)
(***************************************************************************)

(***************************************************************************)
(* Tables                                                                  *)
(***************************************************************************)

Shortened(count) == \E l \in Range(CodeSizes(count)) : l > MaxLength
FitTable(htbl, count, c) ==
  /\ ~ clen_overflow(count)
  /\ UsableTable(htbl, count, c)
  /\ Shortened(count) \/ \A s, t \in DOMAIN c : count[s] > count[t] => Len(c[s]) <= Len(c[t])

\* A table made from counts can be sent and used: it has as many codes as
\* symbols and each symbol once, each symbol counted has a code of at most 16
\* bits, no code starts another and none is all ones, and, if no length had to
\* be changed, a symbol that occurs more often has no longer code.
\* jpeg_gen_optimal_table makes a tree first and then changes lengths, when
\* the symbols are no longer looked at.
TablesFit ==
  \A t \in Tables : counts[t] # <<>> => FitTable(htbls[t], counts[t], jpeg_make_c_derived_tbl(htbls[t]))

(***************************************************************************)
(* Coefficients                                                            *)
(***************************************************************************)

ShiftDown(x, k, Al) == IF k = 0 THEN ShiftDC(x, Al) * (2 ^ Al) ELSE SignedAC(x, ShiftAC(x, Al) * (2 ^ Al))

\* The scans of which block n of component c is decoded.
Decoding == phase = "decode"
Current == IF Decoding /\ mcu <= MCUs(Scan) THEN PlacesOf(Scan, mcu) ELSE {}
Passed(c, n) == \E i \in 1 .. mcu - 1 : <<c, n>> \in PlacesOf(Scan, i)
ScansOf(c, n) == {j \in 1 .. scan : c \in Range(job.script[j].member)
                                      /\ (j < scan \/ phase \in {"done", "output"} \/ (Decoding /\ Passed(c, n)))}
Wanted(c, k) == job.progressive \/ (IF k = 0 THEN c \in job.dc ELSE c \in job.ac)
ScansWith(scans, k) == {j \in scans : k \in job.script[j].Ss .. job.script[j].Se}
Expected(c, k, x, scans) ==
  IF scans = {} \/ ~ Wanted(c, k) THEN 0 ELSE ShiftDown(x, k, job.script[Max(scans)].Al)
AsCoded(c, n, scans) == \A k \in DOMAIN Zero : coefs[c][n][k] = Expected(c, k, image[c][n][k], ScansWith(scans, k))

Blocks2D == UNION {{c} \X DOMAIN image[c] : c \in DOMAIN image}

\* Coding and decoding keep the coefficients: each block that is passed has
\* exactly the bits the scans so far have told of it, those behind it the bits of
\* the scans before, wherever the data was split, whatever block was suspended
\* and tried again, whichever coder put end-of-band runs and correction bits off,
\* and no fault in the bytes is felt outside the restart interval it is in.  No
\* legal image lacks a code for a symbol or overruns the buffer of correction
\* bits, and with all bytes there no MCU waits for more.  (What was right when all
\* was decoded stays so while samples are made of it.)
RoundTrip ==
  /\ ~ enc.error /\ ~ enc.overrun /\ ~ bogus
  /\ phase # "output" => \A p \in (Blocks2D \ hurt) \ Current : AsCoded(p[1], p[2], ScansOf(p[1], p[2]))
  /\ waiting => dec.avail < Len(dec.stream)

(***************************************************************************)
(* Samples                                                                 *)
(***************************************************************************)

\* A sample of a block with size to a side stands for a square of the source.
Side(size) == 8 \div size
Square(samples, size, k) ==
  LET row == Side(size) * ((k - 1) \div size)
      column == Side(size) * ((k - 1) % size)
  IN  [m \in 1 .. Side(size) ^ 2 |-> samples[(8 * (row + ((m - 1) \div Side(size)))) + column + ((m - 1) % Side(size)) + 1]]
Near(sample, square, tolerance) ==
  LET off == (sample * Len(square)) - FoldSeq(+, 0, square)
  IN  off \in (-tolerance * Len(square)) .. (tolerance * Len(square))

\* Both DCTs there and back give the samples again but for what quantization
\* takes, and a reduced block has the averages of the squares its samples stand
\* for: forward and inverse transform, the scale factors each leaves to its
\* divisors or multipliers, the zigzag order and the table that limits samples fit
\* each other.  A sample may be off by one quantization step, and 1 for the
\* arithmetic: rounding leaves half a step in each coefficient, and the errors of
\* 64 coefficients could add up to more, but do not in the images of the jobs.
SamplesKept ==
  phase = "output" =>
    \A c \in DOMAIN output.samples : \A n \in DOMAIN output.samples[c] :
      LET size == DCT_scaled_size(job.sampling, c, output.size)
      IN  /\ DOMAIN output.samples[c][n] = 1 .. size ^ 2
          /\ \A k \in 1 .. size ^ 2 :
               Near(output.samples[c][n][k], Square(job.samples[c][n], size, k), 1 + Max(Range(job.quantval)))
=============================================================================
