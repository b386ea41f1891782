----------------------------- MODULE HuffTables -----------------------------
(***************************************************************************)
(* Huffman tables of libjpeg: the best table for given counts of symbols   *)
(* (jpeg_gen_optimal_table, jchuff.c), and what encoder and decoder derive *)
(* from a table (jpeg_make_c_derived_tbl, jpeg_make_d_derived_tbl).  A     *)
(* code is a sequence of bits; counts are functions on the symbols that    *)
(* occur.                                                                  *)
(***************************************************************************)
EXTENDS Integers, Sequences, FiniteSets, SequencesExt, FiniteSetsExt, Functions

CONSTANT HUFF_LOOKAHEAD   \* bits the decoder looks up at once, 8 in jdhuff.h

ASSUME LookaheadAssumption == HUFF_LOOKAHEAD \in 1 .. 16

MAX_CLEN  == 32
MaxLength == 16
Pseudo    == 256

\* Luminance and black share two tables, chroma two others, as jpeg_set_colorspace has
\* it for YCbCr and YCCK.
Tables == {"dc", "ac"} \X {1, 2}
TableNumber(c) == IF c \in {1, 4} THEN 1 ELSE 2
DCTable(c) == <<"dc", TableNumber(c)>>
ACTable(c) == <<"ac", TableNumber(c)>>

(***************************************************************************)
(* The best table for given counts                                         *)
(***************************************************************************)

\* The symbol or tree of the least count, the larger symbol in case of ties.
Smallest(freq, S) == CHOOSE c \in S : \A d \in S : freq[c] < freq[d] \/ (freq[c] = freq[d] /\ c >= d)

\* The pseudo-symbol keeps the code of all ones from being used.
WithPseudo(freq) ==
  LET S == DOMAIN freq \union {Pseudo}
  IN  [freq |-> [s \in S |-> IF s = Pseudo THEN 1 ELSE freq[s]],
       branch |-> [s \in S |-> {s}], codesize |-> [s \in S |-> 0]]

\* freq[c1] += freq[c2]; the chains in others[] are the sets in branch.
Merge(t, c1, c2) ==
  LET both == t.branch[c1] \union t.branch[c2]
      Left == DOMAIN t.freq \ {c2}
  IN  [freq     |-> [s \in Left |-> IF s = c1 THEN t.freq[c1] + t.freq[c2] ELSE t.freq[s]],
       branch   |-> [s \in Left |-> IF s = c1 THEN both ELSE t.branch[s]],
       codesize |-> [s \in DOMAIN t.codesize |-> t.codesize[s] + (IF s \in both THEN 1 ELSE 0)]]

\* The two smallest trees become one.
MergeTwo(t) ==
  LET c1 == Smallest(t.freq, DOMAIN t.freq)
  IN  Merge(t, c1, Smallest(t.freq, DOMAIN t.freq \ {c1}))

\* The lengths of the codes when one tree is left; there was one for each symbol
\* and one for the pseudo-symbol.
CodeSizes(freq) ==
  LET trees[n \in 0 .. Cardinality(DOMAIN freq)] ==
        IF n = 0 THEN WithPseudo(freq) ELSE MergeTwo(trees[n - 1])
  IN  trees[Cardinality(DOMAIN freq)].codesize

\* Two codes of i bits are taken out: one gets the bits they have in common, the
\* other one and that of a symbol with a shorter code share the code of the latter.
MovePair(bits, i) ==
  LET j == Max({l \in 1 .. i - 2 : bits[l] > 0})
      Change(l) == (IF l = i THEN -2 ELSE 0) + (IF l = i - 1 THEN 1 ELSE 0)
                     + (IF l = j + 1 THEN 2 ELSE 0) + (IF l = j THEN -1 ELSE 0)
  IN  [l \in DOMAIN bits |-> bits[l] + Change(l)]

\* Pair by pair, until no code has i bits.
EmptyLength(bits, i) ==
  LET moved[n \in 0 .. (bits[i] + 1) \div 2] == IF n = 0 THEN bits ELSE MovePair(moved[n - 1], i)
  IN  moved[(bits[i] + 1) \div 2]

\* Then for one bit less, until no code has more than 16 bits.
Shorten(bits) ==
  LET cut[n \in 0 .. MAX_CLEN - MaxLength] ==
        IF n = 0 THEN bits ELSE EmptyLength(cut[n - 1], MAX_CLEN + 1 - n)
  IN  cut[MAX_CLEN - MaxLength]

LongestInUse(bits) == Max({l \in DOMAIN bits : bits[l] > 0})
\* (mutant) the pseudo-symbol keeps its code
KeepPseudo(bits, longest) == [l \in 1 .. MaxLength |-> bits[l]]
DropPseudo(bits, longest) == [l \in 1 .. MaxLength |-> IF l = longest THEN bits[l] - 1 ELSE bits[l]]
LimitedBits(bits) == DropPseudo(bits, LongestInUse(bits))

\* The symbols in the order of their lengths before any was changed.
SymbolsBySize(codesize) ==
  LET S == DOMAIN codesize \ {Pseudo}
      Before(s) == {r \in S : codesize[r] < codesize[s] \/ (codesize[r] = codesize[s] /\ r < s)}
  IN  [p \in 1 .. Cardinality(S) |-> CHOOSE s \in S : Cardinality(Before(s)) = p - 1]

TableOf(codesize) ==
  LET bits == [l \in 1 .. MAX_CLEN |-> Cardinality({s \in DOMAIN codesize : codesize[s] = l})]
  IN  [bits |-> LimitedBits(Shorten(bits)), huffval |-> SymbolsBySize(codesize)]

\* There is no table if a code is longer than MAX_CLEN (JERR_HUFF_CLEN_OVERFLOW).
clen_overflow(freq) == \E l \in Range(CodeSizes(freq)) : l > MAX_CLEN
jpeg_gen_optimal_table(freq) == TableOf(CodeSizes(freq))

(***************************************************************************)
(* Codes                                                                   *)
(***************************************************************************)

BitsOf(n, size) == [i \in 1 .. size |-> (n \div (2 ^ (size - i))) % 2]
Number(bits) == FoldLeft(LAMBDA n, b : (2 * n) + b, 0, bits)

\* The first code of each length, and the place of its symbol in huffval.
FirstCodes(htbl) ==
  LET first[l \in 1 .. MaxLength] == IF l = 1 THEN 0 ELSE 2 * (first[l - 1] + htbl.bits[l - 1])
  IN  first
FirstPlaces(htbl) ==
  LET first[l \in 1 .. MaxLength] == IF l = 1 THEN 1 ELSE first[l - 1] + htbl.bits[l - 1]
  IN  first

\* The length of the code in each place.
huffsize(htbl) ==
  LET places == FirstPlaces(htbl)
  IN  [p \in 1 .. places[MaxLength] + htbl.bits[MaxLength] - 1 |->
         CHOOSE l \in 1 .. MaxLength : p \in places[l] .. places[l] + htbl.bits[l] - 1]

\* JERR_BAD_HUFF_TABLE
BadTable(htbl, isDC) ==
  \/ Len(huffsize(htbl)) > 256
  \/ \E l \in 1 .. MaxLength : htbl.bits[l] > 0 /\ FirstCodes(htbl)[l] + htbl.bits[l] >= 2 ^ l
  \/ isDC /\ \E s \in Range(htbl.huffval) : s > 15
Duplicates(htbl) == Cardinality(Range(htbl.huffval)) < Len(htbl.huffval)

huffcode(htbl, sizes, firsts, places) ==
  [p \in DOMAIN sizes |-> BitsOf(firsts[sizes[p]] + p - places[sizes[p]], sizes[p])]

\* ehufco and ehufsi: the code of each symbol that has one.
CodesOf(htbl, codes) == [s \in Range(htbl.huffval) |-> codes[CHOOSE p \in DOMAIN codes : htbl.huffval[p] = s]]
jpeg_make_c_derived_tbl(htbl) ==
  CodesOf(htbl, huffcode(htbl, huffsize(htbl), FirstCodes(htbl), FirstPlaces(htbl)))

\* The places of the symbols by their first bits, if their code is not longer.
Lookahead(htbl, codes) ==
  [look \in 0 .. (2 ^ HUFF_LOOKAHEAD) - 1 |->
     LET Starts(p) == IsPrefix(codes[p], BitsOf(look, HUFF_LOOKAHEAD))
     IN  IF \E p \in DOMAIN codes : Starts(p)
         THEN LET p == CHOOSE p \in DOMAIN codes : Starts(p) IN [nbits |-> Len(codes[p]), sym |-> htbl.huffval[p]]
         ELSE [nbits |-> 0, sym |-> 0]]

DecodingTable(htbl, firsts, places) ==
  [huffval   |-> htbl.huffval,
   maxcode   |-> [l \in 1 .. MaxLength |-> IF htbl.bits[l] > 0 THEN firsts[l] + htbl.bits[l] - 1 ELSE -1],
   valoffset |-> [l \in 1 .. MaxLength |-> places[l] - firsts[l]],
   look      |-> Lookahead(htbl, huffcode(htbl, huffsize(htbl), firsts, places))]
jpeg_make_d_derived_tbl(htbl) == DecodingTable(htbl, FirstCodes(htbl), FirstPlaces(htbl))

(***************************************************************************)
(* What is expected of a table and of the codes c made from it             *)
(***************************************************************************)

PrefixFree(c) == \A s, t \in DOMAIN c : s # t => ~ IsPrefix(c[s], c[t])
NotAllOnes(c) == \A s \in DOMAIN c : \E i \in DOMAIN c[s] : c[s][i] = 0

UsableTable(htbl, count, c) ==
  /\ ~ BadTable(htbl, FALSE) /\ ~ Duplicates(htbl)
  /\ Len(huffsize(htbl)) = Len(htbl.huffval)
  /\ DOMAIN count = DOMAIN c
  /\ PrefixFree(c) /\ NotAllOnes(c)
=============================================================================
