------------------------------ MODULE MCInput ------------------------------
(***************************************************************************)
(* Small files for InputController, right and damaged.  A Huffman table    *)
(* has one count and one value, a quantization table one entry, a block is *)
(* one sample.                                                             *)
(***************************************************************************)
EXTENDS InputController

M(m) == <<255, m>>
Seg(m, body) == M(m) \o <<0, Len(body) + 2>> \o body

Dqt(slot) == Seg(DQT, <<slot, 7>>)
Dht(slot) == Seg(DHT, <<slot, 1, 5>>)
Tables == Dqt(0) \o Dht(0) \o Dht(16)
Gray(w) == Seg(SOF0, <<8, 0, 1, 0, w, 1, 1, 17, 0>>)
GraySos == Seg(SOS, <<1, 1, 0, 0, 0, 0>>)
Start(w) == M(SOI) \o Tables \o Gray(w)

Rst(n) == M(RST0 + n)
Restarting == Start(8) \o Seg(DRI, <<0, 2>>) \o GraySos

\* Four segments of two MCUs, and ways to damage them.
Sound      == Restarting \o <<1, 2>> \o Rst(0) \o <<3, 4>> \o Rst(1) \o <<5, 6>> \o Rst(2) \o <<7, 8>> \o M(EOI)
NoRst      == Restarting \o <<1, 2>> \o Rst(0) \o <<3, 4, 5, 6>> \o Rst(2) \o <<7, 8>> \o M(EOI)
NoSegment  == Restarting \o <<1, 2>> \o Rst(1) \o <<5, 6>> \o Rst(2) \o <<7, 8>> \o M(EOI)
TwoGone    == Restarting \o <<1, 2>> \o Rst(2) \o <<7, 8>> \o M(EOI)
Twice      == Restarting \o <<1, 2>> \o Rst(0) \o <<3, 4>> \o Rst(0) \o <<3, 4>> \o Rst(1) \o <<5, 6>>
                \o Rst(2) \o <<7, 8>> \o M(EOI)
BadNumber  == Restarting \o <<1, 2>> \o Rst(4) \o <<3, 4>> \o Rst(1) \o <<5, 6>> \o Rst(2) \o <<7, 8>> \o M(EOI)
Longer     == Restarting \o <<1, 2, 9, 9, 9>> \o Rst(0) \o <<3, 4>> \o Rst(1) \o <<5, 6>> \o Rst(2)
                \o <<7>>
Stray      == Restarting \o <<1, 2>> \o Rst(0) \o <<3>> \o M(1) \o <<9>> \o Rst(1) \o <<5, 6>>
                \o M(EOI)

Damaged ==
  (Sound :> 1 .. 8) @@ (NoRst :> {1, 2, 3, 4, 7, 8}) @@ (NoSegment :> {1, 2, 5, 6, 7, 8})
    @@ (TwoGone :> {1, 2, 7, 8}) @@ (Twice :> {1, 2, 3, 4, 5, 6, 7, 8})
    @@ (BadNumber :> 1 .. 8) @@ (Longer :> 1 .. 7) @@ (Stray :> {1, 2, 3, 5, 6})

\* Two components, of two by one and one sample per MCU, in one scan and in two;
\* between the scans the quantization table is replaced.
Color(kind) == Seg(kind, <<8, 0, 3, 0, 1, 2, 1, 18, 0, 2, 17, 1>>)
OneScan == M(SOI) \o Seg(DQT, <<0, 7, 1, 7>>) \o Dht(0) \o Dht(16) \o Color(SOF1)
             \o Seg(SOS, <<2, 1, 0, 2, 0, 0, 0, 0>>) \o <<1, 2, 3, 255, 0, 5, 6>> \o M(EOI)
TwoScans == M(SOI) \o Dqt(0) \o Dqt(1) \o Dht(0) \o Dht(16) \o Color(SOF0)
             \o Seg(SOS, <<1, 1, 0, 0, 0, 0>>) \o <<1, 2, 3>> \o Dqt(0) \o Dqt(1)
             \o Seg(SOS, <<1, 2, 0, 0, 0, 0>>) \o <<4, 5>> \o M(EOI)
Refined == M(SOI) \o Dqt(0) \o Dht(0) \o Dht(16) \o Seg(SOF2, <<8, 0, 2, 0, 1, 1, 1, 17, 0>>)
             \o GraySos \o <<1>> \o Dqt(0) \o GraySos \o <<3, 4>>

\* Comments, fill bytes, garbage, application markers; tables in a datastream
\* of their own before an image.
Chatty == M(SOI) \o Seg(COM, <<>>) \o <<255>> \o Seg(COM, <<4, 5, 6>>) \o <<1, 255, 0, 2>> \o Seg(APP0, <<74, 1>>)
            \o Seg(APP14, <<65, 1, 1>>) \o Seg(APP0 + 3, <<9>>) \o M(TEM) \o Tables \o Gray(1) \o GraySos
            \o <<1>> \o M(EOI)
Abbreviated == M(SOI) \o Tables \o M(EOI) \o M(SOI) \o Gray(1) \o GraySos \o <<1>> \o M(EOI)

Cut(f, n) == SubSeq(f, 1, n)
Refused ==
  {<<>>, <<9, 9>>, M(SOI) \o M(SOI), M(SOI) \o M(2), M(SOI) \o GraySos,
   Start(1) \o Gray(1), M(SOI) \o Seg(SOF0, <<8, 0, 0, 0, 1, 1, 1, 17, 0>>),
   M(SOI) \o Gray(1) \o GraySos, Start(1) \o Seg(SOS, <<1, 9, 0, 0, 0, 0>>),
   M(SOI) \o Seg(DQT, <<4, 7>>), M(SOI) \o Seg(DHT, <<32, 1, 5>>), M(SOI) \o Seg(DRI, <<1>>),
   M(SOI) \o Tables \o Seg(SOF0, <<8, 0, 1, 0, 1, 1, 1, 81, 0>>) \o GraySos,
   Start(1) \o GraySos \o <<1>> \o GraySos, Start(1) \o M(EOI)}

Whole == {OneScan, TwoScans, Refined, Chatty, Abbreviated} \union Refused
           \union {Cut(Chatty, n) : n \in {5, 9, 14, 26, 60}} \union {Cut(TwoScans, n) : n \in {12, 52, 60, 70}}

MCIntact == Damaged @@ [f \in Whole |-> {}]
MCFiles == DOMAIN MCIntact
=============================================================================
