------------------------------ MODULE MCCodec ------------------------------
(***************************************************************************)
(* Small images and the ways they are coded, for TLC.                      *)
(***************************************************************************)
EXTENDS PixelPipeline

Block(f) == [k \in 0 .. 63 |-> IF k \in DOMAIN f THEN f[k] ELSE 0]
Flat(dc) == Block(0 :> dc)
Full(dc) == [k \in 0 .. 63 |-> IF k = 0 THEN dc ELSE IF k % 2 = 0 THEN 2 ELSE -3]

Scan1(member, Ss, Se, Ah, Al) == [member |-> member, Ss |-> Ss, Se |-> Se, Ah |-> Ah, Al |-> Al]
Baseline(member) == Scan1(member, 0, 63, 0, 0)

NoCounts == [t \in Tables |-> <<>>]
\* Each symbol as often as all before it together: the codes are as long as can be.
Doubling(symbols) == [s \in Range(symbols) |-> 2 ^ ((CHOOSE i \in DOMAIN symbols : symbols[i] = s) - 1)]
FromEarlier ==
  [t \in Tables |-> IF t[1] = "dc" THEN Doubling([i \in 1 .. 12 |-> i - 1])
                    ELSE Doubling(<<1, 17, 3, 240, 2, 33, 0, 4, 5, 6, 7, 8, 9, 10, 18, 19, 20, 34, 35, 50, 66>>)]

\* Long runs of zeros, large and negative values, two components in an MCU.
Colours ==
  <<<<Block((0 :> 1020) @@ (1 :> -1) @@ (40 :> 5) @@ (63 :> -1023)), Flat(-1024),
      Block((0 :> 3) @@ (17 :> 1) @@ (18 :> -2)), Flat(3)>>,
    <<Block((0 :> -7) @@ (33 :> 2)), Flat(-7)>>>>

\* More intervals than there are restart markers.
Spot == (3 :> 1) @@ (6 :> 3) @@ (9 :> 18)
Grays == <<[n \in 1 .. 10 |-> IF n % 3 = 0 THEN Block((0 :> 4 * n) @@ (Spot[n] :> 1)) ELSE Flat(-3 * n)]>>

\* So many that become nonzero in one block that the data ends among them.
Signs == [k \in 5 .. 24 |-> IF k % 3 = 0 THEN 1 ELSE -1]

\* Bands to refine, runs of empty bands, and a full buffer of correction bits.
Refined ==
  <<<<Block((0 :> 5) @@ (1 :> 4) @@ (2 :> -1) @@ (20 :> 6) @@ (21 :> 1)), Flat(-6), Flat(2),
      Block((0 :> -1) @@ (3 :> 5) @@ (63 :> -7)), Flat(1), Flat(1)>>,
    <<Block((1 :> 2) @@ (2 :> -2) @@ (3 :> 3) @@ Signs), Full(7), Flat(0)>>>>
Progression ==
  <<Scan1(<<1, 1, 2>>, 0, 0, 0, 1), Scan1(<<1>>, 1, 63, 0, 2), Scan1(<<2>>, 1, 63, 0, 1),
    Scan1(<<1, 1, 2>>, 0, 0, 1, 0), Scan1(<<1>>, 1, 63, 2, 1), Scan1(<<2>>, 1, 63, 1, 0), Scan1(<<1>>, 1, 63, 1, 0)>>

\* Pictures: noise and a checkerboard of the extremes; noise, a single dot and all
\* white; and gradients in colours.
Gray(w, F(_, _)) ==
  [pixels |-> [y \in 1 .. 8 |-> [x \in 1 .. w |-> <<F(x, y)>>]], in_color_space |-> "grayscale",
   jpeg_color_space |-> "grayscale", sampling |-> <<<<1, 1>>>>, smoothing_factor |-> 0, roughness |-> 0]
Noise(x, y) == LET k == (8 * (y - 1)) + x IN ((13 * k * k) + (5 * k)) % 256
Checkers(x, y) == IF x > 8 THEN IF (x + y) % 2 = 0 THEN 0 ELSE 255 ELSE Noise(x, y)
DotAndWhite(x, y) == IF x > 16 THEN 255 ELSE IF x > 8 THEN IF <<x, y>> = <<12, 3>> THEN 255 ELSE 0 ELSE Noise(x, y)

Gradient(x, y) == <<20 + (9 * x) + (3 * y), 230 - (5 * x) - (4 * y), 40 + (2 * x) + (8 * y), 100 - x + y>>
Colored(w, h, in, jpeg, sampling, smoothing, roughness) ==
  [pixels |-> [y \in 1 .. h |-> [x \in 1 .. w |-> SubSeq(Gradient(x, y), 1, Len(sampling))]],
   in_color_space |-> in, jpeg_color_space |-> jpeg, sampling |-> sampling,
   smoothing_factor |-> smoothing, roughness |-> roughness]
Chroma11(h, v) == <<<<h, v>>, <<1, 1>>, <<1, 1>>>>
OneEach(n) == [c \in 1 .. n |-> <<1, 1>>]

\* The blocks of an MCU, component after component.
MCUOf(sampling) == FlattenSeq([c \in DOMAIN sampling |-> [b \in 1 .. sampling[c][1] * sampling[c][2] |-> c]])
Uniform(q) == [k \in 1 .. 64 |-> q]
PictureJob(p, method, q) ==
  [picture |-> p, samples |-> Preprocessed(p), sampling |-> p.sampling, quantval |-> Uniform(q), method |-> method,
   coefs |-> <<>>, script |-> <<Baseline(MCUOf(p.sampling))>>, interval |-> 0, progressive |-> FALSE, optimize |-> TRUE,
   earlier |-> NoCounts, dc |-> DOMAIN p.sampling, ac |-> DOMAIN p.sampling, faults |-> {}]

PictureJobs ==
  {PictureJob(Gray(16, Checkers), "islow", 1), PictureJob(Gray(24, DotAndWhite), "ifast", 40),
   PictureJob(Colored(4, 3, "CMYK", "YCCK", OneEach(4), 0, 5), "islow", 2),
   PictureJob(Colored(15, 15, "RGB", "YCbCr", Chroma11(2, 2), 0, 5), "islow", 2),
   PictureJob(Colored(16, 13, "RGB", "YCbCr", Chroma11(2, 2), 50, 5), "islow", 4),
   PictureJob(Colored(15, 5, "RGB", "YCbCr", Chroma11(2, 1), 30, 5), "islow", 2),
   PictureJob(Colored(6, 15, "RGB", "YCbCr", Chroma11(1, 2), 0, 5), "islow", 2)}

\* Too many colours, too few, as many as come out even, and not.
Request(components, rgb, desired, w) == [components |-> components, rgb |-> rgb, desired |-> desired, width |-> w]
MCRequests ==
  {Request(1, FALSE, n, 2) : n \in {1, 2, 5, 257}} \union {Request(1, FALSE, 3, 8)}
  \union {Request(3, TRUE, n, w) : n \in {7, 13, 256}, w \in {2}} \union {Request(3, TRUE, 12, 4)}
  \union {Request(4, FALSE, 16, w) : w \in {2, 4}}

MCJobs ==
  PictureJobs
  \union
  {[samples |-> <<>>, coefs |-> Colours, script |-> <<Baseline(<<1, 1, 2>>)>>, interval |-> 0, progressive |-> FALSE,
    optimize |-> TRUE, earlier |-> NoCounts, dc |-> {1, 2}, ac |-> ac, faults |-> {}] : ac \in {{1}, {1, 2}}}
  \union
  {[samples |-> <<>>, coefs |-> Grays, script |-> <<Baseline(<<1>>)>>, interval |-> 1, progressive |-> FALSE,
    optimize |-> FALSE, earlier |-> FromEarlier, dc |-> {1}, ac |-> {1}, faults |-> {"damaged", "cut"}]}
  \union
  {[samples |-> <<>>, coefs |-> Refined, script |-> Progression, interval |-> interval, progressive |-> TRUE,
    optimize |-> TRUE, earlier |-> NoCounts, dc |-> {1, 2}, ac |-> {1, 2},
    faults |-> IF interval = 0 THEN {} ELSE {"damaged", "cut"}] : interval \in {0, 2}}
=============================================================================
