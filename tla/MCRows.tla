------------------------------- MODULE MCRows -------------------------------
(***************************************************************************)
(* Images for OutputController: every upsampling method, one to three iMCU *)
(* rows with a last one that is not full, baseline and progressive scans.  *)
(***************************************************************************)
EXTENDS OutputController

Interleaved(n) == <<[comps |-> 1 .. n, dc |-> TRUE]>>
Image(height, width, comps) ==
  [height |-> height, width |-> width, comps |-> comps, ycc |-> Len(comps) = 3,
   scans |-> Interleaved(Len(comps)), progressive |-> FALSE, zero_quantizer |-> FALSE]
HV(h, v) == [h |-> h, v |-> v]

Gray(height)  == Image(height, 9, <<HV(1, 1)>>)
Tall(height)  == Image(height, 9, <<HV(1, 2)>>)
H2v2(height)  == Image(height, 17, <<HV(2, 2), HV(1, 1), HV(1, 1)>>)
H2v1(height)  == Image(height, 17, <<HV(2, 1), HV(1, 1), HV(1, 1)>>)
H1v2(height)  == Image(height, 9, <<HV(1, 2), HV(1, 1)>>)
H4v4(height)  == Image(height, 33, <<HV(4, 4), HV(1, 1), HV(4, 4)>>)
Fraction      == Image(8, 9, <<HV(3, 2), HV(2, 2), HV(1, 1)>>)
BadRatio      == Image(8, 9, <<HV(1, 3), HV(1, 2)>>)

Scan(comps, dc) == [comps |-> comps, dc |-> dc]
Baseline2 == [Image(34, 9, <<HV(1, 2), HV(1, 1)>>) EXCEPT !.scans = <<Scan({1}, TRUE), Scan({2}, TRUE)>>]
Progressive(height) ==
  [Image(height, 9, <<HV(1, 1), HV(1, 1)>>) EXCEPT
     !.scans = <<Scan({1, 2}, TRUE), Scan({1}, FALSE), Scan({2}, FALSE)>>, !.progressive = TRUE]

Par == [denom |-> 1, fancy |-> TRUE, out |-> "rgb", quantize |-> FALSE, two_pass |-> TRUE,
        colormap |-> FALSE, enabled |-> {}, raw |-> FALSE, buffered |-> FALSE, smoothing |-> TRUE,
        suspends |-> FALSE, transcode |-> FALSE]

Scaled(k)   == [Par EXCEPT !.denom = k]
Plain       == [Par EXCEPT !.fancy = FALSE]
GrayOut     == [Par EXCEPT !.out = "gray"]
OnePass     == [Par EXCEPT !.quantize = TRUE, !.two_pass = FALSE]
TwoPass     == [Par EXCEPT !.quantize = TRUE]
External    == [Par EXCEPT !.quantize = TRUE, !.colormap = TRUE]
Raw         == [Par EXCEPT !.raw = TRUE]
Buffered    == [Par EXCEPT !.buffered = TRUE]
Transcode   == [Buffered EXCEPT !.transcode = TRUE]
AllQuants   == {"1pass", "2pass", "external"}
BufferedTwo == [TwoPass EXCEPT !.buffered = TRUE, !.enabled = AllQuants]
Suspending(p) == [p EXCEPT !.suspends = TRUE]

Colours == {H2v2(h) : h \in {1, 2, 15, 16, 17, 31, 33}}

MCInputs ==
  (Colours \X {Par, Plain, GrayOut})
    \union ({H2v2(17), H2v2(18)} \X {OnePass, TwoPass, External, [TwoPass EXCEPT !.fancy = FALSE],
                                     [OnePass EXCEPT !.fancy = FALSE], Scaled(2), Raw})
    \union ({Gray(9), Tall(17), H2v1(17), H1v2(17)} \X {Par, Plain, TwoPass, Raw, Scaled(8), Scaled(4)})
    \union ({H4v4(37)} \X {Par, Scaled(2), Scaled(4), [Scaled(8) EXCEPT !.quantize = TRUE, !.two_pass = FALSE]})
    \union ({Fraction, BadRatio} \X {Par}) \union ({H2v2(1)} \X {[Raw EXCEPT !.quantize = TRUE]})
    \union ({H2v2(34), Tall(17)} \X {Suspending(Par)})
    \union ({H2v2(17)} \X {Suspending(TwoPass), Suspending(Plain), Suspending(Raw)})
    \union ({Baseline2} \X {Par, Suspending(Par), [Transcode EXCEPT !.suspends = TRUE]})
    \union ({Progressive(17)} \X {[Buffered EXCEPT !.denom = 8], [Buffered EXCEPT !.denom = 4],
                                  [Buffered EXCEPT !.denom = 8, !.suspends = TRUE]})
    \union ({[Progressive(9) EXCEPT !.zero_quantizer = TRUE]} \X {Par, Transcode})
    \union ({H2v2(17)} \X {BufferedTwo, [BufferedTwo EXCEPT !.colormap = TRUE],
                           [BufferedTwo EXCEPT !.two_pass = FALSE]})
    \union ({Gray(9)} \X {[BufferedTwo EXCEPT !.out = "gray"]})

\* Strips of four rows, the last one of which is not full.
BottomInputs == {H4v4(7)} \X {TwoPass}
=============================================================================
