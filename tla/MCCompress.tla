----------------------------- MODULE MCCompress -----------------------------
(***************************************************************************)
(* Sessions for CompressController: every downsampling method, one to      *)
(* three iMCU rows with a last one that is not full, one and several       *)
(* scans, and files whose tables were sent before.                         *)
(***************************************************************************)
EXTENDS CompressController

Par == [in_space |-> "rgb", input_components |-> 3, space |-> jpeg_default_colorspace("rgb"), factors |-> <<>>,
        height |-> 17, width |-> 9, quality |-> 75, force |-> TRUE, script |-> "none", scans |-> <<>>,
        optimize |-> FALSE, raw |-> FALSE, smoothing |-> FALSE, restart_in_rows |-> 0, restart_interval |-> 0,
        suspends |-> FALSE, transcode |-> FALSE]

Image(p) == [par |-> p, set |-> TRUE, call |-> "image", all |-> TRUE, comment |-> FALSE, early |-> FALSE]
Tables(p) == [Image(p) EXCEPT !.call = "tables"]
Coefficients(p) == [Image([p EXCEPT !.transcode = TRUE]) EXCEPT !.call = "coefficients"]
Abbreviated(step) == [step EXCEPT !.all = FALSE]
Again(step) == [step EXCEPT !.set = FALSE]
Commented(step) == [step EXCEPT !.comment = TRUE]
GivenUp(step) == [step EXCEPT !.early = TRUE]

Gray(height) == [Par EXCEPT !.in_space = "gray", !.input_components = 1, !.space = jpeg_default_colorspace("gray"), !.height = height]
Colour(height) == [Par EXCEPT !.height = height]
H2v1(height) == [Colour(height) EXCEPT !.factors = <<<<2, 1>>>>]
H1v2(height) == [Colour(height) EXCEPT !.factors = <<<<1, 2>>>>]
CMYK(height) == [Par EXCEPT !.in_space = "cmyk", !.input_components = 4, !.space = "ycck", !.height = height]
Five == [Gray(8) EXCEPT !.in_space = "unknown", !.space = "unknown", !.input_components = 5]
Fraction == [Colour(8) EXCEPT !.factors = <<<<3, 2>>, <<2, 2>>>>]
Large == [Colour(8) EXCEPT !.factors = <<<<4, 4>>>>]

Smooth(p) == [p EXCEPT !.smoothing = TRUE]
Raw(p) == [p EXCEPT !.raw = TRUE]
Waits(p) == [p EXCEPT !.suspends = TRUE]
Optimized(p) == [p EXCEPT !.optimize = TRUE]
Progressive(p) == [p EXCEPT !.script = "simple"]
Restarts(p) == [p EXCEPT !.restart_in_rows = 1]
Own(p, scans) == [p EXCEPT !.script = "own", !.scans = scans]
ByComponent == <<Scan(<<1>>, 0, 63, 0, 0), Scan(<<2, 3>>, 0, 63, 0, 0)>>
DCOnly == <<Scan(<<1, 2, 3>>, 0, 0, 0, 0)>>
Low(p) == [p EXCEPT !.quality = 3, !.force = FALSE]

Single(parameters) == {<<Image(p)>> : p \in parameters}

Downsampling ==
  {Colour(h) : h \in {1, 2, 15, 16, 17, 18, 33}}
    \union {Smooth(Colour(h)) : h \in {1, 2, 4, 16, 17, 18, 33}}
    \union {Gray(9), Smooth(Gray(9)), Smooth(Gray(17)), H2v1(9), Smooth(H2v1(9)), H1v2(17), CMYK(18)}
Waiting ==
  {Waits(p) : p \in {Colour(17), Smooth(Colour(17)), Colour(33), Gray(17), Raw(Colour(17)), Restarts(Colour(17)),
                     Own(Colour(17), ByComponent), Smooth(H2v1(9))}}
Passes ==
  {Optimized(Colour(17)), Own(Colour(17), ByComponent), Optimized(Own(Colour(33), ByComponent)),
   Restarts(Optimized(Own(Colour(17), ByComponent))), Progressive(Gray(9)), Progressive(Colour(8)),
   Restarts(Progressive(Colour(17))), Own(Colour(8), DCOnly), Raw(Optimized(Colour(17))), Waits(Progressive(Gray(8)))}
Refused ==
  {Five, Fraction, Large, [Colour(8) EXCEPT !.space = "gray", !.in_space = "cmyk"], Own(Colour(8), <<>>),
   Own(Large, ByComponent), [Par EXCEPT !.height = 0]}

Sequences ==
  LET g == Gray(8)
  IN  { <<Commented(Image(g)), Again(Abbreviated(Image(Gray(9))))>>,
        <<Tables(g), Again(Abbreviated(Image(g))), Again(Image(g))>>,
        <<Image(Optimized(g)), Again(Abbreviated(Image(Optimized(g)))), Tables(Low(g)), Again(Abbreviated(Image(Low(g))))>>,
        <<Image(g), Abbreviated(Image(Low(g)))>>,
        <<GivenUp(Image(Waits(Gray(17)))), Again(Image(Colour(8)))>>,
        <<Commented(Coefficients(Progressive(Colour(8)))), Coefficients(Colour(17)), Again(Coefficients(Optimized(H1v2(8))))>>,
        <<Image(g), Abbreviated(Image(Restarts(Low(Colour(8))))), Again(Tables(Low(Colour(8))))>> }

MCSessions == Single(Downsampling \union Waiting \union Passes \union Refused) \union Sequences
=============================================================================
