---------------------------- MODULE StreamProofs ----------------------------
(***************************************************************************)
(* Proofs about the reading of a JPEG file, for every set of files, right  *)
(* or damaged, and every source of their bytes: the rows that are decoded  *)
(* for the output, and the comments that are saved.                        *)
(***************************************************************************)
EXTENDS InputController, NumberProofs, SequenceTheorems

(***************************************************************************)
(* The inductive invariant.  Only the output side and the scan and row of  *)
(* the input take part; where the reader is in the file does not matter.   *)
(***************************************************************************)

CountersOK ==
  /\ input_scan_number \in Nat /\ output_scan_number \in Nat
  /\ input_iMCU_row \in Nat /\ output_iMCU_row \in Nat

\* Output passes that the application starts are passes over a full buffer.
CallsFit ==
  /\ global_state \in {"BUFIMAGE", "BUFPOST"} => buffered_image
  /\ global_state = "PRELOAD" => ~ buffered_image
  /\ call = "finish_output" => global_state = "BUFPOST"

\* A new scan begins with its row 0: it must not be the scan that is output.
NewScanIsLater ==
  result = "REACHED_SOS" /\ global_state = "SCANNING" =>
    output_iMCU_row = 0 \/ input_scan_number > output_scan_number

OnePass == global_state = "SCANNING" /\ ~ FullBuffer

\* The only scan of the file is started, and nothing is read of it yet.
OnePassStarts ==
  global_state = "PRELOAD" /\ ~ has_multiple_scans =>
    /\ call = "start" /\ at = "idle" /\ result = "none"
    /\ consume_input = "data" /\ input_iMCU_row = 0

\* Inside the call that outputs the next row, the row is being decoded.
RowUnderWay ==
  /\ call = "read"
  /\ input_iMCU_row = output_iMCU_row
  /\ input_iMCU_row < total_iMCU_rows

OnePassGoesOn ==
  OnePass =>
    /\ input_scan_number = output_scan_number
    /\ input_iMCU_row < total_iMCU_rows => consume_input = "data"
    /\ \/ at \in {"data", "restart"} /\ result = "none" /\ RowUnderWay
       \/ at = "idle" /\ result \in {"none", "RESTARTED"} /\ RowUnderWay
       \/ /\ at = "idle" /\ result = "SUSPENDED"
          /\ call \in {"none", "read"} /\ input_iMCU_row = output_iMCU_row
       \/ /\ at = "idle" /\ result = "none"
          /\ call = "read" /\ input_iMCU_row = output_iMCU_row + 1
       \/ /\ at = "idle" /\ result = "none"
          /\ call = "none" /\ input_iMCU_row = output_iMCU_row

RowsInv ==
  /\ CountersOK
  /\ CallsFit
  /\ NewScanIsLater
  /\ OnePassStarts
  /\ OnePassGoesOn
  /\ RowsReadBeforeOutput

(***************************************************************************)
(* What a step of the marker reader does to the scan and the result.       *)
(***************************************************************************)

\* A handler of read_markers counts a scan when it returns that one begins.
LEMMA MarkersCountScans ==
  ASSUME ReadMarkers
  PROVE  /\ at = "markers"
         /\ \/ /\ input_scan_number' = input_scan_number
               /\ result' \in {result, "none", "SUSPENDED", "REACHED_EOI"}
            \/ /\ input_scan_number' = input_scan_number + 1
               /\ result' = "REACHED_SOS"
<1>1. CASE LookForMarker \/ FirstMarker
  BY <1>1 DEF LookForMarker, FirstMarker, Return, Fails, headerVars
<1>2. CASE BadMarker \/ MarkerSuspends
  BY <1>2 DEF BadMarker, MarkerSuspends, Return, Fails, headerVars
<1>3. CASE GetSoi \/ GetSof
  BY <1>3 DEF GetSoi, GetSof, Handled, Continues
<1>4. CASE GetSos
  BY <1>4 DEF GetSos, Handled, Return
<1>5. CASE ReachEoi
  BY <1>5 DEF ReachEoi, Handled, Return, headerVars
<1>6. CASE GetDht \/ GetDqt \/ GetDri
  BY <1>6 DEF GetDht, GetDqt, GetDri, Handled, Continues
<1>7. CASE GetInterestingAppn \/ SkipVariable \/ Parameterless
  BY <1>7 DEF GetInterestingAppn, SkipVariable, Parameterless, Handled, Continues, headerVars
<1>8. CASE SaveMarker
  BY <1>8 DEF SaveMarker, Continues, Return, headerVars
<1>9. QED
  BY <1>1, <1>2, <1>3, <1>4, <1>5, <1>6, <1>7, <1>8 DEF ReadMarkers

\* read_restart_marker only returns that it is done, or that bytes are missing.
LEMMA RestartsKeepScan ==
  ASSUME ReadRestartMarker
  PROVE  /\ at = "restart"
         /\ UNCHANGED <<input_scan_number, frame>>
         /\ \/ UNCHANGED <<at, result>>
            \/ at' = "idle" /\ result' \in {"SUSPENDED", "RESTARTED"}
BY DEF ReadRestartMarker, AcceptRestart, LeaveRestart, ScanToRestart, Return, headerVars

\* The number of iMCU rows is a matter of the frame.
LEMMA RowsOfFrame ==
  ASSUME UNCHANGED frame
  PROVE  total_iMCU_rows' = total_iMCU_rows
BY DEF total_iMCU_rows, max_v_samp_factor

LEMMA InitRows == Init => RowsInv
BY DEF Init, ReaderInit, RowsInv, CountersOK, CallsFit, NewScanIsLater, OnePassStarts,
       OnePassGoesOn, OnePass, RowsReadBeforeOutput

(***************************************************************************)
(* Every step keeps the invariant.                                         *)
(***************************************************************************)

\* The calls, which only the application makes between steps of the library.
LEMMA CallsKeepRows ==
  ASSUME RowsInv,
         ReadHeader \/ StartDecompress \/ StartDecompressAgain \/ StartOutput \/ ReadRow
           \/ FinishOutput \/ FinishDecompress
  PROVE  RowsInv'
<1> USE DEF RowsInv, CountersOK, CallsFit, NewScanIsLater, OnePassStarts, OnePassGoesOn, OnePass,
            RowUnderWay, RowsReadBeforeOutput, FullBuffer, Calls, Ready
<1>1. CASE ReadHeader
  BY <1>1 DEF ReadHeader, ResetInput, headerVars, coefVars, outputVars
<1>2. CASE StartDecompress
  BY <1>2 DEF StartDecompress, StartInputPass, Fails, headerVars, coefVars, outputVars
<1>3. CASE StartDecompressAgain
  BY <1>3 DEF StartDecompressAgain, Keeps, headerVars, coefVars, outputVars
<1>4. CASE StartOutput
  BY <1>4, MaxScanNumberAssumption DEF StartOutput, Keeps, headerVars, coefVars
<1>5. CASE ReadRow
  <2>1. UNCHANGED frame
    BY <1>5 DEF ReadRow, Keeps, headerVars
  <2>2. QED
    BY <1>5, <2>1, RowsOfFrame DEF ReadRow, Keeps, headerVars, coefVars, outputVars
<1>6. CASE FinishOutput
  BY <1>6 DEF FinishOutput, Keeps, headerVars, coefVars, outputVars
<1>7. CASE FinishDecompress
  BY <1>7 DEF FinishDecompress, Keeps, headerVars, coefVars, outputVars
<1>8. QED
  BY <1>1, <1>2, <1>3, <1>4, <1>5, <1>6, <1>7

\* Inside a call: the marker reader, the controller and the decoder.
LEMMA ConsumingKeepsRows ==
  ASSUME RowsInv,
         \/ Consume \/ CallSuspends
         \/ (ReadMarkers \/ ReadRestartMarker)
              /\ UNCHANGED <<controlVars, entropyVars, coefVars, outputVars>>
         \/ ReachedFirstSos \/ ReachedSos \/ ReachedEoi \/ TablesOnly
         \/ BeginRestart \/ EndRestart \/ DecodeMcu \/ EndOfRow
  PROVE  RowsInv'
<1> USE DEF RowsInv, CountersOK, CallsFit, NewScanIsLater, OnePassStarts, OnePassGoesOn, OnePass,
            RowUnderWay, RowsReadBeforeOutput, FullBuffer
<1>1. CASE Consume
  <2>1. UNCHANGED <<frame, input_scan_number, controlVars, coefVars, outputVars>>
    BY <1>1 DEF Consume, headerVars
  <2>2. QED
    BY <1>1, <2>1, RowsOfFrame DEF Consume, Wants, controlVars, coefVars, outputVars
<1>2. CASE CallSuspends
  <2>1. UNCHANGED <<frame, input_scan_number, at, result>>
    BY <1>2 DEF CallSuspends, readerVars, headerVars
  <2>2. QED
    BY <1>2, <2>1, RowsOfFrame DEF CallSuspends, coefVars, outputVars
<1>3. CASE ReadMarkers /\ UNCHANGED <<controlVars, entropyVars, coefVars, outputVars>>
  BY <1>3, MarkersCountScans DEF controlVars, coefVars, outputVars
<1>4. CASE ReadRestartMarker /\ UNCHANGED <<controlVars, entropyVars, coefVars, outputVars>>
  BY <1>4, RestartsKeepScan, RowsOfFrame DEF controlVars, coefVars, outputVars
<1>5. CASE ReachedFirstSos
  BY <1>5 DEF ReachedFirstSos, Fails, headerVars, coefVars, outputVars
<1>6. CASE ReachedSos
  BY <1>6 DEF ReachedSos, StartInputPass, Fails, headerVars, coefVars, outputVars
<1>7. CASE ReachedEoi
  BY <1>7 DEF ReachedEoi, headerVars, coefVars
<1>8. CASE TablesOnly
  BY <1>8 DEF TablesOnly, Fails, headerVars, coefVars, outputVars
<1>9. CASE BeginRestart
  <2>1. UNCHANGED <<frame, input_scan_number, result, controlVars, coefVars, outputVars>>
    BY <1>9 DEF BeginRestart, headerVars
  <2>2. QED
    BY <1>9, <2>1, RowsOfFrame DEF BeginRestart, controlVars, coefVars, outputVars
<1>10. CASE EndRestart
  <2>1. UNCHANGED <<frame, input_scan_number, controlVars, coefVars, outputVars>>
    BY <1>10 DEF EndRestart, headerVars
  <2>2. QED
    BY <1>10, <2>1, RowsOfFrame DEF EndRestart, controlVars, coefVars, outputVars
<1>11. CASE DecodeMcu
  <2>1. /\ UNCHANGED <<frame, input_scan_number, input_iMCU_row, controlVars, outputVars>>
        /\ \/ UNCHANGED <<at, result>>
           \/ at' = "idle" /\ result' = "SUSPENDED"
    BY <1>11 DEF DecodeMcu, Deliver, Return, headerVars, coefVars
  <2>2. QED
    BY <1>11, <2>1, RowsOfFrame DEF DecodeMcu, controlVars, outputVars
<1>12. CASE EndOfRow
  <2>1. UNCHANGED <<frame, input_scan_number>>
    BY <1>12 DEF EndOfRow, headerVars
  <2>2. QED
    BY <1>12, <2>1, RowsOfFrame DEF EndOfRow, MoreRows, outputVars
<1>13. QED
  BY <1>1, <1>2, <1>3, <1>4, <1>5, <1>6, <1>7, <1>8, <1>9, <1>10, <1>11, <1>12

\* The calls return.
LEMMA ReturnsKeepRows ==
  ASSUME RowsInv,
         StartReturns \/ ReadReturns \/ FinishOutputReturns \/ FinishReturns
  PROVE  RowsInv'
<1> USE DEF RowsInv, CountersOK, CallsFit, NewScanIsLater, OnePassStarts, OnePassGoesOn, OnePass,
            RowUnderWay, RowsReadBeforeOutput, FullBuffer, Returns
<1>1. CASE StartReturns
  BY <1>1 DEF StartReturns, Keeps, headerVars, coefVars, outputVars
<1>2. CASE ReadReturns
  <2>1. UNCHANGED <<frame, input_scan_number, has_multiple_scans, at, result, consume_input>>
    BY <1>2 DEF ReadReturns, Keeps, headerVars
  <2>2. QED
    BY <1>2, <2>1, RowsOfFrame DEF ReadReturns, Wants, coefVars
<1>3. CASE FinishOutputReturns
  BY <1>3 DEF FinishOutputReturns, Keeps, headerVars, coefVars, outputVars
<1>4. CASE FinishReturns
  BY <1>4 DEF FinishReturns, headerVars, outputVars
<1>5. QED
  BY <1>1, <1>2, <1>3, <1>4

LEMMA RowsInductive == RowsInv /\ [Next]_vars => RowsInv'
<1> SUFFICES ASSUME RowsInv, [Next]_vars PROVE RowsInv'
  OBVIOUS
<1>1. CASE Application
  <2>1. CASE call = "none" /\ Supply /\ UNCHANGED <<controlVars, entropyVars, coefVars, outputVars>>
    <3>1. UNCHANGED <<frame, input_scan_number, at>> /\ result' = "none" /\ result = "SUSPENDED"
      BY <2>1 DEF Supply, headerVars
    <3>2. QED
      BY <2>1, <3>1, RowsOfFrame
         DEF RowsInv, CountersOK, CallsFit, NewScanIsLater, OnePassStarts, OnePassGoesOn, OnePass,
             RowUnderWay, RowsReadBeforeOutput, FullBuffer, controlVars, coefVars, outputVars
  <2>2. QED
    BY <1>1, <2>1, CallsKeepRows DEF Application
<1>2. CASE Library
  BY <1>2, ConsumingKeepsRows, ReturnsKeepRows DEF Library
<1>3. CASE UNCHANGED vars
  BY <1>3, RowsOfFrame
     DEF RowsInv, CountersOK, CallsFit, NewScanIsLater, OnePassStarts, OnePassGoesOn, OnePass,
         RowUnderWay, RowsReadBeforeOutput, FullBuffer, vars, readerVars, headerVars, controlVars,
         coefVars, outputVars
<1>4. QED
  BY <1>1, <1>2, <1>3 DEF Next

THEOREM RowsInvariant == Spec => []RowsInv
<1>1. QED
  BY InitRows, RowsInductive, PTL DEF Spec

\* No iMCU row gets out before the scan that the application asked for has
\* brought it, however often reading was suspended and whatever the file is:
\* jpeg_read_scanlines and process_data of jdcoefct.c never show a row of
\* coefficients that are still to come.
THEOREM RowsRead == Spec => []RowsReadBeforeOutput
<1>1. RowsInv => RowsReadBeforeOutput
  BY DEF RowsInv
<1>2. QED
  BY <1>1, RowsInvariant, PTL

\* decompress_onepass outputs every row in the call that decodes it, skips and
\* repeats none, and damage in the data of the scan is never an error.
THEOREM RowsInStep == Spec => []OnePassInStep
<1>1. RowsInv => OnePassInStep
  BY DEF RowsInv, OnePassGoesOn, OnePass, RowUnderWay, OnePassInStep
<1>2. QED
  BY <1>1, RowsInvariant, PTL

(***************************************************************************)
(* The segments of a file                                                  *)
(***************************************************************************)

\* What Layout has of a segment.
Segment == [marker : Nat, from : Nat, end : Nat]

\* A file is a sequence of bytes.
LEMMA BytesOfFile ==
  ASSUME NEW f \in Files
  PROVE  f \in Seq(0 .. 255) /\ Len(f) \in Nat /\ \A j \in 1 .. Len(f) : f[j] \in 0 .. 255
<1> DEFINE B == 0 .. 255
<1>1. f \in Seq(B)
  BY FilesAssumption
<1> HIDE DEF B
<1>2. Len(f) \in Nat
  BY <1>1
<1>3. \A j \in 1 .. Len(f) : f[j] \in B
  BY <1>1, <1>2, ElementOfSeq
<1> QED
  BY <1>1, <1>2, <1>3 DEF B

\* What NextSegment finds lies behind p, and nothing that ends a marker is between.
LEMMA NextSegmentFacts ==
  ASSUME NEW f \in Files, NEW p \in Nat
  PROVE  LET g == NextSegment(f, p)
         IN  /\ g \in Segment
             /\ g.marker = 0 => \A k \in p + 2 .. Len(f) : ~ EndsMarkerOf(f, k)
             /\ g.marker # 0 =>
                  /\ g.from \in p + 2 .. Len(f) /\ EndsMarkerOf(f, g.from) /\ g.marker = f[g.from]
                  /\ \A k \in p + 2 .. g.from - 1 : ~ EndsMarkerOf(f, k)
                  /\ g.end = IF g.marker \in Alone \/ g.from + 2 > Len(f) THEN g.from
                             ELSE g.from + (256 * f[g.from + 1]) + f[g.from + 2]
                  /\ g.from <= g.end
<1> DEFINE ends == {k \in p + 2 .. Len(f) : EndsMarkerOf(f, k)}
           k == CHOOSE e \in ends : \A d \in ends : e <= d
           g == NextSegment(f, p)
<1>1. f \in Seq(0 .. 255) /\ Len(f) \in Nat /\ \A j \in 1 .. Len(f) : f[j] \in 0 .. 255
  BY BytesOfFile
<1>2. CASE ends = {}
  <2>1. g = [marker |-> 0, from |-> 0, end |-> 0]
    BY <1>2 DEF NextSegment
  <2> QED
    BY <1>2, <2>1 DEF Segment
<1>3. CASE ends # {}
  <2>1. k \in ends /\ \A d \in ends : k <= d
    <3>1. ends \in SUBSET Nat
      BY <1>1
    <3> HIDE DEF ends
    <3> QED
      BY <1>3, <3>1, LeastExists
  <2> DEFINE end == IF f[k] \in Alone \/ k + 2 > Len(f) THEN k ELSE k + (256 * f[k + 1]) + f[k + 2]
  <2>2. g = [marker |-> f[k], from |-> k, end |-> end]
    BY <1>3 DEF NextSegment
  <2> HIDE DEF k
  <2>3. k \in p + 2 .. Len(f) /\ EndsMarkerOf(f, k) /\ k \in Nat /\ f[k] \in 0 .. 255
    BY <1>1, <2>1
  <2>4. end \in Nat /\ k <= end
    <3>1. CASE f[k] \in Alone \/ k + 2 > Len(f)
      BY <2>3, <3>1
    <3>2. CASE ~ (f[k] \in Alone \/ k + 2 > Len(f))
      <4>1. f[k + 1] \in 0 .. 255 /\ f[k + 2] \in 0 .. 255
        BY <1>1, <2>3, <3>2
      <4>2. end = k + (256 * f[k + 1]) + f[k + 2]
        BY <3>2
      <4> DEFINE a == f[k + 1]
                 b == f[k + 2]
      <4>3. a \in Nat /\ b \in Nat
        BY <4>1
      <4>4. end = k + (256 * a) + b
        <5> HIDE DEF end
        <5> QED
          BY <4>2
      <4> HIDE DEF end, a, b
      <4> QED
        BY <2>3, <4>3, <4>4
    <3> QED
      BY <3>1, <3>2
  <2>5. f[k] # 0
    BY <2>3 DEF EndsMarkerOf
  <2>6. \A j \in p + 2 .. k - 1 : ~ EndsMarkerOf(f, j)
    BY <1>1, <2>1, <2>3
  <2>7. g.marker = f[k] /\ g.from = k /\ g.end = end /\ g \in Segment
    <3> HIDE DEF g, end
    <3>1. g.marker = f[k] /\ g.from = k /\ g.end = end
      BY <2>2
    <3>2. f[k] \in Nat
      <4> DEFINE m == f[k]
      <4>1. m \in 0 .. 255
        BY <2>3
      <4> HIDE DEF m
      <4>2. m \in Nat
        BY <4>1
      <4> QED
        BY <4>2 DEF m
    <3> QED
      BY <2>2, <2>3, <2>4, <3>1, <3>2 DEF Segment
  <2>8. g.end = IF g.marker \in Alone \/ g.from + 2 > Len(f) THEN g.from
                ELSE g.from + (256 * f[g.from + 1]) + f[g.from + 2]
    BY <2>7
  <2> HIDE DEF g, end
  <2>9. g.marker # 0 /\ g.from \in p + 2 .. Len(f) /\ EndsMarkerOf(f, g.from) /\ g.marker = f[g.from]
        /\ (\A j \in p + 2 .. g.from - 1 : ~ EndsMarkerOf(f, j)) /\ g.from <= g.end
    BY <2>3, <2>4, <2>5, <2>6, <2>7
  <2> QED
    BY <2>7, <2>8, <2>9 DEF g
<1> QED
  BY <1>2, <1>3

\* s is all segments of f behind p.
IsChain(f, s, p) ==
  /\ s \in Seq(Segment)
  /\ \A i \in 1 .. Len(s) : s[i].marker # 0 /\ s[i] = NextSegment(f, IF i = 1 THEN p ELSE s[i - 1].end)
  /\ LET e == IF Len(s) = 0 THEN p ELSE s[Len(s)].end
     IN  e > Len(f) \/ NextSegment(f, e).marker = 0

\* One segment is a chain.
LEMMA ChainOfOne ==
  ASSUME NEW f \in Files, NEW p \in Nat, NEW t, NEW g, g = NextSegment(f, p), g.marker # 0,
         IF g.end <= Len(f) THEN IsChain(f, t, g.end) ELSE t = <<>>
  PROVE  IsChain(f, <<g>> \o t, p)
<1> DEFINE s == <<g>> \o t
<1>1. g \in Segment /\ Len(f) \in Nat /\ g.end \in Nat
  <2>1. g \in Segment
    BY NextSegmentFacts
  <2> QED
    BY <2>1, BytesOfFile DEF Segment
<1>2. t \in Seq(Segment)
  <2>1. CASE g.end <= Len(f)
    BY <2>1 DEF IsChain
  <2>2. CASE ~ (g.end <= Len(f))
    BY <2>2
  <2> QED
    BY <2>1, <2>2
<1>3. s \in Seq(Segment) /\ Len(s) = 1 + Len(t) /\ Len(t) \in Nat /\ s[1] = g
      /\ \A i \in 2 .. Len(s) : s[i] = t[i - 1]
  BY <1>1, <1>2
<1> HIDE DEF s
<1>4. ASSUME NEW i \in 1 .. Len(s)
      PROVE  s[i].marker # 0 /\ s[i] = NextSegment(f, IF i = 1 THEN p ELSE s[i - 1].end)
  <2>1. CASE i = 1
    BY <1>3, <2>1
  <2>2. CASE i # 1
    <3>1. i - 1 \in 1 .. Len(t) /\ s[i] = t[i - 1] /\ i \in 2 .. Len(s)
      BY <1>3, <2>2
    <3>2. g.end <= Len(f) /\ IsChain(f, t, g.end)
      BY <3>1
    <3>3. t[i - 1].marker # 0 /\ t[i - 1] = NextSegment(f, IF i - 1 = 1 THEN g.end ELSE t[(i - 1) - 1].end)
      BY <3>1, <3>2 DEF IsChain
    <3>4. s[i - 1].end = IF i - 1 = 1 THEN g.end ELSE t[(i - 1) - 1].end
      <4>1. CASE i = 2
        BY <1>3, <4>1
      <4>2. CASE i # 2
        <5>1. i - 1 \in 2 .. Len(s)
          BY <2>2, <4>2
        <5> QED
          BY <1>3, <4>2, <5>1
      <4> QED
        BY <4>1, <4>2
    <3> QED
      BY <2>2, <3>1, <3>3, <3>4
  <2> QED
    BY <2>1, <2>2
<1>5. LET e == IF Len(s) = 0 THEN p ELSE s[Len(s)].end
      IN  e > Len(f) \/ NextSegment(f, e).marker = 0
  <2>1. Len(s) # 0
    BY <1>3
  <2>2. CASE Len(t) = 0
    <3>1. s[Len(s)] = g
      BY <1>3, <2>2
    <3>2. CASE g.end <= Len(f)
      BY <2>1, <2>2, <3>1, <3>2 DEF IsChain
    <3>3. CASE ~ (g.end <= Len(f))
      BY <1>1, <2>1, <3>1, <3>3
    <3> QED
      BY <3>2, <3>3
  <2>3. CASE Len(t) # 0
    <3>1. Len(s) \in 2 .. Len(s) /\ Len(s) - 1 = Len(t)
      BY <1>3, <2>3
    <3>2. s[Len(s)] = t[Len(t)]
      BY <1>3, <3>1
    <3>3. IsChain(f, t, g.end)
      BY <2>3
    <3> QED
      BY <2>1, <2>3, <3>2, <3>3 DEF IsChain
  <2> QED
    BY <2>2, <2>3
<1> QED
  BY <1>3, <1>4, <1>5 DEF s, IsChain

\* Segments(f) is found by going from each segment to the next.
LEMMA SegmentsFacts ==
  ASSUME NEW f \in Files
  PROVE  IsChain(f, Segments(f), 0)
<1> DEFINE N == Len(f)
           S == Seq(Segment)
           none == <<>>
           Body(h, left) == LET g == NextSegment(f, N - left)
                            IN  IF g.marker = 0 THEN <<>>
                                ELSE <<g>> \o (IF g.end <= N THEN h[N - g.end] ELSE <<>>)
           Eq(h) == h = [left \in 0 .. N |-> Body(h, left)]
           G == [left \in 0 .. N |-> [h \in [0 .. N -> S] |-> Body(h, left)]]
           lasts == CHOOSE h : Eq(h)
<1>1. N \in Nat /\ none \in S
  BY FilesAssumption
<1>2. ASSUME NEW left \in 0 .. N, NextSegment(f, N - left).marker # 0
      PROVE  LET g == NextSegment(f, N - left)
             IN  g \in Segment /\ (g.end <= N => N - g.end \in 0 .. left - 1)
  <2> DEFINE p == N - left
             g == NextSegment(f, p)
  <2>1. p \in Nat
    BY <1>1
  <2>2. g \in Segment /\ g.from >= p + 2 /\ g.from <= g.end
    BY <1>2, <2>1, NextSegmentFacts
  <2>3. g.end \in Nat /\ g.from \in Nat
    BY <2>2 DEF Segment
  <2> HIDE DEF g
  <2>4. g.end <= N => N - g.end \in 0 .. left - 1
    BY <1>1, <2>2, <2>3
  <2> QED
    BY <2>2, <2>4 DEF g
<1>3. ASSUME NEW left \in 0 .. N, NEW h \in [0 .. N -> S] PROVE Body(h, left) \in S
  <2> DEFINE g == NextSegment(f, N - left)
  <2>1. CASE g.marker = 0
    BY <2>1
  <2>2. CASE g.marker # 0
    <3>1. g \in Segment /\ (g.end <= N => N - g.end \in 0 .. N)
      BY <1>1, <1>2, <2>2
    <3> DEFINE rest == IF g.end <= N THEN h[N - g.end] ELSE <<>>
    <3>2. rest \in Seq(Segment)
      BY <3>1
    <3>3. Body(h, left) = <<g>> \o rest
      BY <2>2
    <3> HIDE DEF g, rest
    <3> QED
      BY <3>1, <3>2, <3>3
  <2> QED
    BY <2>1, <2>2
<1>4. G \in [0 .. N -> [[0 .. N -> S] -> S]]
  BY <1>3
<1>5. ASSUME NEW n \in 0 .. N, NEW h1 \in [0 .. N -> S], NEW h2 \in [0 .. N -> S],
             \A m \in 0 .. n - 1 : h1[m] = h2[m]
      PROVE  G[n][h1] = G[n][h2]
  <2> DEFINE g == NextSegment(f, N - n)
  <2>1. CASE g.marker = 0
    BY <2>1
  <2>2. CASE g.marker # 0
    <3>1. g.end <= N => h1[N - g.end] = h2[N - g.end]
      BY <1>2, <1>5, <2>2
    <3> QED
      BY <2>2, <3>1
  <2> QED
    BY <2>1, <2>2
<1>6. PICK h \in [0 .. N -> S] : \A n \in 0 .. N : h[n] = G[n][h]
  <2>1. none \in S /\ N \in Nat
    BY <1>1
  <2>2. FromBelow(S, N, G)
    <3> HIDE DEF N, S, none, Body, Eq, lasts
    <3>1. G \in [0 .. N -> [[0 .. N -> S] -> S]]
      BY <1>4
    <3>2. \A n \in 0 .. N : \A h1, h2 \in [0 .. N -> S] :
            (\A m \in 0 .. n - 1 : h1[m] = h2[m]) => G[n][h1] = G[n][h2]
      BY <1>5
    <3> HIDE DEF G
    <3> QED
      BY <3>1, <3>2 DEF FromBelow
  <2> HIDE DEF N, S, G, none, Body, Eq, lasts
  <2> QED
    BY <2>1, <2>2, StrongRecursion
<1>7. Eq(h)
  <2>1. \A n \in 0 .. N : h[n] = Body(h, n)
    BY <1>6
  <2> QED
    BY <2>1
<1>8. Segments(f) = lasts[N]
  BY DEF Segments
<1>9. Eq(lasts)
  <2> HIDE DEF Eq
  <2> QED
    BY <1>7
<1>10. \A left \in 0 .. N : lasts[left] = Body(lasts, left)
  <2> HIDE DEF lasts
  <2> QED
    BY <1>9
<1> HIDE DEF lasts
<1> DEFINE Good == {n \in Nat : \A left \in 0 .. N : left <= n => IsChain(f, lasts[left], N - left)}
<1>11. ASSUME NEW left \in 0 .. N, \A m \in 0 .. left - 1 : IsChain(f, lasts[m], N - m)
       PROVE  IsChain(f, lasts[left], N - left)
  <2> DEFINE p == N - left
             g == NextSegment(f, p)
             rest == IF g.end <= N THEN lasts[N - g.end] ELSE <<>>
  <2>1. p \in Nat
    BY <1>1
  <2>2. CASE g.marker = 0
    <3>1. lasts[left] = <<>>
      BY <1>10, <2>2
    <3> HIDE DEF g
    <3>2. IsChain(f, <<>>, p)
      BY <2>2 DEF IsChain, g
    <3> QED
      BY <3>1, <3>2
  <2>3. CASE g.marker # 0
    <3>1. lasts[left] = <<g>> \o rest
      BY <1>10, <2>3
    <3>2. g \in Segment /\ (g.end <= N => N - g.end \in 0 .. left - 1)
      BY <1>2, <2>3
    <3>3. g.end <= N => IsChain(f, rest, N - (N - g.end))
      BY <1>11, <3>2
    <3>4. N - (N - g.end) = g.end
      BY <1>1, <3>2 DEF Segment
    <3>5. IF g.end <= N THEN IsChain(f, rest, g.end) ELSE rest = <<>>
      BY <3>3, <3>4
    <3> HIDE DEF rest
    <3>6. g = NextSegment(f, p)
      OBVIOUS
    <3> HIDE DEF g, p
    <3>7. IsChain(f, <<g>> \o rest, p)
      BY <2>1, <2>3, <3>5, <3>6, ChainOfOne
    <3> QED
      BY <3>1, <3>7 DEF p
  <2> QED
    BY <2>2, <2>3
<1>12. 0 \in Good
  BY <1>1, <1>11
<1>13. ASSUME NEW n \in Nat, n \in Good PROVE n + 1 \in Good
  <2> SUFFICES ASSUME NEW left \in 0 .. N, left <= n + 1 PROVE IsChain(f, lasts[left], N - left)
    OBVIOUS
  <2>1. \A m \in 0 .. left - 1 : IsChain(f, lasts[m], N - m)
    BY <1>1, <1>13
  <2> QED
    BY <1>11, <2>1
<1>14. N \in Good
  <2> HIDE DEF Good
  <2> QED
    BY <1>1, <1>12, <1>13, NumberInduction
<1>15. IsChain(f, lasts[N], N - N)
  BY <1>1, <1>14
<1> QED
  BY <1>1, <1>8, <1>15

(***************************************************************************)
(* Where the reader is in the file: the inductive invariant of the         *)
(* comments.                                                               *)
(***************************************************************************)

\* What is a number, a byte string or a file.
TypesOK ==
  /\ file \in Files
  /\ pos \in Nat /\ avail \in Nat
  /\ length_limit_COM \in Nat
  /\ unread_marker \in Nat
  /\ next_restart_num \in 0 .. 7
  /\ held \in Seq(Nat)

\* The reader and the decoder take turns, as the method consume_input says.
MethodFits ==
  /\ at \in {"idle", "markers", "data", "restart", "exited"}
  /\ consume_input \in {"markers", "data"}
  /\ at = "markers" => consume_input = "markers"
  /\ at \in {"data", "restart"} => consume_input = "data"
  /\ result = "RESTARTED" => consume_input = "data"
  /\ at # "idle" => result = "none"

\* Between two calls nothing is left of a datastream that is over, and a scan that
\* is announced is not read yet.
CallsRest ==
  /\ global_state = "START" =>
       /\ at = "idle" /\ call = "none" /\ result = "none"
       /\ unread_marker = 0 /\ cur_marker = NoMarker /\ marker_list = <<>>
  /\ global_state = "READY" /\ at # "exited" =>
       /\ at = "idle" /\ call = "none" /\ result = "none"
       /\ cur_marker = NoMarker /\ ~ eoi_reached /\ saw_SOI

\* save_marker is only left for want of bytes.
SavingFits ==
  cur_marker # NoMarker =>
    /\ unread_marker = COM /\ length_limit_COM # 0
    /\ consume_input = "markers"
    /\ cur_marker \in [marker : {COM}, original_length : Nat, data_length : Nat, data : Seq(Nat)]
    /\ Len(cur_marker.data) <= cur_marker.data_length
    /\ cur_marker.data_length <= cur_marker.original_length

\* When the marker reader returns, it has no marker left.
ResultFits ==
  result \in {"REACHED_SOS", "REACHED_EOI"} =>
    /\ unread_marker = 0 /\ cur_marker = NoMarker
    /\ consume_input = "markers" /\ saw_SOI /\ ~ eoi_reached

\* Behind EOI nothing is read any more.
EndFits ==
  eoi_reached =>
    /\ unread_marker = 0 /\ cur_marker = NoMarker
    /\ consume_input = "markers" /\ at # "markers"

\* There is only SOI before a datastream begins.
StartFits ==
  ~ saw_SOI =>
    /\ consume_input = "markers" /\ marker_list = <<>>
    /\ unread_marker \in {0, SOI}

\* These parts alone are inductive; they do not say where the reader is.
TurnsInv == TypesOK /\ MethodFits /\ CallsRest /\ SavingFits /\ ResultFits /\ EndFits /\ StartFits

\* Where the first n segments of f end.
EndOf(f, n) == IF n = 0 THEN 0 ELSE Layout[f][n].end

\* No marker ends behind p that next_marker could find before it has passed q.
Clear(f, p, q) == \A k \in p + 2 .. q + 1 : k <= Len(f) => ~ EndsMarkerOf(f, k)

\* The comments that are to be saved of the first n segments.
Comments(n) ==
  saw_SOI /\ global_state # "START" /\ length_limit_COM > 0 => marker_list = SavedComments(n)

\* n segments are read, and the next one is still to be found.
BehindSegment(n) ==
  /\ unread_marker \in {0} \union Alone /\ cur_marker = NoMarker
  /\ EndOf(file, n) <= pos /\ Clear(file, EndOf(file, n), pos)
  /\ IF unread_marker = SOI THEN n > 0 /\ Layout[file][n].marker = SOI ELSE Comments(n)

\* The marker of the next segment is read.
AtSegment(n) ==
  /\ unread_marker \notin {0} \union Alone /\ cur_marker = NoMarker
  /\ n < Len(Layout[file])
  /\ Layout[file][n + 1].from = pos /\ Layout[file][n + 1].marker = unread_marker
  /\ Comments(n)

\* The next segment is a comment, and a part of it is saved.
InsideSegment(n) ==
  /\ cur_marker # NoMarker
  /\ n < Len(Layout[file])
  /\ LET g == Layout[file][n + 1]
         size == g.end - (g.from + 2)
         most == IF size < length_limit_COM THEN size ELSE length_limit_COM
     IN  /\ g.marker = COM
         /\ pos \in g.from + 2 .. g.from + 1 + most
         /\ cur_marker = [marker |-> COM, original_length |-> size, data_length |-> most,
                          data |-> [j \in 1 .. pos - (g.from + 2) |-> file[g.from + 2 + j]]]
  /\ Comments(n)

\* The reader has passed the first n segments of the file, for some n.
Place == \E n \in 0 .. Len(Layout[file]) : BehindSegment(n) \/ AtSegment(n) \/ InsideSegment(n)

\* Behind the end of the file, and after an error, it does not matter.
PlaceInv == TurnsInv /\ (at # "exited" /\ pos <= Len(file) => Place)

(***************************************************************************)
(* The segments in their order                                             *)
(***************************************************************************)

\* Layout is a chain of segments that ends where no more marker is found.
LEMMA LayoutFacts ==
  ASSUME NEW f \in Files
  PROVE  LET L == Layout[f]
         IN  /\ L \in Seq(Segment) /\ Len(L) \in Nat
             /\ \A n \in 0 .. Len(L) : EndOf(f, n) \in Nat
             /\ \A n \in 1 .. Len(L) : L[n] \in Segment /\ L[n].marker # 0 /\ L[n] = NextSegment(f, EndOf(f, n - 1))
             /\ EndOf(f, Len(L)) > Len(f) \/ NextSegment(f, EndOf(f, Len(L))).marker = 0
<1> DEFINE L == Layout[f]
<1>1. L = Segments(f)
  BY DEF Layout
<1>2. IsChain(f, L, 0)
  BY <1>1, SegmentsFacts
<1> HIDE DEF L
<1>3. L \in Seq(Segment) /\ Len(L) \in Nat
  BY <1>2 DEF IsChain
<1>4. \A n \in 1 .. Len(L) : L[n] \in Segment
  BY <1>3, ElementOfSeq
<1>5. \A n \in 0 .. Len(L) : EndOf(f, n) = IF n = 0 THEN 0 ELSE L[n].end
  BY DEF EndOf, L
<1>6. ASSUME NEW n \in 0 .. Len(L) PROVE EndOf(f, n) \in Nat
  <2>1. CASE n = 0
    BY <1>5, <2>1
  <2>2. CASE n # 0
    <3>1. n \in 1 .. Len(L)
      BY <1>3, <2>2
    <3> QED
      BY <1>4, <1>5, <2>2, <3>1 DEF Segment
  <2> QED
    BY <2>1, <2>2
<1>7. ASSUME NEW n \in 1 .. Len(L) PROVE L[n].marker # 0 /\ L[n] = NextSegment(f, EndOf(f, n - 1))
  <2>1. L[n].marker # 0 /\ L[n] = NextSegment(f, IF n = 1 THEN 0 ELSE L[n - 1].end)
    BY <1>2 DEF IsChain
  <2>2. n - 1 \in 0 .. Len(L)
    BY <1>3
  <2>3. EndOf(f, n - 1) = IF n = 1 THEN 0 ELSE L[n - 1].end
    BY <1>5, <2>2
  <2> QED
    BY <2>1, <2>3
<1>8. EndOf(f, Len(L)) > Len(f) \/ NextSegment(f, EndOf(f, Len(L))).marker = 0
  <2>1. Len(L) \in 0 .. Len(L)
    BY <1>3
  <2>2. EndOf(f, Len(L)) = IF Len(L) = 0 THEN 0 ELSE L[Len(L)].end
    BY <1>5, <2>1
  <2> QED
    BY <1>2, <2>2 DEF IsChain
<1> QED
  BY <1>3, <1>4, <1>6, <1>7, <1>8 DEF L

\* The n-th segment begins behind the one before it, with the first marker that is there.
LEMMA SegmentFacts ==
  ASSUME NEW f \in Files, NEW n \in 1 .. Len(Layout[f])
  PROVE  LET g == Layout[f][n]
             p == EndOf(f, n - 1)
         IN  /\ g.marker \in Nat \ {0} /\ g.from \in Nat /\ g.end \in Nat /\ p \in Nat /\ g.end = EndOf(f, n)
             /\ g.from \in p + 2 .. Len(f) /\ EndsMarkerOf(f, g.from) /\ g.marker = f[g.from]
             /\ g.end = IF g.marker \in Alone \/ g.from + 2 > Len(f) THEN g.from
                        ELSE g.from + (256 * f[g.from + 1]) + f[g.from + 2]
             /\ g.from <= g.end
<1> DEFINE g == Layout[f][n]
           p == EndOf(f, n - 1)
<1>1. Len(Layout[f]) \in Nat
  BY LayoutFacts
<1>2. n - 1 \in 0 .. Len(Layout[f]) /\ n \in Nat /\ n # 0
  BY <1>1
<1>3. p \in Nat /\ g \in Segment /\ g.marker # 0 /\ g = NextSegment(f, p)
  BY <1>2, LayoutFacts
<1>4. g.end = EndOf(f, n)
  BY <1>2 DEF EndOf
<1> HIDE DEF g, p
<1>5. /\ g.from \in p + 2 .. Len(f) /\ EndsMarkerOf(f, g.from) /\ g.marker = f[g.from]
      /\ g.end = IF g.marker \in Alone \/ g.from + 2 > Len(f) THEN g.from
                 ELSE g.from + (256 * f[g.from + 1]) + f[g.from + 2]
      /\ g.from <= g.end
  BY <1>3, NextSegmentFacts
<1>6. g.marker \in Nat /\ g.from \in Nat /\ g.end \in Nat
  BY <1>3 DEF Segment
<1> QED
  BY <1>3, <1>4, <1>5, <1>6 DEF g, p

\* Each segment ends at least two bytes behind the one before it.
LEMMA EndsGrow ==
  ASSUME NEW f \in Files, NEW m \in 0 .. Len(Layout[f]), NEW n \in 0 .. Len(Layout[f]), m < n
  PROVE  EndOf(f, m) + 2 <= EndOf(f, n)
<1> DEFINE N == Len(Layout[f])
           E(k) == EndOf(f, k)
           Good == {k \in Nat : m + k + 1 <= N => E(m) + 2 <= E(m + k + 1)}
<1>1. N \in Nat /\ \A k \in 0 .. N : E(k) \in Nat
  BY LayoutFacts
<1>2. ASSUME NEW k \in 0 .. N, k + 1 <= N PROVE E(k) + 2 <= E(k + 1)
  <2>1. k + 1 \in 1 .. N /\ (k + 1) - 1 = k
    BY <1>1, <1>2
  <2> DEFINE g == Layout[f][k + 1]
  <2>2. g.end = E(k + 1) /\ g.from >= E(k) + 2 /\ g.from <= g.end /\ g.from \in Nat
    BY <2>1, SegmentFacts
  <2>3. E(k) \in Nat /\ E(k + 1) \in Nat
    BY <1>1, <2>1
  <2> HIDE DEF g, E
  <2> QED
    BY <2>2, <2>3
<1> HIDE DEF E
<1>3. 0 \in Good
  BY <1>1, <1>2
<1>4. ASSUME NEW k \in Nat, k \in Good PROVE k + 1 \in Good
  <2> SUFFICES ASSUME m + (k + 1) + 1 <= N PROVE E(m) + 2 <= E(m + (k + 1) + 1)
    OBVIOUS
  <2>1. m + k + 1 \in 0 .. N /\ (m + k + 1) + 1 <= N /\ (m + k + 1) + 1 = m + (k + 1) + 1
    BY <1>1
  <2>2. E(m) + 2 <= E(m + k + 1)
    BY <1>4, <2>1
  <2>3. E(m + k + 1) + 2 <= E(m + (k + 1) + 1)
    BY <1>2, <2>1
  <2>4. E(m) \in Nat /\ E(m + k + 1) \in Nat /\ E(m + (k + 1) + 1) \in Nat
    BY <1>1, <2>1
  <2> QED
    BY <2>2, <2>3, <2>4
<1>5. (n - m) - 1 \in Nat /\ m + ((n - m) - 1) + 1 = n /\ n <= N
  BY <1>1
<1>6. (n - m) - 1 \in Good
  <2> HIDE DEF Good
  <2> QED
    BY <1>3, <1>4, <1>5, NumberInduction
<1> QED
  BY <1>5, <1>6 DEF E

\* The first marker behind n segments begins the next one.
LEMMA NextFound ==
  ASSUME NEW f \in Files, NEW n \in 0 .. Len(Layout[f]), NEW k \in EndOf(f, n) + 2 .. Len(f),
         EndsMarkerOf(f, k), \A j \in EndOf(f, n) + 2 .. k - 1 : ~ EndsMarkerOf(f, j)
  PROVE  n < Len(Layout[f]) /\ n + 1 \in 1 .. Len(Layout[f])
           /\ Layout[f][n + 1].from = k /\ Layout[f][n + 1].marker = f[k]
<1> DEFINE L == Layout[f]
           p == EndOf(f, n)
<1>1. Len(L) \in Nat /\ p \in Nat /\ Len(f) \in Nat
  BY LayoutFacts, BytesOfFile
<1>2. k \in p + 2 .. Len(f) /\ (\A j \in p + 2 .. k - 1 : ~ EndsMarkerOf(f, j))
  OBVIOUS
<1>3. NextSegment(f, p).marker # 0
  BY <1>1, <1>2, NextSegmentFacts
<1>4. n # Len(L)
  <2> SUFFICES ASSUME n = Len(L) PROVE FALSE
    OBVIOUS
  <2>1. p > Len(f) \/ NextSegment(f, p).marker = 0
    BY LayoutFacts
  <2> QED
    BY <1>1, <1>2, <1>3, <2>1
<1>5. n + 1 \in 1 .. Len(L) /\ (n + 1) - 1 = n
  BY <1>1, <1>4
<1> DEFINE g == L[n + 1]
<1>6. g = NextSegment(f, p)
  BY <1>5, LayoutFacts
<1> HIDE DEF g, p
<1>7. /\ g.from \in p + 2 .. Len(f) /\ EndsMarkerOf(f, g.from) /\ g.marker = f[g.from]
      /\ \A j \in p + 2 .. g.from - 1 : ~ EndsMarkerOf(f, j)
  BY <1>1, <1>3, <1>6, NextSegmentFacts
<1>8. g.from = k
  BY <1>1, <1>2, <1>7
<1> QED
  BY <1>5, <1>7, <1>8 DEF g

(***************************************************************************)
(* The comments of the first segments                                      *)
(***************************************************************************)

\* What is left of a comment of a segment after its limit.
CommentOf(g) ==
  LET size == g.end - (g.from + 2)
  IN  [j \in 1 .. (IF size < length_limit_COM THEN size ELSE length_limit_COM) |->
         file[g.from + 2 + j]]

\* The comments with one segment more.
SavedNext(saved, g) ==
  IF g.marker = SOI THEN <<>>
  ELSE IF g.marker # COM \/ g.end - (g.from + 2) < 0 THEN saved
  ELSE Append(saved, CommentOf(g))

\* The function that SavedComments is defined with.
SavedUpto(n) ==
  CHOOSE saved : saved = [k \in 0 .. n |->
    LET g == Layout[file][k]
        size == g.end - (g.from + 2)
    IN  IF k = 0 \/ g.marker = SOI THEN <<>>
        ELSE IF g.marker # COM \/ size < 0 THEN saved[k - 1]
        ELSE Append(saved[k - 1],
                    [j \in 1 .. (IF size < length_limit_COM THEN size ELSE length_limit_COM) |->
                       file[g.from + 2 + j]])]

\* The function behind SavedComments exists, and goes from segment to segment.
LEMMA SavedUptoFacts ==
  ASSUME file \in Files, length_limit_COM \in Nat, NEW n \in 0 .. Len(Layout[file])
  PROVE  /\ SavedComments(n) = SavedUpto(n)[n]
         /\ SavedUpto(n)[0] = <<>>
         /\ \A k \in 1 .. n : SavedUpto(n)[k] = SavedNext(SavedUpto(n)[k - 1], Layout[file][k])
<1> DEFINE V == {file[j] : j \in Nat}
           S == Seq(Seq(V))
           base == <<>>
           L == Layout[file]
           step == [k \in 1 .. n |-> [x \in S |-> SavedNext(x, L[k])]]
           Body(h, k) == IF k = 0 THEN <<>> ELSE SavedNext(h[k - 1], L[k])
           Eq(h) == h = [k \in 0 .. n |-> Body(h, k)]
<1>1. n \in Nat /\ \A k \in 1 .. n : k \in 1 .. Len(L)
  BY LayoutFacts
<1>2. ASSUME NEW k \in 1 .. n, NEW x \in S PROVE SavedNext(x, L[k]) \in S
  <2> DEFINE g == L[k]
             size == g.end - (g.from + 2)
             most == IF size < length_limit_COM THEN size ELSE length_limit_COM
  <2>1. g.from \in Nat /\ g.end \in Nat
    BY <1>1, SegmentFacts
  <2> HIDE DEF g
  <2>2. CASE g.marker = SOI
    BY <2>2 DEF SavedNext, g
  <2>3. CASE g.marker # SOI /\ (g.marker # COM \/ size < 0)
    BY <2>3 DEF SavedNext, g
  <2>4. CASE ~ (g.marker = SOI) /\ ~ (g.marker # COM \/ size < 0)
    <3>1. most \in Nat
      BY <2>1, <2>4
    <3>2. CommentOf(g) = [j \in 1 .. most |-> file[g.from + 2 + j]]
      BY DEF CommentOf
    <3> HIDE DEF most
    <3>3. CommentOf(g) \in [1 .. most -> V]
      <4>1. \A j \in 1 .. most : g.from + 2 + j \in Nat
        BY <2>1, <3>1
      <4>2. \A j \in 1 .. most : file[g.from + 2 + j] \in V
        BY <4>1
      <4> HIDE DEF V
      <4> QED
        BY <3>2, <4>2
    <3>4. CommentOf(g) \in Seq(V)
      <4> HIDE DEF V
      <4> DEFINE c == CommentOf(g)
      <4>1. c \in [1 .. most -> V]
        BY <3>3
      <4> HIDE DEF c
      <4>2. c \in Seq(V)
        BY <3>1, <4>1
      <4> QED
        BY <4>2 DEF c
    <3>5. SavedNext(x, g) = Append(x, CommentOf(g))
      BY <2>4 DEF SavedNext
    <3> HIDE DEF V
    <3> QED
      BY <3>4, <3>5 DEF g
  <2> QED
    BY <2>2, <2>3, <2>4
<1>3. PICK h \in [0 .. n -> S] : h[0] = base /\ \A k \in 1 .. n : h[k] = step[k][h[k - 1]]
  <2>1. base \in S
    OBVIOUS
  <2>2. step \in [1 .. n -> [S -> S]]
    BY <1>2
  <2> DEFINE N == n
  <2>3. N \in Nat /\ step \in [1 .. N -> [S -> S]]
    BY <1>1, <2>2
  <2> HIDE DEF S, base, step, N
  <2>4. \E f \in [0 .. N -> S] : f[0] = base /\ \A k \in 1 .. N : f[k] = step[k][f[k - 1]]
    BY ONLY <2>1, <2>3, Recursion
  <2> QED
    BY <2>4 DEF N
<1>4. Eq(h)
  <2>1. \A k \in 0 .. n : h[k] = Body(h, k)
    <3> TAKE k \in 0 .. n
    <3>1. CASE k = 0
      BY <1>3, <3>1
    <3>2. CASE k # 0
      <4>1. k \in 1 .. n /\ k - 1 \in 0 .. n
        BY <1>1, <3>2
      <4>2. h[k] = step[k][h[k - 1]] /\ h[k - 1] \in S
        BY <1>3, <4>1
      <4> HIDE DEF S
      <4>3. step[k][h[k - 1]] = SavedNext(h[k - 1], L[k])
        BY <4>1, <4>2
      <4> QED
        BY <3>2, <4>2, <4>3
    <3> QED
      BY <3>1, <3>2
  <2> HIDE DEF Body
  <2> QED
    BY <1>3, <2>1
<1>5. SavedUpto(n) = CHOOSE x : Eq(x)
  BY DEF SavedUpto, SavedNext, CommentOf
<1>6. Eq(SavedUpto(n))
  <2> HIDE DEF Eq
  <2> QED
    BY <1>4, <1>5
<1>7. \A k \in 0 .. n : SavedUpto(n)[k] = Body(SavedUpto(n), k)
  <2> HIDE DEF Body
  <2> QED
    BY <1>6
<1>8. SavedComments(n) = SavedUpto(n)[n]
  BY DEF SavedComments, SavedUpto
<1>9. 0 \in 0 .. n /\ \A k \in 1 .. n : k \in 0 .. n /\ k # 0
  BY <1>1
<1> QED
  BY <1>7, <1>8, <1>9

\* One segment more.
LEMMA SavedFacts ==
  ASSUME file \in Files, length_limit_COM \in Nat, NEW n \in 0 .. Len(Layout[file]), n < Len(Layout[file])
  PROVE  SavedComments(n + 1) = SavedNext(SavedComments(n), Layout[file][n + 1])
<1> DEFINE a == SavedUpto(n)
           b == SavedUpto(n + 1)
           L == Layout[file]
<1>1. n \in Nat /\ n + 1 \in 0 .. Len(L)
  BY LayoutFacts
<1>2. /\ SavedComments(n) = a[n] /\ a[0] = <<>>
      /\ \A k \in 1 .. n : a[k] = SavedNext(a[k - 1], L[k])
  BY SavedUptoFacts
<1>3. /\ SavedComments(n + 1) = b[n + 1] /\ b[0] = <<>>
      /\ \A k \in 1 .. n + 1 : b[k] = SavedNext(b[k - 1], L[k])
  BY <1>1, SavedUptoFacts
<1> HIDE DEF a, b, L
<1>4. \A k \in 1 .. n : k \in 1 .. n + 1
  BY <1>1
<1>5. \A k \in 1 .. n : a[k - 1] = b[k - 1] => a[k] = b[k]
  <2> TAKE k \in 1 .. n
  <2>1. a[k] = SavedNext(a[k - 1], L[k]) /\ b[k] = SavedNext(b[k - 1], L[k])
    BY <1>2, <1>3, <1>4
  <2> QED
    BY <2>1
<1>6. \A k \in 0 .. n : a[k] = b[k]
  <2> DEFINE Good == {k \in Nat : k <= n => a[k] = b[k]}
  <2>1. 0 \in Good
    BY <1>2, <1>3
  <2>2. ASSUME NEW k \in Nat, k \in Good PROVE k + 1 \in Good
    <3> SUFFICES ASSUME k + 1 <= n PROVE a[k + 1] = b[k + 1]
      OBVIOUS
    <3>1. k + 1 \in 1 .. n /\ (k + 1) - 1 = k /\ a[k] = b[k]
      BY <1>1, <2>2
    <3> QED
      BY <1>5, <3>1
  <2> HIDE DEF Good
  <2>3. \A k \in Nat : k \in Good
    BY <2>1, <2>2, NumberInduction
  <2> QED
    BY <1>1, <2>3 DEF Good
<1>7. n \in 0 .. n /\ n + 1 \in 1 .. n + 1 /\ (n + 1) - 1 = n
  BY <1>1
<1>8. a[n] = b[n] /\ b[n + 1] = SavedNext(b[n], L[n + 1])
  BY <1>3, <1>6, <1>7
<1> QED
  BY <1>2, <1>3, <1>8 DEF L

\* A new datastream starts without comments.
LEMMA SavedAtSoi ==
  ASSUME file \in Files, length_limit_COM \in Nat, NEW n \in 1 .. Len(Layout[file]),
         Layout[file][n].marker = SOI
  PROVE  SavedComments(n) = <<>>
<1>1. n - 1 \in 0 .. Len(Layout[file]) /\ n - 1 < Len(Layout[file]) /\ (n - 1) + 1 = n
  BY LayoutFacts
<1> DEFINE m == n - 1
<1> HIDE DEF m
<1>2. SavedComments(m + 1) = SavedNext(SavedComments(m), Layout[file][m + 1])
  BY <1>1, SavedFacts DEF m
<1> QED
  BY <1>1, <1>2 DEF SavedNext, m

(***************************************************************************)
(* What the invariant is for                                               *)
(***************************************************************************)

\* The segments that are read are the first ones.
LEMMA FirstSegments ==
  ASSUME NEW f \in Files, NEW p \in Nat, NEW n \in 0 .. Len(Layout[f]), EndOf(f, n) <= p,
         n < Len(Layout[f]) => p < Layout[f][n + 1].end
  PROVE  \A k \in DOMAIN Layout[f] : Layout[f][k].end <= p <=> k <= n
<1> DEFINE N == Len(Layout[f])
           E(k) == EndOf(f, k)
<1>1. N \in Nat /\ n \in Nat /\ DOMAIN Layout[f] = 1 .. N /\ \A k \in 0 .. N : E(k) \in Nat
  BY LayoutFacts, LenProperties
<1>2. \A k \in 1 .. N : Layout[f][k].end = E(k)
  BY <1>1, SegmentFacts
<1>3. \A j, k \in 0 .. N : j < k => E(j) + 2 <= E(k)
  BY EndsGrow
<1>4. E(n) <= p /\ (n < N => p < E(n + 1))
  <2>1. n < N => n + 1 \in 1 .. N
    BY <1>1
  <2> QED
    BY <1>2, <2>1
<1> HIDE DEF E
<1>5. ASSUME NEW k \in 1 .. N PROVE E(k) <= p <=> k <= n
  <2>1. E(k) \in Nat /\ E(n) \in Nat /\ k \in 0 .. N
    BY <1>1
  <2>2. CASE k < n
    BY <1>3, <1>4, <2>1, <2>2
  <2>3. CASE k = n
    BY <1>4, <2>3
  <2>4. CASE k = n + 1
    <3>1. n < N
      BY <1>1, <2>4
    <3> QED
      BY <1>1, <1>4, <2>1, <2>4, <3>1
  <2>5. CASE k > n + 1
    <3>1. n + 1 \in 0 .. N /\ n < N
      BY <1>1, <2>5
    <3>2. E(n + 1) + 2 <= E(k) /\ E(n + 1) \in Nat
      BY <1>1, <1>3, <2>1, <2>5, <3>1
    <3> QED
      BY <1>4, <2>1, <2>5, <3>1, <3>2
  <2> QED
    BY <1>1, <2>2, <2>3, <2>4, <2>5
<1> QED
  BY <1>1, <1>2, <1>5

\* The next marker is more than a byte away as long as it is not found.
LEMMA NextIsAhead ==
  ASSUME NEW f \in Files, NEW p \in Nat, NEW n \in 0 .. Len(Layout[f]), EndOf(f, n) <= p,
         Clear(f, EndOf(f, n), p), n < Len(Layout[f])
  PROVE  p + 2 <= Layout[f][n + 1].from /\ p < Layout[f][n + 1].end
<1> DEFINE g == Layout[f][n + 1]
           e == EndOf(f, n)
<1>1. Len(Layout[f]) \in Nat /\ Len(f) \in Nat
  BY LayoutFacts, BytesOfFile
<1>2. n + 1 \in 1 .. Len(Layout[f]) /\ (n + 1) - 1 = n
  BY <1>1
<1>3. /\ g.from \in Nat /\ g.end \in Nat /\ e \in Nat
      /\ g.from \in e + 2 .. Len(f) /\ EndsMarkerOf(f, g.from) /\ g.from <= g.end
  BY <1>2, SegmentFacts
<1> HIDE DEF g, e
<1>4. ~ (g.from \in e + 2 .. p + 1)
  BY <1>3 DEF Clear, e
<1>5. p + 2 <= g.from /\ p < g.end
  BY <1>3, <1>4
<1> QED
  BY <1>5 DEF g

\* The segments that are read are counted by their ends, as CommentsSavedOnce does it.
LEMMA PlaceGivesComments == PlaceInv => CommentsSavedOnce
<1> SUFFICES ASSUME PlaceInv, at # "exited", length_limit_COM > 0, global_state # "START", saw_SOI,
                    unread_marker # SOI, pos <= Len(file)
             PROVE  \E n \in 0 .. Len(Layout[file]) :
                      /\ \A k \in DOMAIN Layout[file] : Layout[file][k].end <= pos <=> k <= n
                      /\ marker_list = SavedComments(n)
  BY DEF CommentsSavedOnce
<1> DEFINE L == Layout[file]
<1>1. file \in Files /\ pos \in Nat /\ length_limit_COM \in Nat
  BY DEF PlaceInv, TurnsInv, TypesOK
<1>2. Len(L) \in Nat /\ Len(file) \in Nat
  BY <1>1, LayoutFacts, BytesOfFile
<1>3. PICK n \in 0 .. Len(L) : BehindSegment(n) \/ AtSegment(n) \/ InsideSegment(n)
  BY DEF PlaceInv, Place
<1>4. marker_list = SavedComments(n)
  BY <1>3 DEF BehindSegment, AtSegment, InsideSegment, Comments
<1>5. CASE BehindSegment(n)
  <2>1. EndOf(file, n) <= pos /\ Clear(file, EndOf(file, n), pos)
    BY <1>5 DEF BehindSegment
  <2>2. n < Len(L) => pos < L[n + 1].end
    BY <1>1, <2>1, NextIsAhead
  <2>3. \A k \in DOMAIN L : L[k].end <= pos <=> k <= n
    BY <1>1, <2>1, <2>2, FirstSegments
  <2> QED
    BY <1>4, <2>3
<1> DEFINE g == L[n + 1]
<1>6. ASSUME n < Len(L)
      PROVE  /\ n + 1 \in 1 .. Len(L) /\ n + 1 \in 0 .. Len(L) /\ (n + 1) - 1 = n
             /\ EndOf(file, n) \in Nat /\ g.from \in Nat /\ g.end \in Nat
             /\ EndOf(file, n) + 2 <= g.from /\ g.from <= g.end /\ g.end = EndOf(file, n + 1)
  <2>1. n + 1 \in 1 .. Len(L) /\ n + 1 \in 0 .. Len(L) /\ (n + 1) - 1 = n
    BY <1>2, <1>6
  <2>2. /\ g.from \in Nat /\ g.end \in Nat /\ EndOf(file, n) \in Nat /\ g.end = EndOf(file, n + 1)
        /\ g.from \in EndOf(file, n) + 2 .. Len(file) /\ g.from <= g.end
    BY <1>1, <2>1, SegmentFacts
  <2> HIDE DEF g
  <2> QED
    BY <2>1, <2>2
<1>7. CASE AtSegment(n)
  <2>1. n < Len(L) /\ g.from = pos /\ g.marker = unread_marker /\ g.marker # SOI
    BY <1>7 DEF AtSegment
  <2>2. EndOf(file, n) <= pos
    BY <1>6, <2>1
  <2>3. CASE pos < g.end
    <3>1. \A k \in DOMAIN L : L[k].end <= pos <=> k <= n
      BY <1>1, <2>2, <2>3, FirstSegments
    <3> QED
      BY <1>4, <3>1
  <2>4. CASE ~ (pos < g.end)
    <3>1. EndOf(file, n + 1) = pos /\ n + 1 \in 0 .. Len(L)
      BY <1>1, <1>6, <2>1, <2>4
    <3>2. SavedComments(n + 1) = SavedNext(SavedComments(n), g)
      BY <1>1, <2>1, SavedFacts
    <3>3. g.end - (g.from + 2) < 0
      <4>1. n < Len(L) /\ g.from = pos
        BY <2>1
      <4> HIDE DEF g, L
      <4> QED
        BY <1>1, <1>6, <2>4, <4>1
    <3>4. marker_list = SavedComments(n + 1)
      <4> HIDE DEF g
      <4> QED
        BY <1>4, <2>1, <3>2, <3>3 DEF SavedNext
    <3>5. Clear(file, pos, pos)
      BY <1>1 DEF Clear
    <3>6. n + 1 < Len(L) => pos < L[(n + 1) + 1].end
      BY <1>1, <3>1, <3>5, NextIsAhead
    <3>7. \A k \in DOMAIN L : L[k].end <= pos <=> k <= n + 1
      BY <1>1, <3>1, <3>6, FirstSegments
    <3> QED
      BY <3>1, <3>4, <3>7
  <2> QED
    BY <2>3, <2>4
<1>8. CASE InsideSegment(n)
  <2> DEFINE size == g.end - (g.from + 2)
             most == IF size < length_limit_COM THEN size ELSE length_limit_COM
  <2>1. n < Len(L) /\ pos \in g.from + 2 .. g.from + 1 + most
    BY <1>8 DEF InsideSegment
  <2>2. EndOf(file, n) <= pos /\ pos < g.end
    <3> HIDE DEF g, L
    <3>0. size \in Int /\ size = g.end - (g.from + 2) /\ g.end \in Nat /\ g.from \in Nat
      BY <1>6, <2>1
    <3> HIDE DEF size
    <3>1. most <= size /\ most \in Int
      BY <1>1, <3>0
    <3>2. EndOf(file, n) <= pos
      BY <1>6, <2>1
    <3> HIDE DEF most
    <3>3. pos \in Int /\ pos <= g.from + 1 + most
      BY <2>1, <3>0, <3>1
    <3>4. pos < g.end
      BY ONLY <3>0, <3>1, <3>3
    <3> QED
      BY <3>2, <3>4
  <2>3. \A k \in DOMAIN L : L[k].end <= pos <=> k <= n
    BY <1>1, <2>2, FirstSegments
  <2> QED
    BY <1>4, <2>3
<1> QED
  BY <1>3, <1>5, <1>7, <1>8

(***************************************************************************)
(* Steps that leave the reader where it is                                 *)
(***************************************************************************)

\* SavedComments depends on the file and on the limit only.
LEMMA SavedUnchanged ==
  ASSUME UNCHANGED <<file, length_limit_COM>>
  PROVE  \A n : SavedComments(n)' = SavedComments(n)
BY DEF SavedComments, Layout

\* The comments stay what they are, or do not matter any more.
LEMMA PlaceStays ==
  ASSUME PlaceInv, UNCHANGED <<file, length_limit_COM, pos, unread_marker, cur_marker>>,
         at' # "exited" => at # "exited",
         saw_SOI' /\ global_state' # "START" =>
           saw_SOI /\ global_state # "START" /\ marker_list' = marker_list
  PROVE  (at # "exited" /\ pos <= Len(file) => Place)'
<1> SUFFICES ASSUME at' # "exited", pos' <= Len(file') PROVE Place'
  OBVIOUS
<1>1. PICK n \in 0 .. Len(Layout[file]) : BehindSegment(n) \/ AtSegment(n) \/ InsideSegment(n)
  BY DEF PlaceInv, Place
<1>2. Layout' = Layout
  BY DEF Layout
<1>3. SavedComments(n)' = SavedComments(n)
  BY SavedUnchanged
<1>4. Comments(n) => Comments(n)'
  BY <1>3 DEF Comments
<1>5. EndOf(file, n)' = EndOf(file, n) /\ Clear(file, EndOf(file, n), pos)' = Clear(file, EndOf(file, n), pos)
  BY DEF EndOf, Clear
<1>6. BehindSegment(n) => BehindSegment(n)'
  BY <1>2, <1>4, <1>5 DEF BehindSegment
<1>7. AtSegment(n) => AtSegment(n)'
  BY <1>2, <1>4 DEF AtSegment
<1>8. InsideSegment(n) => InsideSegment(n)'
  BY <1>2, <1>4 DEF InsideSegment
<1>9. n \in 0 .. Len(Layout'[file'])
  BY <1>2
<1> QED
  BY <1>1, <1>6, <1>7, <1>8, <1>9 DEF Place

(***************************************************************************)
(* Steps that find a marker, or come nearer to it                          *)
(***************************************************************************)

\* What the source gives are bytes, those of the file first.
LEMMA ByteFacts ==
  ASSUME file \in Files, NEW k \in Nat, k > 0
  PROVE  Byte(k) \in 0 .. 255 /\ (k <= Len(file) => Byte(k) = file[k])
<1>1. Len(file) \in Nat /\ \A j \in 1 .. Len(file) : file[j] \in 0 .. 255
  BY BytesOfFile
<1>2. CASE k <= Len(file)
  BY <1>1, <1>2 DEF Byte
<1>3. CASE ~ (k <= Len(file))
  <2>1. Byte(k) \in {255, EOI}
    BY <1>3 DEF Byte
  <2> QED
    BY <1>3, <2>1 DEF EOI
<1> QED
  BY <1>2, <1>3

\* Bytes ahead of the reader, and the length word.
LEMMA InFacts ==
  ASSUME file \in Files, pos \in Nat, NEW k \in Nat, k > 0
  PROVE  In(k) \in 0 .. 255 /\ (pos + k <= Len(file) => In(k) = file[pos + k])
<1>1. pos + k \in Nat /\ pos + k > 0
  OBVIOUS
<1> QED
  BY <1>1, ByteFacts DEF In

\* The same for two bytes.
LEMMA In2Facts ==
  ASSUME file \in Files, pos \in Nat, NEW k \in Nat, k > 0
  PROVE  In2(k) \in Nat /\ In2(k) = (256 * In(k)) + In(k + 1)
<1> DEFINE a == In(k)
           b == In(k + 1)
<1>1. a \in 0 .. 255 /\ b \in 0 .. 255 /\ In2(k) = (256 * a) + b
  BY InFacts DEF In2
<1> HIDE DEF a, b
<1>2. (256 * a) + b \in Nat
  BY <1>1
<1> QED
  BY <1>1, <1>2 DEF a, b

\* A search that goes on where it stopped has passed no marker.
LEMMA ClearExtends ==
  ASSUME NEW f \in Files, NEW p \in Nat, NEW q \in Nat, NEW r \in Nat, q <= r,
         Clear(f, p, q), Clear(f, q, r)
  PROVE  Clear(f, p, r)
<1> SUFFICES ASSUME NEW k \in p + 2 .. r + 1, k <= Len(f) PROVE ~ EndsMarkerOf(f, k)
  BY DEF Clear
<1>1. k \in p + 2 .. q + 1 \/ k \in q + 2 .. r + 1
  OBVIOUS
<1> QED
  BY <1>1 DEF Clear

\* The reader, or the decoder, goes on behind the n-th segment and has or has not
\* found the next marker.
LEMMA PlaceMoves ==
  ASSUME TypesOK, UNCHANGED <<file, length_limit_COM, saw_SOI, global_state, marker_list>>,
         cur_marker' = NoMarker, NEW n \in 0 .. Len(Layout[file]),
         EndOf(file, n) <= pos, Clear(file, EndOf(file, n), pos), Comments(n),
         pos' \in Nat, pos <= pos', pos' <= Len(file),
         IF unread_marker' = 0 THEN Clear(file, pos, pos')
         ELSE /\ pos + 2 <= pos' /\ EndsMarkerOf(file, pos') /\ unread_marker' = file[pos']
              /\ \A k \in pos + 2 .. pos' - 1 : ~ EndsMarkerOf(file, k)
  PROVE  Place'
<1> DEFINE L == Layout[file]
<1>1. file \in Files /\ pos \in Nat /\ length_limit_COM \in Nat /\ Len(file) \in Nat
  BY BytesOfFile DEF TypesOK
<1>2. Len(L) \in Nat /\ EndOf(file, n) \in Nat /\ n \in Nat
  BY <1>1, LayoutFacts
<1>3. Layout' = Layout
  BY DEF Layout
<1>4. SavedComments(n)' = SavedComments(n) /\ SavedComments(n + 1)' = SavedComments(n + 1)
  BY SavedUnchanged
<1>5. CASE unread_marker' = 0
  <2>1. Clear(file, EndOf(file, n), pos')
    BY <1>1, <1>2, <1>5, ClearExtends
  <2>2. EndOf(file, n) <= pos'
    BY <1>1, <1>2
  <2>3. Comments(n)'
    BY <1>4 DEF Comments
  <2>4. unread_marker' # SOI
    BY <1>5 DEF SOI
  <2>5. EndOf(file, n)' = EndOf(file, n)
    BY <1>3 DEF EndOf
  <2>6. BehindSegment(n)'
    BY <1>3, <1>5, <2>1, <2>2, <2>3, <2>4, <2>5 DEF BehindSegment
  <2> QED
    BY <1>3, <2>6 DEF Place
<1>6. CASE unread_marker' # 0
  <2>1. /\ pos' \in EndOf(file, n) + 2 .. Len(file)
        /\ EndsMarkerOf(file, pos') /\ unread_marker' = file[pos']
    BY <1>1, <1>2, <1>6
  <2>2. \A j \in EndOf(file, n) + 2 .. pos' - 1 : ~ EndsMarkerOf(file, j)
    <3> DEFINE e == EndOf(file, n)
               q == pos'
               N == Len(file)
    <3>1. e \in Nat /\ q \in Nat /\ N \in Nat /\ q <= N
      BY <1>1, <1>2
    <3>2. /\ \A j \in e + 2 .. pos + 1 : j <= N => ~ EndsMarkerOf(file, j)
          /\ \A j \in pos + 2 .. q - 1 : ~ EndsMarkerOf(file, j)
      BY <1>6 DEF Clear
    <3> HIDE DEF e, q, N
    <3>3. \A j \in e + 2 .. q - 1 : (j \in e + 2 .. pos + 1 /\ j <= N) \/ j \in pos + 2 .. q - 1
      BY <1>1, <3>1
    <3>4. \A j \in e + 2 .. q - 1 : ~ EndsMarkerOf(file, j)
      BY <3>2, <3>3
    <3> QED
      BY <3>4 DEF e, q
  <2>3. n < Len(L) /\ n + 1 \in 1 .. Len(L) /\ L[n + 1].from = pos' /\ L[n + 1].marker = file[pos']
    BY <1>1, <2>1, <2>2, NextFound
  <2>4. CASE unread_marker' \in Alone
    <3>1. (n + 1) - 1 = n /\ n + 1 \in 0 .. Len(L) /\ n + 1 > 0
      BY <1>2, <2>3
    <3>2. L[n + 1].marker \in Alone
      BY <2>1, <2>3, <2>4
    <3>3. EndOf(file, n + 1) = pos'
      <4>1. L[n + 1].end = EndOf(file, n + 1) /\ L[n + 1].end = L[n + 1].from
        BY <1>1, <2>3, <3>2, SegmentFacts
      <4> QED
        BY <2>3, <4>1
    <3>4. Clear(file, pos', pos')
      <4> DEFINE q == pos'
      <4>1. q \in Nat
        OBVIOUS
      <4> HIDE DEF q
      <4>2. Clear(file, q, q)
        BY <4>1 DEF Clear
      <4> QED
        BY <4>2 DEF q
    <3>5. unread_marker' # SOI => Comments(n + 1)'
      <4> SUFFICES ASSUME unread_marker' # SOI PROVE Comments(n + 1)'
        OBVIOUS
      <4>1. SavedComments(n + 1) = SavedNext(SavedComments(n), L[n + 1])
        BY <1>1, <2>3, SavedFacts
      <4>2. L[n + 1].marker # SOI /\ L[n + 1].marker # COM
        <5>1. COM \notin Alone
          BY DEF Alone, COM, Restarts, SOI, EOI, SOF0, RST0
        <5> QED
          BY <2>1, <2>3, <3>2, <5>1
      <4>3. SavedComments(n + 1) = SavedComments(n)
        BY <4>1, <4>2 DEF SavedNext
      <4> QED
        BY <1>4, <4>3 DEF Comments
    <3>6. EndOf(file, n + 1)' = EndOf(file, n + 1)
      BY <1>3 DEF EndOf
    <3>7. unread_marker' = SOI => n + 1 > 0 /\ L[n + 1].marker = SOI
      BY <2>1, <2>3, <3>1
    <3>8. BehindSegment(n + 1)'
      <4>1. EndOf(file, n + 1)' <= pos' /\ Clear(file, EndOf(file, n + 1), pos)'
        BY <1>1, <3>3, <3>4, <3>6
      <4>2. (L[n + 1].marker = SOI) => (Layout[file][n + 1].marker = SOI)'
        BY <1>3
      <4> QED
        BY <2>4, <3>5, <3>7, <4>1, <4>2 DEF BehindSegment
    <3> QED
      BY <1>3, <3>1, <3>8 DEF Place
  <2>5. CASE unread_marker' \notin Alone
    <3>1. Comments(n)'
      BY <1>4 DEF Comments
    <3>2. AtSegment(n)'
      BY <1>3, <1>6, <2>1, <2>3, <2>5, <3>1 DEF AtSegment
    <3> QED
      BY <1>3, <3>2 DEF Place
  <2> QED
    BY <2>4, <2>5
<1> QED
  BY <1>5, <1>6

\* A step of next_marker.
LEMMA SearchMoves ==
  ASSUME TypesOK, NextMarkerFound \/ NextMarkerSuspends
  PROVE  /\ pos' \in Nat /\ pos <= pos'
         /\ unread_marker' \in Nat
         /\ \/ /\ unread_marker' = unread_marker
               /\ Clear(file, pos, pos')
            \/ /\ unread_marker' # 0
               /\ pos' <= Len(file) =>
                    /\ pos + 2 <= pos' /\ EndsMarkerOf(file, pos') /\ unread_marker' = file[pos']
                    /\ \A k \in pos + 2 .. pos' - 1 : ~ EndsMarkerOf(file, k)
<1> DEFINE b == IF source = "suspending" THEN avail - pos
                ELSE 4 + (IF pos < Len(file) THEN Len(file) - pos ELSE 0)
<1>1. file \in Files /\ pos \in Nat /\ avail \in Nat /\ Len(file) \in Nat
  BY BytesOfFile DEF TypesOK
<1>2. b \in Int /\ Ahead = 1 .. b
  BY <1>1 DEF Ahead
<1> HIDE DEF b
<1>3. ASSUME NEW k \in Nat, k > 1, pos + k <= Len(file)
      PROVE  EndsMarkerOf(file, pos + k) <=> EndsMarker(k)
  <2>1. k - 1 \in Nat /\ k - 1 > 0 /\ pos + (k - 1) <= Len(file) /\ pos + (k - 1) = (pos + k) - 1
    BY <1>1, <1>3
  <2>2. In(k - 1) = file[(pos + k) - 1] /\ In(k) = file[pos + k]
    BY <1>1, <1>3, <2>1, InFacts
  <2> QED
    BY <1>3, <2>2 DEF EndsMarkerOf, EndsMarker
<1>4. CASE NextMarkerFound
  <2>1. PICK n \in Ahead : /\ EndsMarker(n) /\ \A k \in 1 .. n - 1 : ~ EndsMarker(k)
                           /\ unread_marker' = In(n) /\ pos' = pos + n
    BY <1>4 DEF NextMarkerFound
  <2>2. n \in Nat /\ n > 1 /\ In(n) # 0 /\ In(n) \in 0 .. 255
    BY <1>1, <1>2, <2>1, InFacts DEF EndsMarker
  <2>3. ASSUME pos + n <= Len(file)
        PROVE  /\ EndsMarkerOf(file, pos + n) /\ In(n) = file[pos + n]
               /\ \A k \in pos + 2 .. (pos + n) - 1 : ~ EndsMarkerOf(file, k)
    <3>1. EndsMarkerOf(file, pos + n) /\ In(n) = file[pos + n]
      BY <1>1, <1>3, <2>1, <2>2, <2>3, InFacts
    <3>2. ASSUME NEW k \in pos + 2 .. (pos + n) - 1 PROVE ~ EndsMarkerOf(file, k)
      <4> DEFINE j == k - pos
      <4>1. j \in Nat /\ j > 1 /\ j \in 1 .. n - 1 /\ pos + j = k /\ pos + j <= Len(file)
        BY <1>1, <2>2, <2>3
      <4> HIDE DEF j
      <4> QED
        BY <1>3, <2>1, <4>1
    <3> QED
      BY <3>1, <3>2
  <2>4. pos' = pos + n /\ unread_marker' = In(n) /\ pos' \in Nat /\ pos + 2 <= pos'
    BY <1>1, <2>1, <2>2
  <2> HIDE DEF In
  <2>5. unread_marker' \in Nat \ {0}
    BY <2>2, <2>4
  <2>6. pos' <= Len(file) =>
          /\ EndsMarkerOf(file, pos') /\ unread_marker' = file[pos']
          /\ \A k \in pos + 2 .. pos' - 1 : ~ EndsMarkerOf(file, k)
    BY <2>3, <2>4
  <2> QED
    BY <1>1, <2>4, <2>5, <2>6
<1>5. CASE NextMarkerSuspends
  <2> DEFINE kept == {0} \union {k \in Ahead : In(k) # 255}
             n == CHOOSE k \in kept : \A j \in kept : j <= k
  <2>1. n \in kept
    <3> DEFINE c == IF b > 0 THEN b ELSE 0
    <3>1. kept \in SUBSET Nat /\ c \in Nat /\ (\A x \in kept : x <= c) /\ kept # {}
      BY <1>2
    <3> HIDE DEF kept, c
    <3>2. \E k \in kept : \A j \in kept : j <= k
      BY <3>1, GreatestExists
    <3> QED
      BY <3>2
  <2>2. pos' = pos + n /\ UNCHANGED unread_marker /\ \A k \in Ahead : ~ EndsMarker(k)
    BY <1>5 DEF NextMarkerSuspends
  <2> HIDE DEF n
  <2>3. n \in Nat /\ (n # 0 => n \in Ahead /\ In(n) # 255)
    BY <1>2, <2>1
  <2>4. ASSUME NEW k \in pos + 2 .. (pos + n) + 1, k <= Len(file) PROVE ~ EndsMarkerOf(file, k)
    <3> DEFINE j == k - pos
    <3>1. j \in Nat /\ j > 1 /\ pos + j = k /\ pos + j <= Len(file) /\ n # 0
      BY <1>1, <2>3, <2>4
    <3>2. CASE k <= pos + n
      <4>1. j \in Ahead
        BY <1>1, <1>2, <2>3, <3>1, <3>2
      <4> HIDE DEF j
      <4> QED
        BY <1>3, <2>2, <3>1, <4>1
    <3>3. CASE ~ (k <= pos + n)
      <4>1. k - 1 = pos + n /\ pos + n <= Len(file) /\ n > 0
        BY <1>1, <2>3, <2>4, <3>1, <3>3
      <4>2. file[k - 1] # 255
        BY <1>1, <2>3, <3>1, <4>1, InFacts
      <4> QED
        BY <4>2 DEF EndsMarkerOf
    <3> QED
      BY <3>2, <3>3
  <2>5. Clear(file, pos, pos + n)
    BY <2>4 DEF Clear
  <2> QED
    BY <1>1, <2>2, <2>3, <2>5 DEF TypesOK
<1> QED
  BY <1>4, <1>5

(***************************************************************************)
(* The entropy decoder gets bytes                                          *)
(***************************************************************************)

\* From the place where it began, the decoder has passed n bytes and has not found a
\* marker, or has found the marker m.
Reach(n, m) ==
  pos + n <= Len(file) =>
    IF m = 0 THEN Clear(file, pos, pos + n)
    ELSE /\ n >= 2 /\ EndsMarkerOf(file, pos + n) /\ m = file[pos + n]
         /\ \A k \in pos + 2 .. (pos + n) - 1 : ~ EndsMarkerOf(file, k)

\* Before its first byte the decoder has passed no marker,
LEMMA ReachNothing ==
  ASSUME TypesOK
  PROVE  Reach(0, 0)
BY DEF TypesOK, Reach, Clear

\* nor with a byte that is not FF,
LEMMA ReachByte ==
  ASSUME TypesOK, NEW n \in Nat, Reach(n, 0), In(n + 1) # 255
  PROVE  Reach(n + 1, 0)
<1> SUFFICES ASSUME pos + (n + 1) <= Len(file), NEW k \in pos + 2 .. (pos + (n + 1)) + 1, k <= Len(file)
             PROVE  ~ EndsMarkerOf(file, k)
  BY DEF Reach, Clear
<1>1. file \in Files /\ pos \in Nat /\ Len(file) \in Nat
  BY BytesOfFile DEF TypesOK
<1>2. Clear(file, pos, pos + n)
  BY <1>1 DEF Reach
<1>3. CASE k <= (pos + n) + 1
  BY <1>1, <1>2, <1>3 DEF Clear
<1>4. CASE ~ (k <= (pos + n) + 1)
  <2>1. k - 1 = pos + (n + 1)
    BY <1>1, <1>4
  <2>2. In(n + 1) = file[k - 1]
    BY <1>1, <2>1, InFacts
  <2> QED
    BY <2>2 DEF EndsMarkerOf
<1> QED
  BY <1>3, <1>4

\* Behind FF, and as many more of them as there are.
LEMMA ReachBehindFill ==
  ASSUME TypesOK, NEW n \in Nat, Reach(n, 0), NEW e \in Nat, e >= n + 2,
         \A j \in n + 1 .. e - 1 : In(j) = 255, In(e) # 255
  PROVE  Reach(e, In(e))
<1>1. file \in Files /\ pos \in Nat /\ Len(file) \in Nat
  BY BytesOfFile DEF TypesOK
<1>2. In(e) \in 0 .. 255
  BY <1>1, InFacts
<1> SUFFICES ASSUME pos + e <= Len(file)
             PROVE  IF In(e) = 0 THEN Clear(file, pos, pos + e)
                    ELSE /\ e >= 2 /\ EndsMarkerOf(file, pos + e) /\ In(e) = file[pos + e]
                         /\ \A k \in pos + 2 .. (pos + e) - 1 : ~ EndsMarkerOf(file, k)
  BY DEF Reach
<1>3. Clear(file, pos, pos + n)
  BY <1>1 DEF Reach
<1>4. In(e) = file[pos + e] /\ \A j \in n + 1 .. e - 1 : file[pos + j] = 255
  <2>1. \A j \in n + 1 .. e - 1 : j \in Nat /\ j > 0 /\ pos + j <= Len(file)
    BY <1>1
  <2>2. \A j \in n + 1 .. e - 1 : In(j) = file[pos + j]
    BY <1>1, <2>1, InFacts
  <2>3. In(e) = file[pos + e]
    BY <1>1, InFacts
  <2> QED
    BY <2>2, <2>3
<1>5. \A k \in pos + 2 .. (pos + e) - 1 : ~ EndsMarkerOf(file, k)
  <2> TAKE k \in pos + 2 .. (pos + e) - 1
  <2>1. CASE k <= (pos + n) + 1
    BY <1>1, <1>3, <2>1 DEF Clear
  <2>2. CASE ~ (k <= (pos + n) + 1)
    <3>1. k - pos \in n + 1 .. e - 1 /\ pos + (k - pos) = k
      BY <1>1, <2>2
    <3>2. file[k] = 255
      BY <1>4, <3>1
    <3> QED
      BY <3>2 DEF EndsMarkerOf
  <2> QED
    BY <2>1, <2>2
<1>6. CASE In(e) = 0
  <2>1. file[pos + e] = 0
    BY <1>4, <1>6
  <2>2. ASSUME NEW k \in pos + 2 .. (pos + e) + 1 PROVE ~ EndsMarkerOf(file, k)
    <3>1. k \in pos + 2 .. (pos + e) - 1 \/ k = pos + e \/ k - 1 = pos + e
      BY <1>1
    <3> QED
      BY <1>5, <2>1, <3>1 DEF EndsMarkerOf
  <2>3. Clear(file, pos, pos + e)
    BY <2>2 DEF Clear
  <2> QED
    BY <1>6, <2>3
<1>7. CASE In(e) # 0
  <2>1. e - 1 \in n + 1 .. e - 1 /\ pos + (e - 1) = (pos + e) - 1
    BY <1>1
  <2>2. file[(pos + e) - 1] = 255
    BY <1>4, <2>1
  <2>3. EndsMarkerOf(file, pos + e)
    BY <1>4, <1>7, <2>2 DEF EndsMarkerOf
  <2> QED
    BY <1>4, <1>5, <1>7, <2>3
<1> QED
  BY <1>6, <1>7

\* One step of jpeg_fill_bit_buffer.
LEMMA FillOneFacts ==
  ASSUME TypesOK, NEW f \in FillStates
  PROVE  /\ FillOne(f) \in FillStates
         /\ Reach(f.next, f.marker) => Reach(FillOne(f).next, FillOne(f).marker)
<1> DEFINE k == f.next
           b == In(k + 1)
           ends == {j \in k + 2 .. Horizon(k) : In(j) # 255}
           end == CHOOSE j \in ends : \A l \in ends : j <= l
           g == FillOne(f)
<1>1. file \in Files /\ pos \in Nat /\ avail \in Nat /\ Len(file) \in Nat
  BY BytesOfFile DEF TypesOK
<1>2. f \in [ok : BOOLEAN, next : Nat, bytes : Seq(Nat), marker : Nat]
  BY DEF FillStates
<1>3. k \in Nat /\ b \in 0 .. 255
  <2>1. k \in Nat
    BY <1>2
  <2>2. k + 1 \in Nat /\ k + 1 > 0
    BY <2>1
  <2> QED
    BY <1>1, <2>1, <2>2, InFacts
<1>4. CASE ~ f.ok \/ f.marker # 0
  BY <1>4 DEF FillOne
<1>5. CASE f.ok /\ f.marker = 0 /\ (~ Has(k + 1) \/ (b = 255 /\ ends = {}))
  <2>1. g = [f EXCEPT !.ok = FALSE]
    BY <1>5 DEF FillOne
  <2> HIDE DEF g
  <2>2. g \in FillStates /\ g.next = f.next /\ g.marker = f.marker
    BY <1>2, <2>1 DEF FillStates
  <2> QED
    BY <2>2 DEF g
<1>6. CASE f.ok /\ f.marker = 0 /\ ~ (~ Has(k + 1) \/ (b = 255 /\ ends = {})) /\ b # 255
  <2>1. g = [f EXCEPT !.next = k + 1, !.bytes = Append(@, b)]
    BY <1>6 DEF FillOne
  <2>2. Reach(f.next, f.marker) => Reach(k + 1, 0)
    BY <1>3, <1>6, ReachByte
  <2> DEFINE bytes == Append(f.bytes, b)
             next == k + 1
  <2>3. bytes \in Seq(Nat) /\ next \in Nat /\ g = [f EXCEPT !.next = next, !.bytes = bytes]
    <3>1. f.bytes \in Seq(Nat)
      BY <1>2
    <3>2. b \in Nat
      BY <1>3
    <3> HIDE DEF g, b, k
    <3>3. bytes \in Seq(Nat)
      BY <3>1, <3>2
    <3>4. g = [f EXCEPT !.next = next, !.bytes = bytes]
      BY <2>1
    <3> QED
      BY <1>3, <3>3, <3>4
  <2> HIDE DEF g, b, bytes, next
  <2>4. g \in FillStates /\ g.next = next /\ g.marker = 0
    BY <1>2, <1>6, <2>3 DEF FillStates
  <2> QED
    BY <2>2, <2>4 DEF g, next
<1>7. CASE f.ok /\ f.marker = 0 /\ ~ (~ Has(k + 1) \/ (b = 255 /\ ends = {})) /\ b = 255
  <2>1. end \in ends /\ \A l \in ends : end <= l
    <3>1. ends \in SUBSET Nat /\ ends # {}
      BY <1>3, <1>7
    <3> HIDE DEF ends
    <3> QED
      BY <3>1, LeastExists
  <2>2. g = IF In(end) = 0 THEN [f EXCEPT !.next = end, !.bytes = Append(@, 255)]
            ELSE [f EXCEPT !.next = end, !.marker = In(end)]
    BY <1>7 DEF FillOne
  <2> HIDE DEF end, g
  <2>3. end \in Nat /\ end >= k + 2 /\ In(end) # 255 /\ end <= Horizon(k)
    BY <1>3, <2>1
  <2>4. \A j \in k + 1 .. end - 1 : In(j) = 255
    <3> TAKE j \in k + 1 .. end - 1
    <3>1. CASE j = k + 1
      BY <1>7, <3>1
    <3>2. CASE j # k + 1
      <4>1. Horizon(k) \in Int
        BY <1>1, <1>3 DEF Horizon
      <4>2. j \in k + 2 .. Horizon(k) /\ ~ (end <= j)
        BY <1>3, <2>3, <3>2, <4>1
      <4> QED
        BY <2>1, <4>2
    <3> QED
      BY <3>1, <3>2
  <2>5. Reach(f.next, f.marker) => Reach(end, In(end))
    <3> HIDE DEF k
    <3>1. Reach(k, 0) => Reach(end, In(end))
      BY <1>3, <2>3, <2>4, ReachBehindFill
    <3> QED
      BY <1>7, <3>1 DEF k
  <2>6. In(end) \in 0 .. 255
    <3>1. end > 0
      BY <1>3, <2>3
    <3> QED
      BY <1>1, <2>3, <3>1, InFacts
  <2>7. CASE In(end) = 0
    <3>1. Append(f.bytes, 255) \in Seq(Nat)
      BY <1>2
    <3>2. g \in FillStates /\ g.next = end /\ g.marker = 0
      BY <1>2, <1>7, <2>2, <2>3, <2>7, <3>1 DEF FillStates
    <3> QED
      BY <2>5, <2>7, <3>2 DEF g
  <2>8. CASE In(end) # 0
    <3> DEFINE m == In(end)
    <3>1. g = [f EXCEPT !.next = end, !.marker = m] /\ m \in Nat
      BY <2>2, <2>6, <2>8
    <3> HIDE DEF m
    <3>2. g \in FillStates /\ g.next = end /\ g.marker = m
      BY <1>2, <2>3, <3>1 DEF FillStates
    <3> QED
      BY <2>5, <3>2 DEF g, m
  <2> QED
    BY <2>7, <2>8
<1> QED
  BY <1>4, <1>5, <1>6, <1>7

\* All its steps.
LEMMA FillFacts ==
  ASSUME TypesOK, NEW n \in Nat
  PROVE  /\ Fill(n) \in FillStates
         /\ Reach(n, 0) => Reach(Fill(n).next, Fill(n).marker)
<1> DEFINE base == [ok |-> TRUE, next |-> n, bytes |-> <<>>, marker |-> 0]
           S == FillStates
           P == {f \in S : Reach(f.next, f.marker)}
           one == [f \in S |-> FillOne(f)]
<1>1. base \in S
  BY DEF FillStates
<1>2. one \in [S -> S] /\ \A f \in P : one[f] \in P
  BY FillOneFacts
<1>3. Fill(n) = Repeated(base, one, GetBytes)[GetBytes]
  BY DEF Fill, Repeated
<1>4. P \in SUBSET S /\ S \in SUBSET S /\ GetBytes \in Nat
  BY GetBytesAssumption
<1>5. Reach(n, 0) => base \in P
  BY <1>1
<1>6. Fill(n) \in S /\ (Reach(n, 0) => Fill(n) \in P)
  <2> HIDE DEF base, S, P, one
  <2>1. base \in P => Repeated(base, one, GetBytes)[GetBytes] \in P
    BY ONLY <1>2, <1>4, RepeatedKeeps
  <2>2. \A f \in S : one[f] \in S
    BY <1>2
  <2>3. Repeated(base, one, GetBytes)[GetBytes] \in S
    BY ONLY <1>1, <1>2, <1>4, <2>2, RepeatedKeeps
  <2> QED
    BY <1>3, <1>5, <2>1, <2>3
<1> QED
  BY <1>6

\* The same, for the decoder: it does not go on when there is a marker already.
Path(n, m) == IF unread_marker = 0 THEN Reach(n, m) ELSE n = 0 /\ m = unread_marker

\* The bit buffer is filled when it is empty, and is not empty then.
LEMMA RefilledFacts ==
  ASSUME TypesOK, NEW s \in WorkingStates
  PROVE  /\ Refilled(s) \in WorkingStates /\ (Refilled(s).ok => Refilled(s).held # <<>>)
         /\ Path(s.next, s.marker) => Path(Refilled(s).next, Refilled(s).marker)
<1> DEFINE f == Fill(s.next)
           r == Refilled(s)
           zeros == [k \in 1 .. GetBytes |-> 0]
<1>1. s \in [ok : BOOLEAN, next : Nat, held : Seq(Nat), marker : Nat, short : BOOLEAN, blocks : Seq(Nat)]
  BY DEF WorkingStates
<1>2. s.next \in Nat
  BY <1>1
<1>3. f \in FillStates /\ (Reach(s.next, 0) => Reach(f.next, f.marker))
  BY <1>2, FillFacts
<1>4. f \in [ok : BOOLEAN, next : Nat, bytes : Seq(Nat), marker : Nat]
  BY <1>3 DEF FillStates
<1>5. s.marker = 0 /\ Path(s.next, s.marker) => Path(f.next, f.marker)
  BY <1>3 DEF Path
<1>6. zeros \in Seq(Nat) /\ zeros # <<>>
  <2>1. GetBytes \in Nat /\ GetBytes > 0
    BY GetBytesAssumption
  <2>2. zeros \in [1 .. GetBytes -> Nat]
    OBVIOUS
  <2>3. zeros \in Seq(Nat)
    BY <2>1, <2>2, SeqDef
  <2>4. 1 \in DOMAIN zeros
    BY <2>1
  <2> QED
    BY <2>3, <2>4
<1>7. r = IF s.marker = 0 /\ ~ f.ok THEN [s EXCEPT !.ok = FALSE]
          ELSE IF s.marker = 0 /\ f.bytes # <<>>
          THEN [s EXCEPT !.held = f.bytes, !.next = f.next, !.marker = f.marker]
          ELSE [s EXCEPT !.held = zeros,
                         !.next = IF s.marker = 0 THEN f.next ELSE @,
                         !.marker = IF s.marker = 0 THEN f.marker ELSE @,
                         !.short = TRUE]
  BY DEF Refilled
<1> HIDE DEF f, r, zeros
<1>8. CASE s.marker = 0 /\ ~ f.ok
  <2>1. r = [s EXCEPT !.ok = FALSE]
    BY <1>7, <1>8
  <2>2. r \in WorkingStates /\ ~ r.ok /\ r.next = s.next /\ r.marker = s.marker
    BY <1>1, <2>1 DEF WorkingStates
  <2> QED
    BY <2>2 DEF r
<1>9. CASE s.marker = 0 /\ ~ (s.marker = 0 /\ ~ f.ok) /\ f.bytes # <<>>
  <2>1. r = [s EXCEPT !.held = f.bytes, !.next = f.next, !.marker = f.marker]
    BY <1>7, <1>9
  <2>2. r \in WorkingStates /\ r.held # <<>> /\ r.next = f.next /\ r.marker = f.marker
    BY <1>1, <1>4, <1>9, <2>1 DEF WorkingStates
  <2> QED
    BY <1>5, <1>9, <2>2 DEF r
<1>10. CASE s.marker = 0 /\ ~ (s.marker = 0 /\ ~ f.ok) /\ f.bytes = <<>>
  <2>1. r = [s EXCEPT !.held = zeros, !.next = f.next, !.marker = f.marker, !.short = TRUE]
    BY <1>7, <1>10
  <2>2. r \in WorkingStates /\ r.held # <<>> /\ r.next = f.next /\ r.marker = f.marker
    BY <1>1, <1>4, <1>6, <2>1 DEF WorkingStates
  <2> QED
    BY <1>5, <1>10, <2>2 DEF r
<1>11. CASE s.marker # 0
  <2>1. r = [s EXCEPT !.held = zeros, !.next = @, !.marker = @, !.short = TRUE]
    BY <1>7, <1>11
  <2>2. r \in WorkingStates /\ r.held # <<>> /\ r.next = s.next /\ r.marker = s.marker
    BY <1>1, <1>6, <2>1 DEF WorkingStates
  <2> QED
    BY <2>2 DEF r
<1> QED
  BY <1>8, <1>9, <1>10, <1>11

\* A block more.
LEMMA DecodeBlockFacts ==
  ASSUME TypesOK, NEW s \in WorkingStates, s.ok
  PROVE  /\ DecodeBlock(s) \in WorkingStates
         /\ Path(s.next, s.marker) => Path(DecodeBlock(s).next, DecodeBlock(s).marker)
<1> DEFINE r == IF s.held = <<>> THEN Refilled(s) ELSE s
           d == DecodeBlock(s)
<1>1. /\ r \in WorkingStates /\ (r.ok => r.held # <<>>)
      /\ Path(s.next, s.marker) => Path(r.next, r.marker)
  <2>1. CASE s.held = <<>>
    BY <2>1, RefilledFacts
  <2>2. CASE s.held # <<>>
    BY <2>2
  <2> QED
    BY <2>1, <2>2
<1>2. d = IF ~ r.ok THEN r ELSE [r EXCEPT !.held = Tail(@), !.blocks = Append(@, Head(r.held))]
  BY DEF DecodeBlock
<1> HIDE DEF r, d
<1>3. r \in [ok : BOOLEAN, next : Nat, held : Seq(Nat), marker : Nat, short : BOOLEAN, blocks : Seq(Nat)]
  BY <1>1 DEF WorkingStates
<1>4. CASE ~ r.ok
  BY <1>1, <1>2, <1>4 DEF d
<1>5. CASE r.ok
  <2> DEFINE t == Tail(r.held)
             b == Append(r.blocks, Head(r.held))
  <2>1. t \in Seq(Nat) /\ Head(r.held) \in Nat
    BY <1>1, <1>3, <1>5, HeadTailProperties
  <2>2. b \in Seq(Nat)
    BY <1>3, <2>1
  <2>3. d = [r EXCEPT !.held = t, !.blocks = b]
    BY <1>2, <1>5
  <2> HIDE DEF t, b
  <2>4. d \in WorkingStates /\ d.next = r.next /\ d.marker = r.marker
    BY <1>3, <2>1, <2>2, <2>3 DEF WorkingStates
  <2> QED
    BY <1>1, <2>4 DEF d
<1> QED
  BY <1>4, <1>5

\* decode_mcu passes no marker, and finds the next one.
LEMMA DecodedMcuFacts ==
  ASSUME TypesOK
  PROVE  DecodedMcu \in WorkingStates /\ Path(DecodedMcu.next, DecodedMcu.marker)
<1> DEFINE S == WorkingStates
           P == {s \in S : Path(s.next, s.marker)}
           next == [s \in S |-> IF ~ s.ok \/ Len(s.blocks) = blocks_in_MCU THEN s ELSE DecodeBlock(s)]
<1>1. Working \in P
  <2>1. held \in Seq(Nat) /\ unread_marker \in Nat
    BY DEF TypesOK
  <2>2. Working \in S /\ Working.next = 0 /\ Working.marker = unread_marker
    BY <2>1 DEF Working, WorkingStates
  <2>3. Path(0, unread_marker)
    BY ReachNothing DEF Path
  <2> QED
    BY <2>2, <2>3
<1>2. \A s \in S : next[s] \in S /\ (s \in P => next[s] \in P)
  <2> TAKE s \in S
  <2>1. CASE ~ s.ok \/ Len(s.blocks) = blocks_in_MCU
    BY <2>1
  <2>2. CASE ~ (~ s.ok \/ Len(s.blocks) = blocks_in_MCU)
    BY <2>2, DecodeBlockFacts
  <2> QED
    BY <2>1, <2>2
<1>3. next \in [S -> S] /\ (\A s \in P : next[s] \in P) /\ P \in SUBSET S /\ D_MAX_BLOCKS_IN_MCU \in Nat
  <2>1. \A s \in S : next[s] = IF ~ s.ok \/ Len(s.blocks) = blocks_in_MCU THEN s ELSE DecodeBlock(s)
    OBVIOUS
  <2>2. next \in [S -> S]
    BY <1>2, <2>1
  <2> QED
    BY <1>2, <2>2 DEF D_MAX_BLOCKS_IN_MCU
<1>4. DecodedMcu = Repeated(Working, next, D_MAX_BLOCKS_IN_MCU)[D_MAX_BLOCKS_IN_MCU]
  BY DEF DecodedMcu, Repeated
<1>5. DecodedMcu \in P
  <2> HIDE DEF S, P, next
  <2>1. Repeated(Working, next, D_MAX_BLOCKS_IN_MCU)[D_MAX_BLOCKS_IN_MCU] \in P
    BY ONLY <1>1, <1>3, RepeatedKeeps
  <2> QED
    BY <1>4, <2>1
<1> QED
  BY <1>5

(***************************************************************************)
(* What the handlers of markers do                                         *)
(***************************************************************************)

\* The length word.
LEMMA LengthFacts ==
  ASSUME TypesOK
  PROVE  In2(1) \in Nat /\ Length = In2(1) - 2 /\ In2(1) = (256 * In(1)) + In(2) /\ In(1) \in 0 .. 255 /\ In(2) \in 0 .. 255
<1>1. In2(1) \in Nat /\ In2(1) = (256 * In(1)) + In(1 + 1)
  BY In2Facts DEF TypesOK
<1>2. In(1) \in 0 .. 255 /\ In(2) \in 0 .. 255
  BY InFacts DEF TypesOK
<1> QED
  BY <1>1, <1>2 DEF Length

\* What Need asks for each kind of marker, only one kind at a time.
LEMMA MarkersApart ==
  /\ \A m \in SOFs : m \notin {SOS, DHT, DQT, DRI, APP0, APP14, COM} \union Skipped
  /\ SOS \notin SOFs \union {DHT, DQT, DRI, APP0, APP14, COM} \union Skipped
  /\ DRI \notin SOFs \union {SOS, DHT, DQT, APP0, APP14, COM} \union Skipped
BY DEF SOFs, Skipped, APPs, COM, SOF0, SOF1, SOF2, SOF9, SOF10, SOS, DRI, DHT, DQT, APP0, APP14, DNL, DAC

\* Every handler of a marker with a length passes its segment, or two bytes if the
\* length is not even that of its own word.
LEMMA SegmentHandled ==
  ASSUME TypesOK,
         GetSof \/ GetSos \/ GetDht \/ GetDqt \/ GetDri \/ GetInterestingAppn \/ SkipVariable
  PROVE  /\ pos' = pos + In2(1) \/ (pos' = pos + 2 /\ In2(1) < 2)
         /\ unread_marker \notin {0} \union Alone /\ (unread_marker = COM => length_limit_COM = 0)
         /\ unread_marker' = 0
         /\ UNCHANGED <<file, source, avail, saw_SOI, cur_marker, marker_list, length_limit_COM>>
         /\ next_restart_num' \in {0, next_restart_num}
         /\ at = "markers"
         /\ UNCHANGED <<at, result>> \/ (at' = "idle" /\ result' = "REACHED_SOS")
<1> DEFINE w == In2(1)
<1>1. w \in Nat /\ Length = w - 2
  BY LengthFacts
<1> HIDE DEF w
<1> USE DEF Handled, Continues, sourceVars
<1>2. CASE GetSof
  <2>1. unread_marker \in SOFs /\ ~ Bad /\ Has(Need) /\ pos' = pos + Need
    BY <1>2 DEF GetSof
  <2>2. Need = IF Has(8) THEN 8 + (3 * In(8)) ELSE 8
    <3>1. unread_marker \notin {SOS, DHT, DQT, DRI, APP0, APP14, COM} \union Skipped
      BY <2>1, MarkersApart
    <3> QED
      BY ONLY <2>1, <3>1 DEF Need
  <2>3. Has(8) /\ Need = 8 + (3 * In(8))
    BY <2>1, <2>2
  <2>4. w = 8 + (3 * In(8))
    BY <2>1, <2>3 DEF Bad, w
  <2>5. pos' = pos + w
    BY <2>1, <2>3, <2>4
  <2>6. unread_marker \notin {0} \union Alone /\ unread_marker # COM
    BY <2>1 DEF SOFs, Alone, COM, Restarts, SOI, EOI, SOF0, SOF1, SOF2, SOF9, SOF10, RST0
  <2> QED
    BY <1>2, <2>5, <2>6 DEF GetSof, w
<1>3. CASE GetSos
  <2>1. unread_marker = SOS /\ ~ Bad /\ Has(Need) /\ pos' = pos + Need
    BY <1>3 DEF GetSos
  <2>2. unread_marker \notin {0} \union Alone /\ unread_marker # COM /\ unread_marker \notin SOFs
    BY <2>1 DEF SOFs, Alone, COM, Restarts, SOI, EOI, SOF0, SOF1, SOF2, SOF9, SOF10, RST0, SOS
  <2>3. Need = IF Has(3) THEN 6 + (2 * In(3)) ELSE 3
    <3>1. unread_marker \notin SOFs \union {DHT, DQT, DRI, APP0, APP14, COM} \union Skipped
      BY <2>1, MarkersApart
    <3> QED
      BY ONLY <2>1, <3>1 DEF Need
  <2>4. Has(3) /\ Need = 6 + (2 * In(3))
    BY <2>1, <2>3
  <2>5. w = 6 + (2 * In(3))
    BY <2>1, <2>4 DEF Bad, w
  <2>6. pos' = pos + w
    BY <2>1, <2>4, <2>5
  <2> QED
    BY <1>3, <2>2, <2>6 DEF GetSos, Return, w
<1>4. CASE GetDht \/ GetDqt
  <2>1. unread_marker \in {DHT, DQT} /\ pos' = pos + (2 + Length)
    BY <1>4 DEF GetDht, GetDqt
  <2>2. pos' = pos + w
    BY <1>1, <2>1 DEF TypesOK
  <2>3. unread_marker \notin {0} \union Alone /\ unread_marker # COM
    BY <2>1 DEF Alone, COM, Restarts, SOI, EOI, SOF0, RST0, DHT, DQT
  <2> QED
    BY <1>4, <2>2, <2>3 DEF GetDht, GetDqt, w
<1>5. CASE GetDri
  <2>1. unread_marker = DRI /\ ~ Bad /\ Has(Need) /\ pos' = pos + 4
    BY <1>5 DEF GetDri
  <2>2. unread_marker \notin {0} \union Alone /\ unread_marker # COM
        /\ unread_marker \notin SOFs \union {SOS, DHT, DQT}
    BY <2>1 DEF SOFs, Alone, COM, Restarts, SOI, EOI, SOF0, SOF1, SOF2, SOF9, SOF10, RST0, SOS, DRI, DHT, DQT
  <2>3. Need = 4
    <3>1. unread_marker \notin SOFs \union {SOS, DHT, DQT, APP0, APP14, COM} \union Skipped
      BY <2>1, MarkersApart
    <3> QED
      BY ONLY <2>1, <3>1 DEF Need
  <2>4. Has(2)
    BY <2>1, <2>3 DEF Has, TypesOK
  <2>5. w = 4
    BY <2>1, <2>4 DEF Bad, w
  <2> QED
    BY <1>5, <2>1, <2>2, <2>5 DEF GetDri, w
<1>6. CASE GetInterestingAppn \/ SkipVariable
  <2>1. /\ unread_marker \in {APP0, APP14} \union Skipped \union {COM}
        /\ unread_marker = COM => length_limit_COM = 0
        /\ pos' = pos + (2 + Skip(Length))
    <3>1. CASE GetInterestingAppn
      BY <3>1 DEF GetInterestingAppn, COM, APP0, APP14
    <3>2. CASE SkipVariable
      <4>1. COM \notin Skipped
        BY DEF Skipped, APPs, COM, APP0, APP14, DNL, DAC
      <4> QED
        BY <3>2, <4>1 DEF SkipVariable
    <3> QED
      BY <1>6, <3>1, <3>2
  <2>2. pos' = pos + w \/ (pos' = pos + 2 /\ w < 2)
    <3>1. pos' = pos + (2 + (IF Length > 0 THEN Length ELSE 0))
      BY <2>1 DEF Skip
    <3> QED
      BY <1>1, <3>1 DEF TypesOK
  <2>3. unread_marker \notin {0} \union Alone
    BY <2>1 DEF Alone, COM, Restarts, SOI, EOI, SOF0, RST0, Skipped, APPs, APP0, APP14, DNL, DAC
  <2> QED
    BY <1>6, <2>1, <2>2, <2>3 DEF GetInterestingAppn, SkipVariable, w
<1> QED
  BY <1>2, <1>3, <1>4, <1>5, <1>6

\* A marker that stands alone is passed without a byte.
LEMMA AloneHandled ==
  ASSUME TypesOK, ReachEoi \/ Parameterless
  PROVE  /\ unread_marker \in Alone \ {0, SOI, COM} /\ unread_marker' = 0
         /\ UNCHANGED <<file, source, avail, pos, saw_SOI, cur_marker, marker_list, length_limit_COM, next_restart_num>>
         /\ at = "markers"
         /\ UNCHANGED <<at, result>> \/ (at' = "idle" /\ result' = "REACHED_EOI")
<1>1. unread_marker \in {EOI, TEM} \union Restarts
  BY DEF ReachEoi, Parameterless, Handled
<1>2. unread_marker \in Alone \ {0, SOI, COM}
  BY <1>1 DEF Alone, Restarts, SOI, EOI, TEM, COM, SOF0, RST0
<1>3. pos' = pos
  BY DEF ReachEoi, Parameterless, Handled, TypesOK
<1> QED
  BY <1>2, <1>3 DEF ReachEoi, Parameterless, Handled, Continues, Return, sourceVars

\* And so is SOI, which begins a datastream.
LEMMA SoiHandled ==
  ASSUME TypesOK, GetSoi
  PROVE  /\ unread_marker = SOI /\ ~ saw_SOI /\ saw_SOI' = TRUE /\ unread_marker' = 0
         /\ UNCHANGED <<file, source, avail, pos, cur_marker, marker_list, length_limit_COM, next_restart_num, at, result>>
         /\ at = "markers"
<1>1. pos' = pos
  BY DEF GetSoi, Handled, TypesOK
<1> QED
  BY <1>1 DEF GetSoi, Handled, Bad, Continues, sourceVars

\* The shorter of two lengths.
Least(a, b) == IF a < b THEN a ELSE b

\* The c bytes behind the next s.
Run(s, c) == [k \in 1 .. c |-> In(s + k)]

\* They are numbers, as many as asked for.
LEMMA RunOfBytes ==
  ASSUME TypesOK, NEW s \in Nat, NEW c \in Nat
  PROVE  Run(s, c) \in Seq(Nat) /\ Len(Run(s, c)) = c /\ <<>> \o Run(s, c) = Run(s, c)
<1> DEFINE run == Run(s, c)
<1>1. \A k \in 1 .. c : In(s + k) \in Nat
  <2> TAKE k \in 1 .. c
  <2>1. s + k \in Nat /\ s + k > 0
    OBVIOUS
  <2>2. In(s + k) \in 0 .. 255
    BY <2>1, InFacts DEF TypesOK
  <2> QED
    BY <2>2
<1>2. run \in [1 .. c -> Nat]
  BY <1>1 DEF Run
<1> HIDE DEF run
<1>3. run \in Seq(Nat)
  BY <1>2
<1>4. Len(run) = c
  BY <1>2, <1>3, LenProperties
<1>5. <<>> \o run = run
  BY <1>3
<1> QED
  BY <1>3, <1>4, <1>5 DEF run

\* save_marker with a new marker: its segment is none, or all there, or only begun.
LEMMA SavingStarts ==
  ASSUME TypesOK, SaveMarker, cur_marker = NoMarker
  PROVE  LET most == Least(Length, length_limit_COM)
         IN  \/ /\ In2(1) < 2 /\ pos' = pos + 2 /\ unread_marker' = 0
                /\ UNCHANGED <<cur_marker, marker_list, at, result>>
             \/ /\ Length \in Nat /\ most \in Nat /\ pos' = pos + In2(1) /\ unread_marker' = 0
                /\ marker_list' = Append(marker_list, [k \in 1 .. most |-> In(2 + k)])
                /\ UNCHANGED <<cur_marker, at, result>>
             \/ /\ Length \in Nat /\ most \in Nat /\ pos' \in pos + 2 .. pos + 1 + most
                /\ cur_marker' = [marker |-> COM, original_length |-> Length, data_length |-> most,
                                  data |-> [k \in 1 .. pos' - (pos + 2) |-> In(2 + k)]]
                /\ UNCHANGED <<unread_marker, marker_list>>
                /\ at' = "idle" /\ result' = "SUSPENDED"
<1> DEFINE most == Least(Length, length_limit_COM)
<1>1. pos \in Nat /\ avail \in Nat /\ length_limit_COM \in Nat /\ In2(1) \in Nat /\ Length = In2(1) - 2
  BY LengthFacts DEF TypesOK
<1>2. Saving = [marker |-> COM, original_length |-> Length, data_length |-> most, data |-> <<>>]
  BY DEF Saving, Least
<1>3. Length \in Int /\ (Length >= 0 => Length \in Nat /\ most \in Nat /\ most <= Length)
  BY <1>1 DEF Least
<1>4. Has(2)
  BY DEF SaveMarker
<1> HIDE DEF most
<1>5. Saving.data_length = most /\ Saving.original_length = Length /\ Saving.data = <<>> /\ Len(Saving.data) = 0
  BY <1>2
<1>6. \/ Length < 0 /\ pos' = pos + 2 /\ unread_marker' = 0 /\ Continues /\ UNCHANGED <<cur_marker, marker_list>>
      \/ /\ Length >= 0
         /\ pos' = pos + 2 + (most - 0) + (Length - most)
         /\ marker_list' = Append(marker_list, <<>> \o [k \in 1 .. most - 0 |-> In(2 + k)])
         /\ cur_marker' = NoMarker /\ unread_marker' = 0 /\ Continues
      \/ /\ Length >= 0 /\ ~ Has(2 + (most - 0))
         /\ pos' = IF avail > pos + 2 THEN avail ELSE pos + 2
         /\ cur_marker' = [Saving EXCEPT !.data = <<>> \o [k \in 1 .. pos' - (pos + 2) |-> In(2 + k)]]
         /\ Return("SUSPENDED") /\ UNCHANGED <<unread_marker, marker_list>>
  BY <1>5 DEF SaveMarker
<1>7. CASE Length < 0 /\ pos' = pos + 2 /\ unread_marker' = 0 /\ Continues /\ UNCHANGED <<cur_marker, marker_list>>
  BY <1>1, <1>7 DEF Continues
<1>8. CASE /\ Length >= 0
           /\ pos' = pos + 2 + (most - 0) + (Length - most)
           /\ marker_list' = Append(marker_list, <<>> \o [k \in 1 .. most - 0 |-> In(2 + k)])
           /\ cur_marker' = NoMarker /\ unread_marker' = 0 /\ Continues
  <2>1. most - 0 = most /\ pos' = pos + In2(1)
    BY <1>1, <1>3, <1>8
  <2> DEFINE run == [k \in 1 .. most |-> In(2 + k)]
  <2>2. <<>> \o run = run
    BY <1>3, <1>8, RunOfBytes DEF Run
  <2>3. marker_list' = Append(marker_list, run)
    BY <1>8, <2>1, <2>2
  <2> QED
    BY <1>3, <1>8, <2>1, <2>3 DEF Continues, most
<1>9. CASE /\ Length >= 0 /\ ~ Has(2 + (most - 0))
           /\ pos' = IF avail > pos + 2 THEN avail ELSE pos + 2
           /\ cur_marker' = [Saving EXCEPT !.data = <<>> \o [k \in 1 .. pos' - (pos + 2) |-> In(2 + k)]]
           /\ Return("SUSPENDED") /\ UNCHANGED <<unread_marker, marker_list>>
  <2>1. source # "stdio" /\ ~ (pos + (2 + most) <= avail) /\ pos + 2 <= avail
    BY <1>1, <1>3, <1>4, <1>9 DEF Has
  <2>2. pos' \in pos + 2 .. pos + 1 + most
    BY <1>1, <1>3, <1>9, <2>1
  <2> DEFINE c == pos' - (pos + 2)
             run == [k \in 1 .. c |-> In(2 + k)]
  <2>3. c \in Nat
    BY <1>1, <1>3, <1>9, <2>2
  <2>4. <<>> \o run = run
    <3> HIDE DEF c
    <3> QED
      BY <2>3, RunOfBytes DEF Run
  <2>5. cur_marker' = [Saving EXCEPT !.data = run]
    BY <1>9, <2>4
  <2> HIDE DEF run
  <2>6. cur_marker' = [marker |-> COM, original_length |-> Length, data_length |-> most, data |-> run]
    BY <1>2, <2>5
  <2> QED
    BY <1>3, <1>9, <2>2, <2>6 DEF Return, most, run
<1> QED
  BY <1>6, <1>7, <1>8, <1>9

\* save_marker with a marker it had to leave.
LEMMA SavingResumes ==
  ASSUME TypesOK, SavingFits, SaveMarker, cur_marker # NoMarker
  PROVE  LET left == cur_marker.data_length - Len(cur_marker.data)
         IN  /\ left \in Nat
             /\ \/ /\ pos' = pos + left + (cur_marker.original_length - cur_marker.data_length)
                   /\ marker_list' = Append(marker_list, cur_marker.data \o [k \in 1 .. left |-> In(k)])
                   /\ cur_marker' = NoMarker /\ unread_marker' = 0
                   /\ UNCHANGED <<at, result>>
                \/ /\ pos' \in pos .. pos + left /\ (left > 0 => pos' < pos + left)
                   /\ cur_marker' = [cur_marker EXCEPT !.data = @ \o [k \in 1 .. pos' - pos |-> In(k)]]
                   /\ UNCHANGED <<unread_marker, marker_list>>
                   /\ at' = "idle" /\ result' = "SUSPENDED"
<1> DEFINE left == cur_marker.data_length - Len(cur_marker.data)
<1>1. pos \in Nat /\ avail \in Nat
  BY DEF TypesOK
<1>2. left \in Nat /\ cur_marker.original_length \in Nat /\ cur_marker.data_length \in Nat
  <2>1. /\ cur_marker \in [marker : {COM}, original_length : Nat, data_length : Nat, data : Seq(Nat)]
        /\ Len(cur_marker.data) <= cur_marker.data_length
    BY DEF SavingFits
  <2>2. Len(cur_marker.data) \in Nat /\ cur_marker.original_length \in Nat /\ cur_marker.data_length \in Nat
    BY <2>1
  <2> QED
    BY <2>1, <2>2
<1>3. Saving = cur_marker
  BY DEF Saving
<1> HIDE DEF left
<1>4. \A k : 0 + k = k \/ k \notin Nat
  OBVIOUS
<1>5. [k \in 1 .. left |-> In(0 + k)] = [k \in 1 .. left |-> In(k)]
  BY <1>4
<1>6. \A c : [k \in 1 .. c |-> In(0 + k)] = [k \in 1 .. c |-> In(k)]
  BY <1>4
<1>7. \/ /\ pos' = pos + 0 + left + (cur_marker.original_length - cur_marker.data_length)
         /\ marker_list' = Append(marker_list, cur_marker.data \o [k \in 1 .. left |-> In(0 + k)])
         /\ cur_marker' = NoMarker /\ unread_marker' = 0 /\ Continues
      \/ /\ ~ Has(0 + left)
         /\ pos' = IF avail > pos + 0 THEN avail ELSE pos + 0
         /\ cur_marker' = [cur_marker EXCEPT !.data = @ \o [k \in 1 .. pos' - (pos + 0) |-> In(0 + k)]]
         /\ Return("SUSPENDED") /\ UNCHANGED <<unread_marker, marker_list>>
  <2> DEFINE start == IF cur_marker = NoMarker THEN 2 ELSE 0
             d == Saving.data_length - Len(Saving.data)
  <2>1. \/ start = 2 /\ Length < 0
        \/ /\ pos' = pos + start + d + (Saving.original_length - Saving.data_length)
           /\ marker_list' = Append(marker_list, Saving.data \o [k \in 1 .. d |-> In(start + k)])
           /\ cur_marker' = NoMarker /\ unread_marker' = 0 /\ Continues
        \/ /\ ~ Has(start + d)
           /\ pos' = IF avail > pos + start THEN avail ELSE pos + start
           /\ cur_marker' = [Saving EXCEPT !.data = @ \o [k \in 1 .. pos' - (pos + start) |-> In(start + k)]]
           /\ Return("SUSPENDED") /\ UNCHANGED <<unread_marker, marker_list>>
    BY Zenon DEF SaveMarker
  <2>2. start = 0 /\ d = left
    BY <1>3 DEF left
  <2> HIDE DEF start, d
  <2>3. CASE start = 2 /\ Length < 0
    BY <2>2, <2>3
  <2>4. CASE /\ pos' = pos + start + d + (Saving.original_length - Saving.data_length)
             /\ marker_list' = Append(marker_list, Saving.data \o [k \in 1 .. d |-> In(start + k)])
             /\ cur_marker' = NoMarker /\ unread_marker' = 0 /\ Continues
    BY <1>3, <2>2, <2>4, Zenon
  <2>5. CASE /\ ~ Has(start + d)
             /\ pos' = IF avail > pos + start THEN avail ELSE pos + start
             /\ cur_marker' = [Saving EXCEPT !.data = @ \o [k \in 1 .. pos' - (pos + start) |-> In(start + k)]]
             /\ Return("SUSPENDED") /\ UNCHANGED <<unread_marker, marker_list>>
    BY <1>3, <2>2, <2>5, Zenon
  <2> QED
    BY <2>1, <2>3, <2>4, <2>5
<1>8. CASE /\ pos' = pos + 0 + left + (cur_marker.original_length - cur_marker.data_length)
           /\ marker_list' = Append(marker_list, cur_marker.data \o [k \in 1 .. left |-> In(0 + k)])
           /\ cur_marker' = NoMarker /\ unread_marker' = 0 /\ Continues
  <2>1. pos' = pos + left + (cur_marker.original_length - cur_marker.data_length)
    BY <1>1, <1>2, <1>8
  <2> QED
    BY <1>2, <1>5, <1>8, <2>1 DEF Continues, left
<1>9. CASE /\ ~ Has(0 + left)
           /\ pos' = IF avail > pos + 0 THEN avail ELSE pos + 0
           /\ cur_marker' = [cur_marker EXCEPT !.data = @ \o [k \in 1 .. pos' - (pos + 0) |-> In(0 + k)]]
           /\ Return("SUSPENDED") /\ UNCHANGED <<unread_marker, marker_list>>
  <2>1. ~ (pos + left <= avail) /\ pos + 0 = pos
    BY <1>1, <1>2, <1>9 DEF Has
  <2>2. pos' \in pos .. pos + left /\ (left > 0 => pos' < pos + left)
    BY <1>1, <1>2, <1>9, <2>1
  <2>3. cur_marker' = [cur_marker EXCEPT !.data = @ \o [k \in 1 .. pos' - pos |-> In(k)]]
    BY <1>6, <1>9, <2>1
  <2> QED
    BY <1>2, <1>9, <2>2, <2>3 DEF Return, left
<1> QED
  BY <1>7, <1>8, <1>9

(***************************************************************************)
(* Whose turn it is                                                        *)
(***************************************************************************)

\* Init makes the first part of the invariant true.
LEMMA InitTurns == Init => TurnsInv
BY FilesAssumption, SaveLimitsAssumption
   DEF Init, ReaderInit, TurnsInv, TypesOK, MethodFits, CallsRest, SavingFits, ResultFits, EndFits, StartFits

\* Bytes of a comment that are there, less than were asked for.
LEMMA InRange ==
  ASSUME NEW p \in Nat, NEW m \in Nat, NEW q \in p + 2 .. p + 1 + m
  PROVE  q \in Nat /\ q - (p + 2) \in Nat /\ q - (p + 2) <= m
OBVIOUS

\* A piece of a comment more.
LEMMA MoreIsSaved ==
  ASSUME TypesOK, NEW c \in [marker : {COM}, original_length : Nat, data_length : Nat, data : Seq(Nat)],
         NEW n \in Nat, Len(c.data) + n <= c.data_length
  PROVE  LET d == [c EXCEPT !.data = @ \o [k \in 1 .. n |-> In(k)]]
         IN  /\ d \in [marker : {COM}, original_length : Nat, data_length : Nat, data : Seq(Nat)]
             /\ Len(d.data) <= d.data_length /\ d.data_length = c.data_length
             /\ d.original_length = c.original_length /\ d # NoMarker
<1> DEFINE run == [k \in 1 .. n |-> In(k)]
           both == c.data \o run
<1>1. run \in Seq(Nat) /\ Len(run) = n
  <2>1. Run(0, n) = run
    BY DEF Run
  <2>2. 0 \in Nat
    OBVIOUS
  <2> HIDE DEF run
  <2> QED
    BY <2>1, <2>2, RunOfBytes
<1>2. c.data \in Seq(Nat)
  OBVIOUS
<1> HIDE DEF run
<1>3. both \in Seq(Nat) /\ Len(both) = Len(c.data) + n
  BY <1>1, <1>2, ConcatProperties
<1> DEFINE d == [c EXCEPT !.data = both]
<1> HIDE DEF both
<1>4. d \in [marker : {COM}, original_length : Nat, data_length : Nat, data : Seq(Nat)]
  BY <1>3
<1>5. d.data = both /\ d.data_length = c.data_length /\ d.original_length = c.original_length /\ d.marker = COM
  OBVIOUS
<1>6. NoMarker.marker = 0 /\ COM # 0
  BY DEF NoMarker, COM
<1> HIDE DEF d
<1> QED
  BY <1>3, <1>4, <1>5, <1>6 DEF d, both, run

\* read_markers returns with a marker used up, or for want of bytes.
LEMMA ReadMarkersKeepTurns ==
  ASSUME TurnsInv, ReadMarkers, UNCHANGED <<controlVars, entropyVars>>
  PROVE  TurnsInv'
<1>a. COM # 0 /\ SOI # COM /\ SOI # 0
  BY DEF COM, SOI
<1>0. UNCHANGED <<global_state, call, consume_input, eoi_reached, held>>
  BY DEF controlVars, entropyVars
<1>1. TypesOK /\ SavingFits
  BY DEF TurnsInv
<1> USE DEF MethodFits, CallsRest, SavingFits, ResultFits, EndFits, StartFits
<1>2. CASE LookForMarker
  <2>1. /\ at = "markers" /\ unread_marker = 0 /\ saw_SOI
        /\ UNCHANGED <<file, source, avail, saw_SOI, cur_marker, marker_list, length_limit_COM, next_restart_num>>
        /\ UNCHANGED <<at, result>> \/ (at' = "idle" /\ result' = "SUSPENDED" /\ unread_marker' = 0)
    BY <1>2 DEF LookForMarker, sourceVars, Return, NextMarkerSuspends
  <2>2. pos' \in Nat /\ unread_marker' \in Nat
    BY <1>1, <1>2, SearchMoves DEF LookForMarker
  <2>3. TypesOK'
    BY <1>0, <1>1, <2>1, <2>2 DEF TypesOK
  <2> QED
    BY <1>0, <1>a, <2>1, <2>3 DEF TurnsInv
<1>3. CASE FirstMarker
  <2>1. /\ at = "markers" /\ unread_marker = 0 /\ ~ saw_SOI
        /\ UNCHANGED <<file, source, avail, saw_SOI, cur_marker, marker_list, length_limit_COM, next_restart_num>>
        /\ unread_marker' \in {0, SOI} /\ pos' \in {pos, pos + 2}
        /\ \/ UNCHANGED <<at, result>>
           \/ at' = "idle" /\ result' = "SUSPENDED" /\ unread_marker' = 0
           \/ at' = "exited" /\ result' = "none" /\ unread_marker' = 0
    BY <1>3 DEF FirstMarker, sourceVars, markerVars, Return, Fails
  <2>2. TypesOK'
    BY <1>0, <1>1, <2>1 DEF TypesOK, SOI
  <2> QED
    BY <1>0, <1>a, <2>1, <2>2 DEF TurnsInv
<1>4. CASE BadMarker \/ MarkerSuspends
  <2>1. /\ at = "markers" /\ unread_marker # 0
        /\ UNCHANGED <<file, source, avail, pos, unread_marker, saw_SOI, cur_marker, marker_list,
                       length_limit_COM, next_restart_num>>
        /\ \/ at' = "idle" /\ result' = "SUSPENDED"
           \/ at' = "exited" /\ result' = "none"
    BY <1>4 DEF BadMarker, MarkerSuspends, sourceVars, markerVars, Return, Fails
  <2>2. TypesOK'
    BY <1>0, <1>1, <2>1 DEF TypesOK
  <2> QED
    BY <1>0, <2>1, <2>2 DEF TurnsInv
<1>5. CASE GetSof \/ GetSos \/ GetDht \/ GetDqt \/ GetDri \/ GetInterestingAppn \/ SkipVariable
  <2>1. /\ pos' = pos + In2(1) \/ (pos' = pos + 2 /\ In2(1) < 2)
        /\ unread_marker \notin {0} \union Alone /\ (unread_marker = COM => length_limit_COM = 0)
        /\ unread_marker' = 0
        /\ UNCHANGED <<file, source, avail, saw_SOI, cur_marker, marker_list, length_limit_COM>>
        /\ next_restart_num' \in {0, next_restart_num}
        /\ at = "markers"
        /\ UNCHANGED <<at, result>> \/ (at' = "idle" /\ result' = "REACHED_SOS")
    BY <1>1, <1>5, SegmentHandled
  <2>2. pos' \in Nat
    <3>1. In2(1) \in Nat /\ pos \in Nat
      BY <1>1, LengthFacts DEF TypesOK
    <3> QED
      BY <2>1, <3>1
  <2>3. TypesOK'
    BY <1>0, <1>1, <2>1, <2>2 DEF TypesOK
  <2>4. unread_marker # 0 /\ unread_marker # SOI
    BY <2>1 DEF Alone
  <2>5. cur_marker = NoMarker /\ saw_SOI /\ consume_input = "markers" /\ ~ eoi_reached
    BY <2>1, <2>4 DEF TurnsInv
  <2> QED
    BY <1>0, <2>1, <2>3, <2>4, <2>5 DEF TurnsInv
<1>6. CASE ReachEoi \/ Parameterless
  <2>1. /\ unread_marker \in Alone \ {0, SOI, COM} /\ unread_marker' = 0
        /\ UNCHANGED <<file, source, avail, pos, saw_SOI, cur_marker, marker_list, length_limit_COM, next_restart_num>>
        /\ at = "markers"
        /\ UNCHANGED <<at, result>> \/ (at' = "idle" /\ result' = "REACHED_EOI")
    BY <1>1, <1>6, AloneHandled
  <2>2. TypesOK'
    BY <1>0, <1>1, <2>1 DEF TypesOK
  <2>3. cur_marker = NoMarker /\ saw_SOI /\ consume_input = "markers" /\ ~ eoi_reached
    BY <2>1 DEF TurnsInv
  <2> QED
    BY <1>0, <2>1, <2>2, <2>3 DEF TurnsInv
<1>7. CASE GetSoi
  <2>1. /\ unread_marker = SOI /\ ~ saw_SOI /\ saw_SOI' = TRUE /\ unread_marker' = 0
        /\ UNCHANGED <<file, source, avail, pos, cur_marker, marker_list, length_limit_COM, next_restart_num, at, result>>
        /\ at = "markers"
    BY <1>1, <1>7, SoiHandled
  <2>2. TypesOK'
    BY <1>0, <1>1, <2>1 DEF TypesOK
  <2>3. SOI # COM /\ SOI # 0
    BY DEF SOI, COM
  <2>4. cur_marker = NoMarker
    BY <2>1, <2>3 DEF TurnsInv
  <2> QED
    BY <1>0, <2>1, <2>2, <2>3, <2>4 DEF TurnsInv
<1>8. CASE SaveMarker
  <2>1. /\ at = "markers" /\ unread_marker = COM /\ length_limit_COM # 0
        /\ UNCHANGED <<file, source, avail, saw_SOI, length_limit_COM, next_restart_num>>
    BY <1>8 DEF SaveMarker, sourceVars
  <2>2. COM \in Nat /\ COM # 0 /\ COM # SOI
    BY DEF COM, SOI
  <2>3. saw_SOI /\ ~ eoi_reached /\ consume_input = "markers" /\ global_state # "START"
        /\ (global_state = "READY" => at = "exited")
    BY <2>1, <2>2 DEF TurnsInv
  <2>4. \/ pos' \in Nat /\ unread_marker' = 0 /\ cur_marker' = NoMarker /\ UNCHANGED <<at, result>>
        \/ /\ pos' \in Nat /\ UNCHANGED unread_marker /\ at' = "idle" /\ result' = "SUSPENDED"
           /\ cur_marker' \in [marker : {COM}, original_length : Nat, data_length : Nat, data : Seq(Nat)]
           /\ Len(cur_marker'.data) <= cur_marker'.data_length
           /\ cur_marker'.data_length <= cur_marker'.original_length
    <3>0. pos \in Nat /\ In2(1) \in Nat /\ Length = In2(1) - 2 /\ length_limit_COM \in Nat
      BY <1>1, LengthFacts DEF TypesOK
    <3>1. CASE cur_marker = NoMarker
      <4> DEFINE most == Least(Length, length_limit_COM)
      <4>1. \/ /\ In2(1) < 2 /\ pos' = pos + 2 /\ unread_marker' = 0
               /\ UNCHANGED <<cur_marker, marker_list, at, result>>
            \/ /\ Length \in Nat /\ most \in Nat /\ pos' = pos + In2(1) /\ unread_marker' = 0
               /\ marker_list' = Append(marker_list, [k \in 1 .. most |-> In(2 + k)])
               /\ UNCHANGED <<cur_marker, at, result>>
            \/ /\ Length \in Nat /\ most \in Nat /\ pos' \in pos + 2 .. pos + 1 + most
               /\ cur_marker' = [marker |-> COM, original_length |-> Length, data_length |-> most,
                                 data |-> [k \in 1 .. pos' - (pos + 2) |-> In(2 + k)]]
               /\ UNCHANGED <<unread_marker, marker_list>>
               /\ at' = "idle" /\ result' = "SUSPENDED"
        BY <1>1, <1>8, <3>1, SavingStarts
      <4>2. pos + 2 \in Nat /\ pos + In2(1) \in Nat
        BY <3>0
      <4>3. CASE /\ Length \in Nat /\ most \in Nat /\ pos' \in pos + 2 .. pos + 1 + most
                 /\ cur_marker' = [marker |-> COM, original_length |-> Length, data_length |-> most,
                                   data |-> [k \in 1 .. pos' - (pos + 2) |-> In(2 + k)]]
                 /\ UNCHANGED <<unread_marker, marker_list>>
                 /\ at' = "idle" /\ result' = "SUSPENDED"
        <5> DEFINE c == pos' - (pos + 2)
                   run == [k \in 1 .. c |-> In(2 + k)]
        <5>0. Length \in Nat /\ most \in Nat /\ pos' \in pos + 2 .. pos + 1 + most /\ pos \in Nat
          BY <3>0, <4>3
        <5>1. pos' \in Nat /\ c \in Nat /\ c <= most
          BY <5>0, InRange
        <5>2. run \in Seq(Nat) /\ Len(run) = c
          <6> HIDE DEF c
          <6>1. run = Run(2, c) /\ 2 \in Nat
            BY DEF Run
          <6> HIDE DEF run
          <6> QED
            BY <1>1, <5>1, <6>1, RunOfBytes
        <5>3. most <= Length
          BY <3>0, <4>3 DEF Least
        <5>4. cur_marker' = [marker |-> COM, original_length |-> Length, data_length |-> most, data |-> run]
          BY <4>3
        <5> HIDE DEF run, c, most
        <5>6. /\ cur_marker' \in [marker : {COM}, original_length : Nat, data_length : Nat, data : Seq(Nat)]
              /\ cur_marker'.data = run /\ cur_marker'.data_length = most /\ cur_marker'.original_length = Length
          BY <5>0, <5>2, <5>4
        <5> QED
          BY <4>3, <5>1, <5>2, <5>3, <5>6
      <4> HIDE DEF most
      <4> QED
        BY <3>1, <4>1, <4>2, <4>3
    <3>2. CASE cur_marker # NoMarker
      <4> DEFINE left == cur_marker.data_length - Len(cur_marker.data)
      <4>1. /\ left \in Nat
            /\ \/ /\ pos' = pos + left + (cur_marker.original_length - cur_marker.data_length)
                  /\ marker_list' = Append(marker_list, cur_marker.data \o [k \in 1 .. left |-> In(k)])
                  /\ cur_marker' = NoMarker /\ unread_marker' = 0
                  /\ UNCHANGED <<at, result>>
               \/ /\ pos' \in pos .. pos + left /\ (left > 0 => pos' < pos + left)
                  /\ cur_marker' = [cur_marker EXCEPT !.data = @ \o [k \in 1 .. pos' - pos |-> In(k)]]
                  /\ UNCHANGED <<unread_marker, marker_list>>
                  /\ at' = "idle" /\ result' = "SUSPENDED"
        BY <1>1, <1>8, <3>2, SavingResumes
      <4>2. /\ cur_marker \in [marker : {COM}, original_length : Nat, data_length : Nat, data : Seq(Nat)]
            /\ Len(cur_marker.data) <= cur_marker.data_length
            /\ cur_marker.data_length <= cur_marker.original_length
        BY <1>1, <3>2
      <4>3. cur_marker.original_length \in Nat /\ cur_marker.data_length \in Nat /\ Len(cur_marker.data) \in Nat
        BY <4>2
      <4>4. CASE /\ pos' = pos + left + (cur_marker.original_length - cur_marker.data_length)
                 /\ cur_marker' = NoMarker /\ unread_marker' = 0 /\ UNCHANGED <<at, result>>
        <5> DEFINE rest == cur_marker.original_length - cur_marker.data_length
        <5>1. left \in Nat /\ rest \in Nat
          BY ONLY <4>1, <4>2, <4>3
        <5>2. pos' = pos + left + rest
          BY ONLY <4>4
        <5>3. pos \in Nat
          BY ONLY <1>1 DEF TypesOK
        <5> HIDE DEF left, rest
        <5>4. pos' \in Nat
          BY ONLY <5>1, <5>2, <5>3
        <5> QED
          BY <4>4, <5>4
      <4>5. CASE /\ pos' \in pos .. pos + left
                 /\ cur_marker' = [cur_marker EXCEPT !.data = @ \o [k \in 1 .. pos' - pos |-> In(k)]]
                 /\ UNCHANGED unread_marker /\ at' = "idle" /\ result' = "SUSPENDED"
        <5> DEFINE c == pos' - pos
        <5>1. pos' \in Nat /\ c \in Nat /\ Len(cur_marker.data) + c <= cur_marker.data_length
          <6> DEFINE has == Len(cur_marker.data)
                     size == cur_marker.data_length
                     q == pos'
          <6>1. q \in pos .. pos + left /\ left = size - has /\ left \in Nat /\ c = q - pos
            BY <4>1, <4>5
          <6>2. pos \in Nat /\ has \in Nat /\ size \in Nat
            BY <3>0, <4>3
          <6> HIDE DEF has, size, q, c, left
          <6>3. q \in Nat /\ c \in Nat /\ has + c <= size
            BY <6>1, <6>2
          <6> QED
            BY <6>3 DEF has, size, q
        <5>2. cur_marker' = [cur_marker EXCEPT !.data = @ \o [k \in 1 .. c |-> In(k)]]
          BY <4>5
        <5> HIDE DEF c
        <5>3. /\ cur_marker' \in [marker : {COM}, original_length : Nat, data_length : Nat, data : Seq(Nat)]
              /\ Len(cur_marker'.data) <= cur_marker'.data_length
              /\ cur_marker'.data_length <= cur_marker'.original_length
          BY <1>1, <4>2, <5>1, <5>2, MoreIsSaved
        <5> QED
          BY <4>5, <5>1, <5>3
      <4> QED
        BY <4>1, <4>4, <4>5
    <3> QED
      BY <3>1, <3>2
  <2>5. TypesOK'
    BY <1>0, <1>1, <2>1, <2>2, <2>4 DEF TypesOK
  <2>6. CASE pos' \in Nat /\ unread_marker' = 0 /\ cur_marker' = NoMarker /\ UNCHANGED <<at, result>>
    BY <1>0, <2>1, <2>2, <2>3, <2>5, <2>6 DEF TurnsInv
  <2>7. CASE /\ pos' \in Nat /\ UNCHANGED unread_marker /\ at' = "idle" /\ result' = "SUSPENDED"
             /\ cur_marker' \in [marker : {COM}, original_length : Nat, data_length : Nat, data : Seq(Nat)]
             /\ Len(cur_marker'.data) <= cur_marker'.data_length
             /\ cur_marker'.data_length <= cur_marker'.original_length
    BY <1>0, <2>1, <2>2, <2>3, <2>5, <2>7 DEF TurnsInv
  <2> QED
    BY <2>4, <2>6, <2>7
<1> QED
  BY <1>2, <1>3, <1>4, <1>5, <1>6, <1>7, <1>8 DEF ReadMarkers

\* read_restart_marker runs inside a scan only.
LEMMA RestartsKeepTurns ==
  ASSUME TurnsInv, ReadRestartMarker, UNCHANGED <<controlVars, entropyVars>>
  PROVE  TurnsInv'
<1>1. UNCHANGED <<global_state, call, consume_input, eoi_reached, held>>
  BY DEF controlVars, entropyVars
<1>2. TypesOK
  BY DEF TurnsInv
<1>3. at = "restart"
  BY DEF ReadRestartMarker, AcceptRestart, LeaveRestart, ScanToRestart
<1>4. /\ consume_input = "data" /\ cur_marker = NoMarker /\ ~ eoi_reached /\ saw_SOI
      /\ global_state \notin {"START", "READY"}
  BY <1>3 DEF TurnsInv, MethodFits, CallsRest, SavingFits, EndFits, StartFits
<1>5. UNCHANGED <<file, source, avail, saw_SOI, cur_marker, marker_list, length_limit_COM>>
  BY DEF ReadRestartMarker, AcceptRestart, LeaveRestart, ScanToRestart, sourceVars
<1>6. UNCHANGED <<at, result>> \/ (at' = "idle" /\ result' \in {"RESTARTED", "SUSPENDED"})
  BY DEF ReadRestartMarker, AcceptRestart, LeaveRestart, ScanToRestart, Return
<1>7. pos' \in Nat /\ unread_marker' \in Nat /\ next_restart_num' \in 0 .. 7
  <2>0. pos \in Nat /\ unread_marker \in Nat /\ next_restart_num \in 0 .. 7
    BY <1>2 DEF TypesOK
  <2>1. CASE AcceptRestart
    BY <2>0, <2>1 DEF AcceptRestart
  <2>2. CASE LeaveRestart
    BY <2>0, <2>2 DEF LeaveRestart
  <2>3. CASE ScanToRestart
    <3>1. UNCHANGED next_restart_num /\ (NextMarkerFound \/ NextMarkerSuspends)
      BY <2>3 DEF ScanToRestart
    <3> QED
      BY <1>2, <2>0, <3>1, SearchMoves
  <2> QED
    BY <2>1, <2>2, <2>3 DEF ReadRestartMarker
<1>8. TypesOK'
  BY <1>1, <1>2, <1>5, <1>7 DEF TypesOK
<1> QED
  BY <1>1, <1>3, <1>4, <1>5, <1>6, <1>8
     DEF TurnsInv, MethodFits, CallsRest, SavingFits, ResultFits, EndFits, StartFits

\* The decoder gives the turn back when the scan is over.
LEMMA DecoderKeepsTurns ==
  ASSUME TurnsInv, BeginRestart \/ EndRestart \/ DecodeMcu \/ EndOfRow
  PROVE  TurnsInv'
<1>1. TypesOK
  BY DEF TurnsInv
<1>2. at = "data" \/ (at = "idle" /\ result = "RESTARTED")
  BY DEF BeginRestart, EndRestart, DecodeMcu, EndOfRow
<1>3. /\ consume_input = "data" /\ cur_marker = NoMarker /\ ~ eoi_reached /\ saw_SOI
      /\ global_state \notin {"START", "READY"} /\ (at = "data" => result = "none")
  BY <1>2 DEF TurnsInv, MethodFits, CallsRest, SavingFits, EndFits, StartFits
<1>4. /\ UNCHANGED <<file, avail, saw_SOI, cur_marker, marker_list, length_limit_COM, next_restart_num>>
      /\ UNCHANGED <<global_state, call, eoi_reached>>
  BY DEF BeginRestart, EndRestart, DecodeMcu, EndOfRow, sourceVars, markerVars, controlVars
<1>5. /\ consume_input' \in {"data", "markers"} /\ (consume_input' = "markers" => at' = "idle")
      /\ at' \in {"idle", "data", "restart"}
      /\ result' \in {"none", "SUSPENDED"} /\ (at' # "idle" => result' = "none")
  <2>1. CASE BeginRestart
    BY <1>2, <1>3, <2>1 DEF BeginRestart, controlVars
  <2>2. CASE EndRestart
    BY <1>2, <1>3, <2>2 DEF EndRestart, controlVars
  <2>3. CASE DecodeMcu
    BY <1>2, <1>3, <2>3 DEF DecodeMcu, Deliver, Return, controlVars
  <2>4. CASE EndOfRow
    BY <1>2, <1>3, <2>4 DEF EndOfRow
  <2> QED
    BY <2>1, <2>2, <2>3, <2>4
<1>6. pos' \in Nat /\ unread_marker' \in Nat /\ held' \in Seq(Nat)
  <2>0. pos \in Nat /\ unread_marker \in Nat /\ held \in Seq(Nat)
    BY <1>1 DEF TypesOK
  <2>1. CASE BeginRestart
    BY <2>0, <2>1 DEF BeginRestart
  <2>2. CASE EndRestart
    BY <2>0, <2>2 DEF EndRestart
  <2>3. CASE DecodeMcu
    <3> DEFINE s == DecodedMcu
    <3>1. s.next \in Nat /\ s.marker \in Nat /\ s.held \in Seq(Nat)
      BY <1>1, DecodedMcuFacts DEF WorkingStates
    <3>2. \/ UNCHANGED <<pos, unread_marker, held>>
          \/ pos' = pos + s.next /\ unread_marker' = s.marker /\ held' = s.held
      BY <2>3 DEF DecodeMcu, entropyVars
    <3> HIDE DEF s
    <3> QED
      BY <2>0, <3>1, <3>2
  <2>4. CASE EndOfRow
    BY <2>0, <2>4 DEF EndOfRow, entropyVars
  <2> QED
    BY <2>1, <2>2, <2>3, <2>4
<1>7. TypesOK'
  BY <1>1, <1>4, <1>6 DEF TypesOK
<1> QED
  BY <1>3, <1>4, <1>5, <1>7
     DEF TurnsInv, MethodFits, CallsRest, SavingFits, ResultFits, EndFits, StartFits

\* What the input controller does when the reader returns.
LEMMA InputKeepsTurns ==
  ASSUME TurnsInv, Consume \/ ReachedFirstSos \/ ReachedSos \/ ReachedEoi \/ TablesOnly \/ CallSuspends
                     \/ (Supply /\ UNCHANGED <<controlVars, entropyVars>>)
  PROVE  TurnsInv'
<1> USE DEF sourceVars, markerVars, controlVars, entropyVars, readerVars
<1>1. TypesOK /\ MethodFits /\ CallsRest /\ SavingFits /\ ResultFits /\ EndFits /\ StartFits
  BY DEF TurnsInv
<1>2. CASE Consume
  <2>1. at = "idle" /\ call # "none" /\ result = "none"
    BY <1>2 DEF Consume
  <2>2. global_state \notin {"START", "READY"}
    BY <1>1, <2>1 DEF CallsRest
  <2>3. /\ at' \in {"idle", consume_input} /\ (eoi_reached => at' = "idle")
        /\ UNCHANGED <<file, pos, avail, length_limit_COM, unread_marker, next_restart_num, held, consume_input,
                       result, global_state, call, cur_marker, marker_list, eoi_reached, saw_SOI>>
    BY <1>1, <1>2, <2>1 DEF Consume, EndFits
  <2>4. TypesOK'
    BY <1>1, <2>3 DEF TypesOK
  <2> QED
    BY <1>1, <2>1, <2>2, <2>3, <2>4 DEF TurnsInv, MethodFits, CallsRest, SavingFits, ResultFits, EndFits, StartFits
<1>3. CASE ReachedFirstSos \/ ReachedSos \/ ReachedEoi \/ TablesOnly
  <2>1. at = "idle" /\ result \in {"REACHED_SOS", "REACHED_EOI"}
    BY <1>3 DEF ReachedFirstSos, ReachedSos, ReachedEoi, TablesOnly
  <2>2. /\ unread_marker = 0 /\ cur_marker = NoMarker /\ consume_input = "markers" /\ saw_SOI /\ ~ eoi_reached
        /\ global_state \notin {"START", "READY"}
    BY <1>1, <2>1 DEF ResultFits, CallsRest
  <2>3. UNCHANGED <<file, pos, avail, length_limit_COM, unread_marker, next_restart_num, cur_marker, saw_SOI>>
    BY <1>3 DEF ReachedFirstSos, ReachedSos, ReachedEoi, TablesOnly
  <2>4. held' = held \/ held' = <<>>
    BY <1>3 DEF ReachedFirstSos, ReachedSos, ReachedEoi, TablesOnly, StartInputPass
  <2>a. held' \in Seq(Nat)
    <3>1. held \in Seq(Nat) /\ <<>> \in Seq(Nat)
      BY <1>1 DEF TypesOK
    <3> QED
      BY <2>4, <3>1
  <2>5. TypesOK'
    BY <1>1, <2>3, <2>a DEF TypesOK
  <2>6. /\ result' = "none" /\ at' \in {"idle", "exited"}
        /\ consume_input' \in {"markers", "data"} /\ (eoi_reached' => consume_input' = "markers")
        /\ (global_state' = "START" => at' = "idle" /\ call' = "none" /\ marker_list' = <<>>)
        /\ (global_state' = "READY" /\ at' # "exited" => at' = "idle" /\ call' = "none" /\ ~ eoi_reached')
    <3>1. CASE ReachedFirstSos
      BY <2>1, <2>2, <3>1 DEF ReachedFirstSos, Fails
    <3>2. CASE ReachedSos
      BY <2>1, <2>2, <3>2 DEF ReachedSos, Fails, StartInputPass
    <3>3. CASE ReachedEoi
      BY <2>1, <2>2, <3>3 DEF ReachedEoi
    <3>4. CASE TablesOnly
      BY <2>1, <2>2, <3>4 DEF TablesOnly, Fails
    <3> QED
      BY <1>3, <3>1, <3>2, <3>3, <3>4
  <2> QED
    BY <2>2, <2>3, <2>5, <2>6 DEF TurnsInv, MethodFits, CallsRest, SavingFits, ResultFits, EndFits, StartFits
<1>4. CASE CallSuspends
  <2>1. /\ call' = "none"
        /\ UNCHANGED <<file, pos, avail, length_limit_COM, unread_marker, next_restart_num, held, consume_input,
                       at, result, global_state, cur_marker, marker_list, eoi_reached, saw_SOI>>
    BY <1>4 DEF CallSuspends
  <2>2. TypesOK'
    BY <1>1, <2>1 DEF TypesOK
  <2> QED
    BY <1>1, <2>1, <2>2 DEF TurnsInv, MethodFits, CallsRest, SavingFits, ResultFits, EndFits, StartFits
<1>5. CASE Supply /\ UNCHANGED <<controlVars, entropyVars>>
  <2>1. /\ result' = "none"
        /\ UNCHANGED <<file, pos, length_limit_COM, unread_marker, next_restart_num, held, consume_input,
                       at, call, global_state, cur_marker, marker_list, eoi_reached, saw_SOI>>
    BY <1>5 DEF Supply
  <2>2. avail' \in Nat
    <3>1. pos \in Nat /\ avail \in Nat
      BY <1>1 DEF TypesOK
    <3>2. \E n \in {1, 3} : avail' = n + (IF pos > avail THEN pos ELSE avail)
      BY <1>5 DEF Supply
    <3> QED
      BY <3>1, <3>2
  <2>3. TypesOK'
    BY <1>1, <2>1, <2>2 DEF TypesOK
  <2> QED
    BY <1>1, <2>1, <2>3 DEF TurnsInv, MethodFits, CallsRest, SavingFits, ResultFits, EndFits, StartFits
<1> QED
  BY <1>2, <1>3, <1>4, <1>5

\* The calls of the application that change nothing for the reader.
Passes ==
  \/ StartDecompressAgain \/ StartReturns \/ StartOutput \/ ReadRow \/ ReadReturns
  \/ FinishOutput \/ FinishOutputReturns \/ FinishDecompress

\* They happen while an image is being read.
LEMMA PassesFacts ==
  ASSUME TurnsInv, Passes
  PROVE  /\ UNCHANGED <<file, pos, avail, length_limit_COM, unread_marker, next_restart_num, held, consume_input,
                        at, result, cur_marker, marker_list, eoi_reached, saw_SOI>>
         /\ global_state \notin {"START", "READY"} /\ global_state' \notin {"START", "READY"}
<1> USE DEF sourceVars, markerVars, controlVars, entropyVars, readerVars, Keeps, Calls, Returns, Ready
<1>1. MethodFits /\ CallsRest
  BY DEF TurnsInv
<1>2. UNCHANGED <<file, pos, avail, length_limit_COM, unread_marker, next_restart_num, held, consume_input,
                  at, result, cur_marker, marker_list, eoi_reached, saw_SOI>>
  BY DEF Passes, StartDecompressAgain, StartReturns, StartOutput, ReadRow, ReadReturns, FinishOutput,
         FinishOutputReturns, FinishDecompress
<1>3. at = "idle" /\ (call # "none" \/ global_state \in {"PRELOAD", "BUFIMAGE", "SCANNING", "BUFPOST", "STOPPING"})
  BY DEF Passes, StartDecompressAgain, StartReturns, StartOutput, ReadRow, ReadReturns, FinishOutput,
         FinishOutputReturns, FinishDecompress
<1>4. global_state \notin {"START", "READY"}
  BY <1>1, <1>3 DEF CallsRest
<1>5. global_state' \in {global_state, "BUFIMAGE", "SCANNING", "BUFPOST", "STOPPING"}
  BY DEF Passes, StartDecompressAgain, StartReturns, StartOutput, ReadRow, ReadReturns, FinishOutput,
         FinishOutputReturns, FinishDecompress
<1> QED
  BY <1>2, <1>4, <1>5

\* The other calls start or end a datastream, or a scan.
LEMMA CallsKeepTurns ==
  ASSUME TurnsInv, Passes \/ ReadHeader \/ StartDecompress \/ FinishReturns
  PROVE  TurnsInv'
<1> USE DEF sourceVars, markerVars, controlVars, entropyVars, readerVars, Calls, Returns, Ready
<1>1. TypesOK /\ MethodFits /\ CallsRest /\ SavingFits /\ ResultFits /\ EndFits /\ StartFits
  BY DEF TurnsInv
<1>2. CASE Passes
  <2>1. /\ UNCHANGED <<file, pos, avail, length_limit_COM, unread_marker, next_restart_num, held, consume_input,
                       at, result, cur_marker, marker_list, eoi_reached, saw_SOI>>
        /\ global_state' \notin {"START", "READY"}
    BY <1>2, PassesFacts
  <2>2. TypesOK'
    BY <1>1, <2>1 DEF TypesOK
  <2> QED
    BY <1>1, <2>1, <2>2 DEF TurnsInv, MethodFits, CallsRest, SavingFits, ResultFits, EndFits, StartFits
<1>3. CASE ReadHeader
  <2>1. /\ at = "idle" /\ result = "none"
        /\ UNCHANGED <<file, pos, avail, length_limit_COM, next_restart_num, held, at, result, marker_list>>
    BY <1>3 DEF ReadHeader
  <2>2. CASE /\ global_state = "START"
             /\ consume_input' = "markers" /\ eoi_reached' = FALSE /\ saw_SOI' = FALSE
             /\ cur_marker' = NoMarker /\ unread_marker' = 0 /\ global_state' = "INHEADER"
    <3>1. TypesOK'
      BY <1>1, <2>1, <2>2 DEF TypesOK
    <3> QED
      BY <1>1, <2>1, <2>2, <3>1 DEF TurnsInv, MethodFits, CallsRest, SavingFits, ResultFits, EndFits, StartFits
  <2>3. CASE /\ global_state = "INHEADER"
             /\ UNCHANGED <<global_state, consume_input, eoi_reached, saw_SOI, cur_marker, unread_marker>>
    <3>1. TypesOK'
      BY <1>1, <2>1, <2>3 DEF TypesOK
    <3> QED
      BY <1>1, <2>1, <2>3, <3>1 DEF TurnsInv, MethodFits, CallsRest, SavingFits, ResultFits, EndFits, StartFits
  <2> QED
    BY <1>3, <2>2, <2>3 DEF ReadHeader, ResetInput
<1>4. CASE StartDecompress
  <2>1. /\ at = "idle" /\ result = "none" /\ global_state = "READY"
        /\ UNCHANGED <<file, pos, avail, length_limit_COM, next_restart_num, unread_marker, cur_marker, marker_list,
                       saw_SOI, eoi_reached>>
        /\ \/ at' = "exited" /\ result' = "none" /\ UNCHANGED <<global_state, consume_input, held>>
           \/ /\ consume_input' = "data" /\ held' = <<>> /\ UNCHANGED <<at, result>>
              /\ global_state' \in {"BUFIMAGE", "PRELOAD"}
    BY <1>4 DEF StartDecompress, Fails, StartInputPass
  <2>2. cur_marker = NoMarker /\ ~ eoi_reached /\ saw_SOI
    BY <1>1, <2>1 DEF CallsRest
  <2>a. held' \in Seq(Nat)
    <3>1. held \in Seq(Nat) /\ <<>> \in Seq(Nat)
      BY <1>1 DEF TypesOK
    <3> QED
      BY <2>1, <3>1
  <2>3. TypesOK'
    BY <1>1, <2>1, <2>a DEF TypesOK
  <2> QED
    BY <1>1, <2>1, <2>2, <2>3 DEF TurnsInv, MethodFits, CallsRest, SavingFits, ResultFits, EndFits, StartFits
<1>5. CASE FinishReturns
  <2>1. /\ at = "idle" /\ result = "none" /\ call' = "none" /\ global_state' = "START" /\ marker_list' = <<>>
        /\ UNCHANGED <<file, pos, avail, at, result, length_limit_COM, next_restart_num, unread_marker, cur_marker,
                       saw_SOI, eoi_reached, held, consume_input>>
    BY <1>5 DEF FinishReturns
  <2>2. eoi_reached
    <3>1. call = "finish" /\ ~ Wants
      BY <1>5 DEF FinishReturns
    <3> QED
      BY <3>1 DEF Wants
  <2>3. TypesOK'
    BY <1>1, <2>1 DEF TypesOK
  <2> QED
    BY <1>1, <2>1, <2>2, <2>3 DEF TurnsInv, MethodFits, CallsRest, SavingFits, ResultFits, EndFits, StartFits
<1> QED
  BY <1>2, <1>3, <1>4, <1>5

\* Every step keeps the first part of the invariant.
LEMMA TurnsInductive == TurnsInv /\ [Next]_vars => TurnsInv'
<1> SUFFICES ASSUME TurnsInv, [Next]_vars PROVE TurnsInv'
  OBVIOUS
<1>1. CASE ReadMarkers /\ UNCHANGED <<controlVars, entropyVars>>
  BY <1>1, ReadMarkersKeepTurns
<1>2. CASE ReadRestartMarker /\ UNCHANGED <<controlVars, entropyVars>>
  BY <1>2, RestartsKeepTurns
<1>3. CASE BeginRestart \/ EndRestart \/ DecodeMcu \/ EndOfRow
  BY <1>3, DecoderKeepsTurns
<1>4. CASE Consume \/ ReachedFirstSos \/ ReachedSos \/ ReachedEoi \/ TablesOnly \/ CallSuspends
             \/ (Supply /\ UNCHANGED <<controlVars, entropyVars>>)
  BY <1>4, InputKeepsTurns
<1>5. CASE Passes \/ ReadHeader \/ StartDecompress \/ FinishReturns
  BY <1>5, CallsKeepTurns
<1>6. CASE UNCHANGED vars
  <2>1. UNCHANGED <<file, pos, avail, length_limit_COM, unread_marker, next_restart_num, held, consume_input,
                    at, result, global_state, call, cur_marker, marker_list, eoi_reached, saw_SOI>>
    BY <1>6 DEF vars, readerVars, sourceVars, markerVars, controlVars, entropyVars
  <2> QED
    BY <2>1 DEF TurnsInv, TypesOK, MethodFits, CallsRest, SavingFits, ResultFits, EndFits, StartFits
<1> QED
  BY <1>1, <1>2, <1>3, <1>4, <1>5, <1>6 DEF Next, Application, Library, Passes

(***************************************************************************)
(* Steps between the segments                                              *)
(***************************************************************************)

\* Without a segment that is begun, n segments are read.
LEMMA PlaceBetween ==
  ASSUME Place, cur_marker = NoMarker, unread_marker \in {0} \union Alone, unread_marker # SOI
  PROVE  \E n \in 0 .. Len(Layout[file]) :
           EndOf(file, n) <= pos /\ Clear(file, EndOf(file, n), pos) /\ Comments(n)
<1>1. PICK n \in 0 .. Len(Layout[file]) : BehindSegment(n) \/ AtSegment(n) \/ InsideSegment(n)
  BY DEF Place
<1>2. BehindSegment(n)
  BY <1>1 DEF AtSegment, InsideSegment
<1> QED
  BY <1>2 DEF BehindSegment

\* A marker of its own is passed, or the search for the next one goes on.
LEMMA StillBetween ==
  ASSUME TypesOK, Place, UNCHANGED <<file, length_limit_COM, saw_SOI, global_state, marker_list>>,
         cur_marker = NoMarker, cur_marker' = NoMarker,
         unread_marker \in {0} \union Alone, unread_marker # SOI,
         unread_marker' \in {0} \union Alone, unread_marker' # SOI,
         pos' \in Nat, pos <= pos', Clear(file, pos, pos')
  PROVE  Place'
<1>1. PICK n \in 0 .. Len(Layout[file]) :
        EndOf(file, n) <= pos /\ Clear(file, EndOf(file, n), pos) /\ Comments(n)
  BY PlaceBetween
<1>2. file \in Files /\ pos \in Nat
  BY DEF TypesOK
<1>3. EndOf(file, n) \in Nat
  BY <1>2, LayoutFacts
<1>4. Layout' = Layout
  BY DEF Layout
<1>5. Clear(file, EndOf(file, n), pos') /\ EndOf(file, n) <= pos'
  BY <1>1, <1>2, <1>3, ClearExtends
<1>6. SavedComments(n)' = SavedComments(n)
  BY SavedUnchanged
<1>7. Comments(n)'
  BY <1>1, <1>6 DEF Comments
<1>8. EndOf(file, n)' = EndOf(file, n)
  BY <1>4 DEF EndOf
<1>9. BehindSegment(n)'
  BY <1>4, <1>5, <1>7, <1>8 DEF BehindSegment
<1> QED
  BY <1>4, <1>9 DEF Place

\* Between a position and itself no marker ends.
LEMMA ClearHere == ASSUME TypesOK PROVE Clear(file, pos, pos)
BY DEF TypesOK, Clear

\* next_marker looks for a marker behind what is read, or behind a marker of its own.
LEMMA SearchKeepsPlace ==
  ASSUME TypesOK, NextMarkerFound \/ NextMarkerSuspends, pos <= Len(file) => Place,
         UNCHANGED <<file, length_limit_COM, saw_SOI, global_state, marker_list>>,
         cur_marker = NoMarker, cur_marker' = NoMarker,
         unread_marker \in {0} \union Alone, unread_marker # SOI, pos' <= Len(file)
  PROVE  Place'
<1>1. /\ pos' \in Nat /\ pos <= pos'
      /\ \/ /\ unread_marker' = unread_marker
            /\ Clear(file, pos, pos')
         \/ /\ unread_marker' # 0
            /\ pos' <= Len(file) =>
                 /\ pos + 2 <= pos' /\ EndsMarkerOf(file, pos') /\ unread_marker' = file[pos']
                 /\ \A k \in pos + 2 .. pos' - 1 : ~ EndsMarkerOf(file, k)
  BY SearchMoves
<1>2. pos \in Nat /\ file \in Files /\ Len(file) \in Nat
  BY BytesOfFile DEF TypesOK
<1>3. Place
  BY <1>1, <1>2
<1>4. CASE unread_marker' = unread_marker /\ Clear(file, pos, pos')
  BY <1>1, <1>3, <1>4, StillBetween
<1>5. CASE /\ unread_marker' # 0
           /\ pos + 2 <= pos' /\ EndsMarkerOf(file, pos') /\ unread_marker' = file[pos']
           /\ \A k \in pos + 2 .. pos' - 1 : ~ EndsMarkerOf(file, k)
  <2>1. PICK n \in 0 .. Len(Layout[file]) :
          EndOf(file, n) <= pos /\ Clear(file, EndOf(file, n), pos) /\ Comments(n)
    BY <1>3, PlaceBetween
  <2> QED
    BY <1>1, <1>5, <2>1, PlaceMoves
<1> QED
  BY <1>1, <1>4, <1>5

\* The markers that read_restart_marker passes over stand alone.
LEMMA RestartMarkersAlone ==
  ASSUME unread_marker \in Nat, next_restart_num \in 0 .. 7, at = "restart", unread_marker # 0,
         \/ unread_marker = RST0 + next_restart_num
         \/ ResyncAction(unread_marker, next_restart_num) \in {"discard", "scan"}
  PROVE  unread_marker \in Alone /\ unread_marker # SOI
<1>1. unread_marker \in Restarts \/ unread_marker < SOF0
  <2>1. CASE unread_marker = RST0 + next_restart_num
    BY <2>1 DEF RST0, Restarts
  <2>2. CASE unread_marker >= SOF0 /\ unread_marker \notin Restarts
    <3>1. ~ (unread_marker < SOF0)
      BY <2>2 DEF SOF0
    <3>2. unread_marker # RST0 + next_restart_num
      BY <2>2 DEF RST0, Restarts
    <3>3. \A k \in 0 .. 7 : RST0 + ((next_restart_num + k) % 8) \in Restarts
      BY DEF RST0, Restarts
    <3>4. \A k \in {1, 2, 6, 7} : unread_marker # RST0 + ((next_restart_num + k) % 8)
      BY <2>2, <3>3
    <3>5. ResyncAction(unread_marker, next_restart_num) = "leave"
      BY <2>2, <3>1, <3>4 DEF ResyncAction
    <3> QED
      BY <3>2, <3>5
  <2> QED
    BY <2>1, <2>2 DEF SOF0
<1> QED
  BY <1>1 DEF Alone, Restarts, SOI, EOI, SOF0, RST0

\* SOI: there is no comment of the datastream that it starts.
LEMMA SoiKeepsPlace ==
  ASSUME TurnsInv, Place, GetSoi, UNCHANGED global_state
  PROVE  Place'
<1>1. TypesOK /\ SavingFits /\ StartFits
  BY DEF TurnsInv
<1>2. /\ unread_marker = SOI /\ ~ saw_SOI /\ saw_SOI' = TRUE /\ unread_marker' = 0
      /\ UNCHANGED <<file, pos, cur_marker, marker_list, length_limit_COM>>
  BY <1>1, SoiHandled
<1>3. SOI # COM /\ SOI \in Alone /\ SOI # 0
  BY DEF SOI, COM, Alone
<1>4. cur_marker = NoMarker /\ marker_list = <<>>
  BY <1>1, <1>2, <1>3 DEF SavingFits, StartFits
<1>5. PICK n \in 0 .. Len(Layout[file]) : BehindSegment(n) \/ AtSegment(n) \/ InsideSegment(n)
  BY DEF Place
<1>6. BehindSegment(n)
  BY <1>2, <1>3, <1>4, <1>5 DEF AtSegment, InsideSegment
<1>7. n > 0 /\ Layout[file][n].marker = SOI
  BY <1>2, <1>6 DEF BehindSegment
<1>8. file \in Files /\ length_limit_COM \in Nat /\ Len(Layout[file]) \in Nat
  BY <1>1, LayoutFacts DEF TypesOK
<1>9. n \in 1 .. Len(Layout[file])
  BY <1>7, <1>8
<1>10. SavedComments(n) = <<>>
  BY <1>7, <1>8, <1>9, SavedAtSoi
<1>11. SavedComments(n)' = SavedComments(n)
  BY <1>2, SavedUnchanged
<1>12. Layout' = Layout
  BY DEF Layout
<1>13. EndOf(file, n)' = EndOf(file, n) /\ Clear(file, EndOf(file, n), pos)' = Clear(file, EndOf(file, n), pos)
  BY <1>2, <1>12 DEF EndOf, Clear
<1>14. Comments(n)'
  BY <1>2, <1>4, <1>10, <1>11 DEF Comments
<1>15. BehindSegment(n)'
  BY <1>2, <1>3, <1>4, <1>6, <1>13, <1>14 DEF BehindSegment
<1> QED
  BY <1>2, <1>12, <1>15 DEF Place

\* decode_mcu goes on in the data of a scan.
LEMMA McuKeepsPlace ==
  ASSUME PlaceInv, DecodeMcu
  PROVE  (at # "exited" /\ pos <= Len(file) => Place)'
<1>1. TypesOK /\ MethodFits /\ SavingFits /\ StartFits
  BY DEF PlaceInv, TurnsInv
<1>2. /\ at = "data"
      /\ UNCHANGED <<file, length_limit_COM, saw_SOI, global_state, marker_list, cur_marker>>
  BY DEF DecodeMcu, sourceVars, markerVars, controlVars
<1>3. cur_marker = NoMarker
  BY <1>1, <1>2 DEF MethodFits, SavingFits
<1> DEFINE s == DecodedMcu
<1>4. UNCHANGED <<pos, unread_marker>> \/ (pos' = pos + s.next /\ unread_marker' = s.marker)
  BY DEF DecodeMcu
<1>5. s.next \in Nat /\ s.marker \in Nat /\ Path(s.next, s.marker)
  BY <1>1, DecodedMcuFacts DEF WorkingStates
<1> HIDE DEF s
<1>6. pos \in Nat /\ file \in Files /\ Len(file) \in Nat
  BY <1>1, BytesOfFile DEF TypesOK
<1>7. CASE UNCHANGED <<pos, unread_marker>>
  BY <1>2, <1>7, PlaceStays
<1>8. CASE unread_marker # 0 /\ pos' = pos + s.next /\ unread_marker' = s.marker
  <2>1. UNCHANGED <<pos, unread_marker>>
    BY <1>5, <1>6, <1>8 DEF Path
  <2> QED
    BY <1>2, <2>1, PlaceStays
<1>9. CASE unread_marker = 0 /\ pos' = pos + s.next /\ unread_marker' = s.marker
  <2> SUFFICES ASSUME pos' <= Len(file) PROVE Place'
    BY <1>2
  <2>1. pos' \in Nat /\ pos <= pos' /\ pos <= Len(file)
    BY <1>5, <1>6, <1>9
  <2>2. unread_marker # SOI
    BY <1>9 DEF SOI
  <2>3. Place
    BY <1>2, <2>1 DEF PlaceInv
  <2>4. PICK n \in 0 .. Len(Layout[file]) :
          EndOf(file, n) <= pos /\ Clear(file, EndOf(file, n), pos) /\ Comments(n)
    BY <1>3, <1>9, <2>2, <2>3, PlaceBetween
  <2>5. Reach(s.next, s.marker)
    BY <1>5, <1>9 DEF Path
  <2>6. IF unread_marker' = 0 THEN Clear(file, pos, pos')
        ELSE /\ pos + 2 <= pos' /\ EndsMarkerOf(file, pos') /\ unread_marker' = file[pos']
             /\ \A k \in pos + 2 .. pos' - 1 : ~ EndsMarkerOf(file, k)
    <3>1. CASE s.marker = 0
      BY <1>9, <2>5, <3>1 DEF Reach
    <3>2. CASE s.marker # 0
      <4>1. /\ s.next >= 2 /\ EndsMarkerOf(file, pos + s.next) /\ s.marker = file[pos + s.next]
            /\ \A k \in pos + 2 .. (pos + s.next) - 1 : ~ EndsMarkerOf(file, k)
        BY <1>9, <2>5, <3>2 DEF Reach
      <4>2. pos + 2 <= pos'
        BY <1>5, <1>6, <1>9, <4>1
      <4> QED
        BY <1>9, <3>2, <4>1, <4>2
    <3> QED
      BY <3>1, <3>2
  <2> QED
    BY <1>1, <1>2, <1>3, <2>1, <2>4, <2>6, PlaceMoves
<1> QED
  BY <1>4, <1>7, <1>8, <1>9

(***************************************************************************)
(* Steps that pass a segment                                               *)
(***************************************************************************)

\* Where the segment that begins here ends.
LEMMA SegmentHere ==
  ASSUME TypesOK, NEW n \in 0 .. Len(Layout[file]), AtSegment(n)
  PROVE  LET g == Layout[file][n + 1]
         IN  /\ n + 1 \in 1 .. Len(Layout[file]) /\ n \in Nat
             /\ g.from = pos /\ g.marker = unread_marker /\ pos <= Len(file) /\ Len(file) \in Nat
             /\ EndOf(file, n + 1) = g.end /\ g.end \in Nat
             /\ pos + 2 <= Len(file) => g.end = pos + In2(1)
             /\ pos + 2 > Len(file) => In2(1) > 254
<1> DEFINE L == Layout[file]
           g == L[n + 1]
<1>1. file \in Files /\ pos \in Nat /\ Len(file) \in Nat /\ Len(L) \in Nat
  BY BytesOfFile, LayoutFacts DEF TypesOK
<1>2. n + 1 \in 1 .. Len(L) /\ n \in Nat
  BY <1>1 DEF AtSegment
<1>3. g.from = pos /\ g.marker = unread_marker /\ unread_marker \notin Alone
  BY DEF AtSegment
<1>4. /\ g.end \in Nat /\ g.end = EndOf(file, n + 1) /\ g.from <= Len(file)
      /\ g.end = IF g.marker \in Alone \/ g.from + 2 > Len(file) THEN g.from
                 ELSE g.from + (256 * file[g.from + 1]) + file[g.from + 2]
  BY <1>1, <1>2, SegmentFacts
<1> HIDE DEF g
<1>5. /\ In2(1) = (256 * In(1)) + In(2) /\ In(1) \in 0 .. 255 /\ In(2) \in 0 .. 255 /\ In2(1) \in Nat
  BY LengthFacts
<1>6. ASSUME pos + 2 <= Len(file) PROVE g.end = pos + In2(1)
  <2>1. pos + 1 <= Len(file)
    BY <1>1, <1>6
  <2>2. In(1) = file[pos + 1] /\ In(2) = file[pos + 2]
    BY <1>1, <1>6, <2>1, InFacts
  <2>3. g.end = pos + (256 * In(1)) + In(2)
    BY <1>1, <1>3, <1>4, <1>6, <2>2
  <2> DEFINE a == In(1)
             b == In(2)
             c == In2(1)
             e == g.end
  <2>4. /\ a \in 0 .. 255 /\ b \in 0 .. 255 /\ c = (256 * a) + b /\ e = pos + (256 * a) + b
    BY <1>5, <2>3
  <2> HIDE DEF a, b, c, e
  <2>5. e = pos + c
    BY <1>1, <2>4
  <2> QED
    BY <2>5 DEF c, e
<1>7. ASSUME pos + 2 > Len(file) PROVE In2(1) > 254
  <2> DEFINE a == In(1)
             b == In(2)
             c == In2(1)
  <2>1. pos = Len(file) \/ pos + 1 = Len(file)
    BY <1>1, <1>3, <1>4, <1>7
  <2>2. a = 255 \/ b = 255
    <3>1. CASE pos = Len(file)
      <4>1. (pos + 1) - Len(file) = 1 /\ ~ (pos + 1 <= Len(file))
        BY <1>1, <3>1
      <4> QED
        BY <4>1 DEF In, Byte
    <3>2. CASE pos + 1 = Len(file)
      <4>1. (pos + 2) - Len(file) = 1 /\ ~ (pos + 2 <= Len(file))
        BY <1>1, <3>2
      <4> QED
        BY <4>1 DEF In, Byte
    <3> QED
      BY <2>1, <3>1, <3>2
  <2>3. /\ a \in 0 .. 255 /\ b \in 0 .. 255 /\ c = (256 * a) + b
    BY <1>5
  <2> HIDE DEF a, b, c
  <2>4. c > 254
    BY <2>2, <2>3
  <2> QED
    BY <2>4 DEF c
<1> QED
  BY <1>1, <1>2, <1>3, <1>4, <1>6, <1>7 DEF g

\* Behind a length word that is too small there is no marker in it.
LEMMA ShortSegmentClear ==
  ASSUME TypesOK, In2(1) < 2, pos + 2 <= Len(file)
  PROVE  Clear(file, pos + In2(1), pos + 2)
<1> SUFFICES ASSUME NEW k \in (pos + In2(1)) + 2 .. (pos + 2) + 1, k <= Len(file)
             PROVE  ~ EndsMarkerOf(file, k)
  BY DEF Clear
<1>1. file \in Files /\ pos \in Nat /\ Len(file) \in Nat
  BY BytesOfFile DEF TypesOK
<1>2. /\ In2(1) = (256 * In(1)) + In(2) /\ In(1) \in 0 .. 255 /\ In(2) \in 0 .. 255 /\ In2(1) \in Nat
  BY LengthFacts
<1>3. pos + 1 <= Len(file)
  BY <1>1
<1>4. In(1) = file[pos + 1] /\ In(2) = file[pos + 2]
  BY <1>1, <1>3, InFacts
<1> DEFINE a == In(1)
           b == In(2)
           c == In2(1)
<1>5. c = (256 * a) + b /\ a \in 0 .. 255 /\ b \in 0 .. 255 /\ c < 2 /\ c \in Nat
  BY <1>2
<1>6. a = file[pos + 1] /\ b = file[pos + 2] /\ k \in (pos + c) + 2 .. (pos + 2) + 1
  BY <1>4
<1> HIDE DEF a, b, c
<1>7. a = 0 /\ b < 2
  BY <1>5
<1>8. k - 1 = pos + 1 \/ k - 1 = pos + 2
  BY <1>1, <1>5, <1>6
<1>9. file[k - 1] # 255
  <2>1. CASE k - 1 = pos + 1
    <3>1. file[k - 1] = a
      BY <1>6, <2>1
    <3> QED
      BY <1>7, <3>1
  <2>2. CASE k - 1 = pos + 2
    <3>1. file[k - 1] = b
      BY <1>6, <2>2
    <3>2. b # 255
      BY <1>5, <1>7
    <3> QED
      BY <3>1, <3>2
  <2> QED
    BY <1>8, <2>1, <2>2
<1> QED
  BY <1>9 DEF EndsMarkerOf

\* The segment is passed, and its comment is saved if it has one.
LEMMA BehindNext ==
  ASSUME TypesOK, NEW n \in 0 .. Len(Layout[file]), n < Len(Layout[file]), Comments(n),
         UNCHANGED <<file, length_limit_COM, saw_SOI, global_state>>,
         unread_marker' = 0, cur_marker' = NoMarker,
         EndOf(file, n + 1) <= pos', Clear(file, EndOf(file, n + 1), pos'),
         length_limit_COM > 0 /\ marker_list = SavedComments(n) =>
           marker_list' = SavedNext(SavedComments(n), Layout[file][n + 1])
  PROVE  Place'
<1>1. file \in Files /\ length_limit_COM \in Nat /\ Len(Layout[file]) \in Nat
  BY LayoutFacts DEF TypesOK
<1>2. n + 1 \in 0 .. Len(Layout[file]) /\ Layout' = Layout
  BY <1>1 DEF Layout
<1>3. SavedComments(n + 1) = SavedNext(SavedComments(n), Layout[file][n + 1])
  BY <1>1, SavedFacts
<1>4. SavedComments(n + 1)' = SavedComments(n + 1)
  BY SavedUnchanged
<1>5. Comments(n + 1)'
  BY <1>3, <1>4 DEF Comments
<1>6. EndOf(file, n + 1)' = EndOf(file, n + 1)
  BY <1>2 DEF EndOf
<1>7. unread_marker' # SOI
  BY DEF SOI
<1>8. BehindSegment(n + 1)'
  BY <1>2, <1>5, <1>6, <1>7 DEF BehindSegment
<1> QED
  BY <1>2, <1>8 DEF Place

\* A segment that is not saved is passed.
LEMMA SegmentPassed ==
  ASSUME TypesOK, NEW n \in 0 .. Len(Layout[file]), AtSegment(n),
         UNCHANGED <<file, length_limit_COM, saw_SOI, global_state, cur_marker, marker_list>>,
         pos' = pos + In2(1) \/ (pos' = pos + 2 /\ In2(1) < 2),
         pos' <= Len(file), unread_marker' = 0,
         unread_marker = COM => length_limit_COM = 0 \/ In2(1) < 2
  PROVE  Place'
<1> DEFINE L == Layout[file]
           g == L[n + 1]
           N == Len(file)
           c == In2(1)
           q == pos'
           e == EndOf(file, n + 1)
<1>1. /\ n + 1 \in 1 .. Len(L) /\ n \in Nat
      /\ g.from = pos /\ g.marker = unread_marker /\ pos <= N /\ N \in Nat
      /\ e = g.end /\ g.end \in Nat
      /\ pos + 2 <= N => g.end = pos + c
      /\ pos + 2 > N => c > 254
  BY SegmentHere
<1>2. pos \in Nat /\ c \in Nat /\ (q = pos + c \/ (q = pos + 2 /\ c < 2)) /\ q <= N
  BY LengthFacts DEF TypesOK
<1>3. pos + 2 <= N /\ e = pos + c /\ q \in Nat /\ e <= q
  <2> HIDE DEF c, q, N, e, g
  <2> QED
    BY <1>1, <1>2
<1>4. Clear(file, e, q)
  <2>1. CASE q = pos + c
    <3>1. q = e /\ q \in Nat
      BY <1>3, <2>1
    <3> HIDE DEF q, e
    <3> QED
      BY <3>1 DEF Clear
  <2>2. CASE q = pos + 2 /\ c < 2
    <3>1. Clear(file, pos + c, pos + 2)
      BY <1>3, <2>2, ShortSegmentClear
    <3> QED
      BY <1>3, <2>2, <3>1
  <2> QED
    BY <1>2, <2>1, <2>2
<1>5. n < Len(L) /\ Comments(n) /\ cur_marker = NoMarker /\ unread_marker \notin Alone
  BY DEF AtSegment
<1>6. length_limit_COM > 0 /\ marker_list = SavedComments(n) => marker_list' = SavedNext(SavedComments(n), g)
  <2> SUFFICES ASSUME length_limit_COM > 0, marker_list = SavedComments(n)
               PROVE  SavedNext(SavedComments(n), g) = SavedComments(n)
    OBVIOUS
  <2>1. g.marker # SOI
    BY <1>1, <1>5 DEF Alone
  <2>2. g.marker # COM \/ g.end - (g.from + 2) < 0
    <3> SUFFICES ASSUME g.marker = COM PROVE g.end - (g.from + 2) < 0
      OBVIOUS
    <3>1. c < 2
      BY <1>1
    <3>2. g.end = pos + c /\ g.from = pos
      BY <1>1, <1>3
    <3> HIDE DEF g, c
    <3> QED
      BY <1>2, <3>1, <3>2
  <2> QED
    BY <2>1, <2>2 DEF SavedNext
<1> QED
  BY <1>3, <1>4, <1>5, <1>6, BehindNext

(***************************************************************************)
(* Steps that save a comment                                               *)
(***************************************************************************)

\* The c bytes of the file behind b.
Kept(b, c) == [j \in 1 .. c |-> file[b + j]]

\* They are bytes.
LEMMA KeptFacts ==
  ASSUME file \in Files, NEW b \in Nat, NEW c \in Nat, b + c <= Len(file)
  PROVE  Kept(b, c) \in Seq(0 .. 255) /\ Len(Kept(b, c)) = c
<1> DEFINE B == 0 .. 255
           s == Kept(b, c)
<1>1. \A j \in 1 .. c : file[b + j] \in B
  <2> TAKE j \in 1 .. c
  <2>1. b + j \in 1 .. Len(file)
    BY BytesOfFile
  <2> QED
    BY <2>1, BytesOfFile
<1> HIDE DEF B
<1>2. s \in [1 .. c -> B]
  BY <1>1 DEF Kept
<1> HIDE DEF s
<1>3. s \in Seq(B)
  BY <1>2
<1>4. Len(s) = c
  BY <1>2, <1>3, LenProperties
<1> QED
  BY <1>3, <1>4 DEF s, B

\* What the reader finds ahead of it are bytes of the file.
LEMMA RunIsKept ==
  ASSUME TypesOK, NEW s \in Nat, NEW c \in Nat, pos + s + c <= Len(file)
  PROVE  Run(s, c) = Kept(pos + s, c)
<1>1. file \in Files /\ pos \in Nat /\ Len(file) \in Nat
  BY BytesOfFile DEF TypesOK
<1>2. \A k \in 1 .. c : In(s + k) = file[(pos + s) + k]
  <2> TAKE k \in 1 .. c
  <2>1. s + k \in Nat /\ s + k > 0 /\ pos + (s + k) <= Len(file) /\ pos + (s + k) = (pos + s) + k
    BY <1>1
  <2> DEFINE i == s + k
  <2> HIDE DEF i
  <2>2. In(i) = file[pos + i]
    BY <1>1, <2>1, InFacts DEF i
  <2> QED
    BY <2>1, <2>2 DEF i
<1> QED
  BY <1>2 DEF Run, Kept

\* Two runs of bytes, the second behind the first, are one.
LEMMA KeptJoins ==
  ASSUME file \in Files, NEW b \in Nat, NEW c \in Nat, NEW d \in Nat, b + c + d <= Len(file)
  PROVE  Kept(b, c) \o Kept(b + c, d) = Kept(b, c + d)
<1> DEFINE s == Kept(b, c)
           t == Kept(b + c, d)
           u == Kept(b, c + d)
           B == 0 .. 255
<1>0. Len(file) \in Nat
  BY BytesOfFile
<1>1. s \in Seq(B) /\ Len(s) = c /\ t \in Seq(B) /\ Len(t) = d /\ u \in Seq(B) /\ Len(u) = c + d
  <2>1. b + c <= Len(file) /\ b + c \in Nat /\ (b + c) + d <= Len(file)
        /\ c + d \in Nat /\ b + (c + d) <= Len(file)
    BY <1>0
  <2> QED
    BY <2>1, KeptFacts
<1>2. /\ \A i \in 1 .. c : s[i] = file[b + i]
      /\ \A i \in 1 .. d : t[i] = file[(b + c) + i]
      /\ \A i \in 1 .. c + d : u[i] = file[b + i]
  BY DEF Kept
<1> HIDE DEF s, t, u, B
<1> DEFINE v == s \o t
<1>3. /\ v \in Seq(B) /\ Len(v) = c + d
      /\ \A i \in 1 .. c + d : v[i] = IF i <= c THEN s[i] ELSE t[i - c]
  <2>0. s \in Seq(B) /\ t \in Seq(B)
    BY <1>1
  <2>1. /\ v \in Seq(B) /\ Len(v) = Len(s) + Len(t)
        /\ \A i \in 1 .. Len(s) + Len(t) : v[i] = IF i <= Len(s) THEN s[i] ELSE t[i - Len(s)]
    BY ONLY <2>0, ConcatProperties
  <2>2. Len(s) = c /\ Len(t) = d
    BY <1>1
  <2> HIDE DEF v
  <2> QED
    BY ONLY <2>1, <2>2
<1> HIDE DEF v
<1>4. ASSUME NEW i \in 1 .. c + d PROVE v[i] = u[i]
  <2>1. CASE i <= c
    <3>1. i \in 1 .. c
      BY <2>1
    <3> QED
      BY <1>2, <1>3, <2>1, <3>1
  <2>2. CASE ~ (i <= c)
    <3>1. i - c \in 1 .. d /\ (b + c) + (i - c) = b + i
      BY <2>2
    <3>2. v[i] = t[i - c]
      BY <1>3, <2>2
    <3>3. t[i - c] = file[(b + c) + (i - c)]
      BY <1>2, <3>1
    <3> QED
      BY <1>2, <3>1, <3>2, <3>3
  <2> QED
    BY <2>1, <2>2
<1>5. v = u
  BY <1>1, <1>3, <1>4, SeqEqual
<1> QED
  BY <1>5 DEF v, s, t, u

\* What is saved of the comment that begins here.
LEMMA CommentHere ==
  ASSUME TypesOK, NEW n \in 0 .. Len(Layout[file]), AtSegment(n), unread_marker = COM, In2(1) - 2 \in Nat
  PROVE  LET g == Layout[file][n + 1]
             most == Least(Length, length_limit_COM)
         IN  pos + 2 <= Len(file) =>
               /\ g.marker = COM /\ g.from = pos /\ g.end = pos + In2(1)
               /\ g.end - (g.from + 2) = Length /\ most \in Nat /\ most <= Length
               /\ CommentOf(g) = Kept(pos + 2, most)
               /\ SavedNext(SavedComments(n), g) = Append(SavedComments(n), Kept(pos + 2, most))
<1> SUFFICES ASSUME pos + 2 <= Len(file)
             PROVE  LET g == Layout[file][n + 1]
                        most == Least(Length, length_limit_COM)
                    IN  /\ g.marker = COM /\ g.from = pos /\ g.end = pos + In2(1)
                        /\ g.end - (g.from + 2) = Length /\ most \in Nat /\ most <= Length
                        /\ CommentOf(g) = Kept(pos + 2, most)
                        /\ SavedNext(SavedComments(n), g) = Append(SavedComments(n), Kept(pos + 2, most))
  OBVIOUS
<1> DEFINE g == Layout[file][n + 1]
           most == Least(Length, length_limit_COM)
           size == g.end - (g.from + 2)
<1>1. pos \in Nat /\ length_limit_COM \in Nat /\ In2(1) \in Nat /\ Length = In2(1) - 2
  BY LengthFacts DEF TypesOK
<1>2. g.from = pos /\ g.marker = COM /\ g.end = pos + In2(1)
  BY SegmentHere
<1>3. size = Length /\ Length \in Nat
  <2> HIDE DEF g
  <2> QED
    BY <1>1, <1>2
<1>4. most \in Nat /\ most <= Length
  BY <1>1, <1>3 DEF Least
<1>5. CommentOf(g) = Kept(pos + 2, most)
  <2>1. (IF size < length_limit_COM THEN size ELSE length_limit_COM) = most
    BY <1>3 DEF Least
  <2>2. CommentOf(g) = [j \in 1 .. (IF size < length_limit_COM THEN size ELSE length_limit_COM) |->
                          file[g.from + 2 + j]]
    BY DEF CommentOf
  <2> HIDE DEF most, size
  <2>3. CommentOf(g) = [j \in 1 .. most |-> file[g.from + 2 + j]]
    BY <2>1, <2>2
  <2> HIDE DEF g
  <2> QED
    BY <1>2, <2>3 DEF Kept
<1>6. COM # SOI /\ ~ (size < 0)
  BY <1>3 DEF COM, SOI
<1>7. SavedNext(SavedComments(n), g) = Append(SavedComments(n), CommentOf(g))
  BY <1>2, <1>6 DEF SavedNext
<1> HIDE DEF g, most
<1> QED
  BY <1>2, <1>3, <1>4, <1>5, <1>7 DEF g, most

\* save_marker begins with a comment.
LEMMA SaveStartKeepsPlace ==
  ASSUME TypesOK, Place, SaveMarker, cur_marker = NoMarker, UNCHANGED global_state, pos' <= Len(file)
  PROVE  Place'
<1>0. /\ unread_marker = COM /\ length_limit_COM # 0
      /\ UNCHANGED <<file, saw_SOI, length_limit_COM>>
  BY DEF SaveMarker, sourceVars
<1>1. COM \notin {0} \union Alone
  BY DEF COM, Alone, Restarts, SOI, EOI, SOF0, RST0
<1>2. PICK n \in 0 .. Len(Layout[file]) : AtSegment(n)
  BY <1>0, <1>1 DEF Place, BehindSegment, InsideSegment
<1> DEFINE L == Layout[file]
           g == L[n + 1]
           N == Len(file)
           c == In2(1)
           q == pos'
           e == EndOf(file, n + 1)
           most == Least(Length, length_limit_COM)
<1>3. /\ n + 1 \in 1 .. Len(L) /\ n \in Nat
      /\ g.from = pos /\ g.marker = unread_marker /\ pos <= N /\ N \in Nat
      /\ e = g.end /\ g.end \in Nat
  BY <1>2, SegmentHere
<1>4. pos \in Nat /\ c \in Nat /\ Length = c - 2 /\ length_limit_COM \in Nat /\ file \in Files
  BY LengthFacts DEF TypesOK
<1>5. n < Len(L) /\ Comments(n)
  BY <1>2 DEF AtSegment
<1>6. CASE c < 2 /\ pos' = pos + 2 /\ unread_marker' = 0 /\ UNCHANGED <<cur_marker, marker_list>>
  BY <1>0, <1>2, <1>6, SegmentPassed
<1>7. ASSUME Length \in Nat, pos + 2 <= N
      PROVE  /\ g.marker = COM /\ g.from = pos /\ g.end = pos + c
             /\ g.end - (g.from + 2) = Length /\ most \in Nat /\ most <= Length
             /\ SavedNext(SavedComments(n), g) = Append(SavedComments(n), Kept(pos + 2, most))
  BY <1>0, <1>2, <1>4, <1>7, CommentHere
<1>8. CASE /\ Length \in Nat /\ most \in Nat /\ pos' = pos + c /\ unread_marker' = 0
           /\ marker_list' = Append(marker_list, [k \in 1 .. most |-> In(2 + k)])
           /\ UNCHANGED cur_marker
  <2>0. Length \in Nat /\ most \in Nat /\ q = pos + c /\ q <= N
    BY <1>8
  <2>1. pos + 2 <= N
    <3> HIDE DEF q, c, N, most
    <3> QED
      BY <1>3, <1>4, <2>0
  <2>2. /\ g.end = pos + c /\ most <= Length
        /\ SavedNext(SavedComments(n), g) = Append(SavedComments(n), Kept(pos + 2, most))
    BY <1>7, <2>0, <2>1
  <2>3. pos + 2 + most <= N /\ e = q /\ q \in Nat
    <3> HIDE DEF q, c, N, most, g, e
    <3> QED
      BY <1>3, <1>4, <2>0, <2>2
  <2>4. Run(2, most) = Kept(pos + 2, most)
    <3> HIDE DEF most
    <3> QED
      BY <2>0, <2>3, RunIsKept
  <2>5. marker_list' = Append(marker_list, Kept(pos + 2, most))
    BY <1>8, <2>4 DEF Run
  <2>6. EndOf(file, n + 1) <= pos' /\ Clear(file, EndOf(file, n + 1), pos')
    <3>1. e <= q /\ Clear(file, e, q)
      <4> HIDE DEF e, q
      <4> QED
        BY <2>3 DEF Clear
    <3> QED
      BY <3>1
  <2>7. marker_list = SavedComments(n) => marker_list' = SavedNext(SavedComments(n), L[n + 1])
    BY <2>2, <2>5
  <2> QED
    BY <1>0, <1>5, <1>8, <2>6, <2>7, BehindNext
<1>9. CASE /\ Length \in Nat /\ most \in Nat /\ pos' \in pos + 2 .. pos + 1 + most
           /\ cur_marker' = [marker |-> COM, original_length |-> Length, data_length |-> most,
                             data |-> [k \in 1 .. pos' - (pos + 2) |-> In(2 + k)]]
           /\ UNCHANGED <<unread_marker, marker_list>>
  <2> DEFINE d == q - (pos + 2)
  <2>0. Length \in Nat /\ most \in Nat /\ q \in pos + 2 .. pos + 1 + most /\ q <= N
    BY <1>9
  <2>1. pos + 2 <= N /\ d \in Nat /\ pos + 2 + d <= N
    <3> HIDE DEF q, c, N, most
    <3> QED
      BY <1>3, <1>4, <2>0
  <2>2. g.marker = COM /\ g.from = pos /\ g.end - (g.from + 2) = Length
    BY <1>7, <2>0, <2>1
  <2>3. Run(2, d) = Kept(pos + 2, d)
    <3> HIDE DEF d
    <3> QED
      BY <2>1, RunIsKept
  <2>4. cur_marker' = [marker |-> COM, original_length |-> Length, data_length |-> most,
                       data |-> Kept(pos + 2, d)]
    BY <1>9, <2>3 DEF Run
  <2>5. cur_marker' # NoMarker
    <3>1. cur_marker'.marker = COM /\ NoMarker.marker = 0
      BY <2>4 DEF NoMarker
    <3> QED
      BY <1>1, <3>1
  <2>6. Layout' = Layout /\ SavedComments(n)' = SavedComments(n)
    BY <1>0, SavedUnchanged DEF Layout
  <2>7. Comments(n)'
    BY <1>0, <1>5, <1>9, <2>6 DEF Comments
  <2>8. InsideSegment(n)'
    <3> DEFINE size == g.end - (g.from + 2)
               lim == length_limit_COM
    <3>1. most = IF size < lim THEN size ELSE lim
      BY <2>2 DEF Least
    <3>2. q \in g.from + 2 .. g.from + 1 + most
      BY <2>0, <2>2
    <3>3. cur_marker' = [marker |-> COM, original_length |-> size, data_length |-> most,
                         data |-> [j \in 1 .. q - (g.from + 2) |-> file[g.from + 2 + j]]]
      BY <2>2, <2>4 DEF Kept
    <3>4. L' = L /\ lim' = lim /\ file' = file /\ n < Len(L)
      BY <1>0, <1>5, <2>6
    <3> QED
      BY <2>2, <2>5, <2>7, <3>1, <3>2, <3>3, <3>4 DEF InsideSegment
  <2> QED
    BY <1>0, <2>6, <2>8 DEF Place
<1> HIDE DEF most
<1> QED
  BY <1>6, <1>8, <1>9, SavingStarts DEF most

\* save_marker goes on with a comment.
LEMMA SaveResumeKeepsPlace ==
  ASSUME TypesOK, SavingFits, Place, SaveMarker, cur_marker # NoMarker, UNCHANGED global_state,
         pos' <= Len(file)
  PROVE  Place'
<1>0. UNCHANGED <<file, saw_SOI, length_limit_COM>>
  BY DEF SaveMarker, sourceVars
<1>1. PICK n \in 0 .. Len(Layout[file]) : InsideSegment(n)
  BY DEF Place, BehindSegment, AtSegment
<1> DEFINE L == Layout[file]
           g == L[n + 1]
           N == Len(file)
           b == g.from + 2
           size == g.end - b
           most == IF size < length_limit_COM THEN size ELSE length_limit_COM
           q == pos'
           c == pos - b
           left == cur_marker.data_length - Len(cur_marker.data)
           e == EndOf(file, n + 1)
<1>2. /\ n < Len(L) /\ Comments(n) /\ g.marker = COM
      /\ pos \in b .. g.from + 1 + most
      /\ cur_marker = [marker |-> COM, original_length |-> size, data_length |-> most, data |-> Kept(b, c)]
  BY <1>1 DEF InsideSegment, Kept
<1>3. pos \in Nat /\ length_limit_COM \in Nat /\ file \in Files /\ N \in Nat /\ Len(L) \in Nat
  BY BytesOfFile, LayoutFacts DEF TypesOK
<1>4. n \in Nat /\ n + 1 \in 1 .. Len(L)
  BY <1>2, <1>3
<1>5. g.from \in Nat /\ g.end \in Nat /\ g.end = e
  BY <1>3, <1>4, SegmentFacts
<1>6. /\ cur_marker.original_length = size /\ cur_marker.data_length = most /\ cur_marker.data = Kept(b, c)
      /\ size \in Nat /\ most \in Nat
  <2>1. cur_marker.original_length = size /\ cur_marker.data_length = most /\ cur_marker.data = Kept(b, c)
    <3> HIDE DEF size, most, b, c
    <3> QED
      BY <1>2
  <2>2. cur_marker.original_length \in Nat /\ cur_marker.data_length \in Nat
    BY DEF SavingFits
  <2> HIDE DEF size, most, b, c
  <2> QED
    BY <2>1, <2>2
<1>7. /\ left \in Nat
      /\ \/ /\ pos' = pos + left + (cur_marker.original_length - cur_marker.data_length)
            /\ marker_list' = Append(marker_list, cur_marker.data \o [k \in 1 .. left |-> In(k)])
            /\ cur_marker' = NoMarker /\ unread_marker' = 0
            /\ UNCHANGED <<at, result>>
         \/ /\ pos' \in pos .. pos + left /\ (left > 0 => pos' < pos + left)
            /\ cur_marker' = [cur_marker EXCEPT !.data = @ \o [k \in 1 .. pos' - pos |-> In(k)]]
            /\ UNCHANGED <<unread_marker, marker_list>>
            /\ at' = "idle" /\ result' = "SUSPENDED"
  BY SavingResumes
<1>8. most <= size /\ b \in Nat
  <2> HIDE DEF size, g
  <2> QED
    BY <1>3, <1>5, <1>6
<1>9. c \in Nat /\ b + c = pos /\ pos < b + most
  <2>1. pos \in b .. (b - 1) + most
    <3> DEFINE f == g.from
    <3>1. f \in Nat /\ b = f + 2 /\ pos \in b .. f + 1 + most
      BY <1>2, <1>5
    <3> HIDE DEF f, b, most
    <3> QED
      BY <1>3, <1>6, <3>1
  <2> HIDE DEF b, most
  <2> QED
    BY <1>3, <1>6, <1>8, <2>1
<1>10. pos <= N /\ q \in Nat /\ q <= N
  <2>1. cur_marker.original_length - cur_marker.data_length \in Nat
    <3> HIDE DEF size, most
    <3> QED
      BY <1>6, <1>8
  <2> DEFINE rest == cur_marker.original_length - cur_marker.data_length
  <2>2. left \in Nat /\ rest \in Nat /\ (q = pos + left + rest \/ q \in pos .. pos + left) /\ q <= N
    BY <1>7, <2>1
  <2> HIDE DEF left, rest, q, N
  <2> QED
    BY <1>3, <2>2
<1>11. left = most - c
  <2>1. b + c <= Len(file)
    BY <1>9, <1>10
  <2>2. Len(Kept(b, c)) = c
    <3> HIDE DEF b, c
    <3> QED
      BY <1>3, <1>8, <1>9, <2>1, KeptFacts
  <2> HIDE DEF b, c, most
  <2> QED
    BY <1>6, <2>2
<1>12. ASSUME NEW d \in Nat, pos + d <= N
       PROVE  Kept(b, c) \o [k \in 1 .. d |-> In(k)] = Kept(b, c + d)
  <2>1. Run(0, d) = [k \in 1 .. d |-> In(k)]
    BY DEF Run
  <2>2. 0 \in Nat /\ pos + 0 = pos /\ pos + 0 + d <= Len(file)
    BY <1>3, <1>12
  <2>3. Run(0, d) = Kept(pos, d)
    BY <2>2, RunIsKept
  <2>4. b + c = pos /\ b + c + d <= Len(file)
    BY <1>9, <1>12
  <2> HIDE DEF b, c
  <2>5. Kept(b, c) \o Kept(b + c, d) = Kept(b, c + d)
    BY <1>3, <1>8, <1>9, <2>4, KeptJoins
  <2> QED
    BY <2>1, <2>3, <2>4, <2>5
<1>13. CASE /\ pos' = pos + left + (cur_marker.original_length - cur_marker.data_length)
            /\ marker_list' = Append(marker_list, cur_marker.data \o [k \in 1 .. left |-> In(k)])
            /\ cur_marker' = NoMarker /\ unread_marker' = 0
  <2>1. left \in Nat /\ c + left = most /\ pos + left <= N /\ q = e
    <3>1. /\ left \in Nat /\ left = most - c /\ q = pos + left + (size - most)
          /\ size = e - b
      BY <1>5, <1>6, <1>7, <1>11, <1>13
    <3>2. e \in Nat
      BY <1>5
    <3> HIDE DEF left, c, q, e, size, most, b, N
    <3> QED
      BY <1>3, <1>6, <1>8, <1>9, <1>10, <3>1, <3>2
  <2>2. marker_list' = Append(marker_list, Kept(b, most))
    <3>1. Kept(b, c) \o [k \in 1 .. left |-> In(k)] = Kept(b, c + left)
      <4> HIDE DEF left, b, c
      <4> QED
        BY <1>12, <2>1
    <3>2. marker_list' = Append(marker_list, Kept(b, c) \o [k \in 1 .. left |-> In(k)])
      <4> HIDE DEF left, b, c
      <4> QED
        BY <1>6, <1>13
    <3> HIDE DEF left, b, c, most
    <3> QED
      BY <2>1, <3>1, <3>2
  <2>3. SavedNext(SavedComments(n), g) = Append(SavedComments(n), Kept(b, most))
    <3>1. CommentOf(g) = Kept(b, most)
      BY DEF CommentOf, Kept
    <3>2. COM # SOI /\ ~ (size < 0)
      <4> HIDE DEF size
      <4> QED
        BY <1>6 DEF COM, SOI
    <3>3. SavedNext(SavedComments(n), g) = Append(SavedComments(n), CommentOf(g))
      BY <1>2, <3>2 DEF SavedNext
    <3> QED
      BY <3>1, <3>3
  <2>4. EndOf(file, n + 1) <= pos' /\ Clear(file, EndOf(file, n + 1), pos')
    <3>1. e <= q /\ Clear(file, e, q)
      <4> HIDE DEF e, q
      <4> QED
        BY <1>10, <2>1 DEF Clear
    <3> QED
      BY <3>1
  <2>5. marker_list = SavedComments(n) => marker_list' = SavedNext(SavedComments(n), L[n + 1])
    BY <2>2, <2>3
  <2>6. n < Len(Layout[file]) /\ Comments(n)
    BY <1>2
  <2> HIDE DEF L
  <2> QED
    BY <1>0, <1>13, <2>4, <2>5, <2>6, BehindNext DEF L
<1>14. CASE /\ pos' \in pos .. pos + left /\ (left > 0 => pos' < pos + left)
            /\ cur_marker' = [cur_marker EXCEPT !.data = @ \o [k \in 1 .. pos' - pos |-> In(k)]]
            /\ UNCHANGED <<unread_marker, marker_list>>
  <2> DEFINE d == q - pos
  <2>1. d \in Nat /\ pos + d = q /\ q \in b .. (b - 1) + most /\ c + d = q - b
    <3>1. left = most - c /\ q \in pos .. pos + left /\ (left > 0 => q < pos + left) /\ left \in Nat
      BY <1>7, <1>11, <1>14
    <3>0. d = q - pos
      OBVIOUS
    <3> HIDE DEF left, c, q, most, b, d, N
    <3>2. pos \in Nat /\ most \in Nat /\ b \in Nat /\ c \in Nat /\ b + c = pos /\ pos < b + most /\ q \in Nat
      BY <1>3, <1>6, <1>8, <1>9, <1>10
    <3>3. d \in Nat /\ pos + d = q
      BY <3>0, <3>1, <3>2
    <3>4. c + d = q - b
      BY <3>0, <3>2
    <3>5. left > 0 /\ pos + left = b + most
      BY <3>1, <3>2
    <3>6. q < b + most /\ q >= b
      BY <3>1, <3>2, <3>5
    <3>7. q \in b .. (b - 1) + most
      BY <3>2, <3>6
    <3> QED
      BY <3>3, <3>4, <3>7
  <2>2. Kept(b, c) \o [k \in 1 .. d |-> In(k)] = Kept(b, q - b)
    <3>1. pos + d <= N
      BY <1>10, <2>1
    <3> HIDE DEF d, b, c, q
    <3> QED
      BY <1>12, <2>1, <3>1
  <2>3. cur_marker' = [marker |-> COM, original_length |-> size, data_length |-> most, data |-> Kept(b, q - b)]
    <3>1. cur_marker' = [cur_marker EXCEPT !.data = Kept(b, q - b)]
      <4>1. cur_marker' = [cur_marker EXCEPT !.data = cur_marker.data \o [k \in 1 .. d |-> In(k)]]
        BY <1>14
      <4> HIDE DEF d, b, c, q
      <4> QED
        BY <1>6, <2>2, <4>1
    <3> HIDE DEF size, most, b, q, c
    <3> QED
      BY <1>2, <3>1
  <2>4. cur_marker' # NoMarker
    <3>1. cur_marker'.marker = COM /\ NoMarker.marker = 0 /\ COM # 0
      BY <2>3 DEF NoMarker, COM
    <3> QED
      BY <3>1
  <2>5. Layout' = Layout /\ SavedComments(n)' = SavedComments(n)
    BY <1>0, SavedUnchanged DEF Layout
  <2>6. Comments(n)'
    BY <1>0, <1>2, <1>14, <2>5 DEF Comments
  <2>7. InsideSegment(n)'
    <3>1. L' = L /\ file' = file /\ n < Len(L) /\ length_limit_COM' = length_limit_COM
      BY <1>0, <1>2, <2>5
    <3>2. q \in g.from + 2 .. g.from + 1 + most
      <4> DEFINE f == g.from
      <4>1. f \in Nat /\ b = f + 2
        BY <1>5
      <4>2. q \in f + 2 .. f + 1 + most
        <5> HIDE DEF b, q, most, f
        <5> QED
          BY <1>6, <1>10, <2>1, <4>1
      <4> QED
        BY <4>2
    <3> QED
      BY <1>2, <2>3, <2>4, <2>6, <3>1, <3>2 DEF InsideSegment, Kept
  <2> QED
    BY <1>0, <2>5, <2>7 DEF Place
<1> HIDE DEF left
<1> QED
  BY <1>7, <1>13, <1>14 DEF left

\* The reader of the markers goes from segment to segment.
LEMMA ReadMarkersKeepPlace ==
  ASSUME PlaceInv, ReadMarkers, UNCHANGED global_state
  PROVE  (at # "exited" /\ pos <= Len(file) => Place)'
<1>1. TurnsInv /\ TypesOK /\ MethodFits /\ SavingFits /\ StartFits
  BY DEF PlaceInv, TurnsInv
<1>2. CASE BadMarker \/ MarkerSuspends
  <2>1. /\ at = "markers"
        /\ UNCHANGED <<file, length_limit_COM, pos, unread_marker, cur_marker, saw_SOI, marker_list>>
    BY <1>2 DEF BadMarker, MarkerSuspends, sourceVars, markerVars
  <2> QED
    BY <2>1, PlaceStays
<1> SUFFICES ASSUME ~ (BadMarker \/ MarkerSuspends), pos' <= Len(file') PROVE Place'
  BY <1>2
<1>3. at = "markers"
  BY DEF ReadMarkers, LookForMarker, FirstMarker, GetSoi, GetSof, GetSos, ReachEoi, GetDht, GetDqt, GetDri,
         GetInterestingAppn, SkipVariable, Parameterless, SaveMarker, Handled
<1>4. pos <= Len(file) => Place
  BY <1>3 DEF PlaceInv
<1>5. pos \in Nat /\ file \in Files /\ Len(file) \in Nat
  BY <1>1, BytesOfFile DEF TypesOK
<1>6. SOI # COM /\ SOI # 0 /\ SOI \in Alone /\ COM # 0 /\ COM \notin Alone
  BY DEF SOI, COM, Alone, Restarts, EOI, SOF0, RST0
<1>7. CASE LookForMarker
  <2>1. /\ unread_marker = 0 /\ (NextMarkerFound \/ NextMarkerSuspends)
        /\ UNCHANGED <<file, length_limit_COM, saw_SOI, marker_list, cur_marker>>
    BY <1>7 DEF LookForMarker, sourceVars
  <2>2. cur_marker = NoMarker
    BY <1>1, <1>6, <2>1 DEF SavingFits
  <2> QED
    BY <1>1, <1>4, <1>6, <2>1, <2>2, SearchKeepsPlace
<1>8. CASE FirstMarker
  <2>1. /\ unread_marker = 0
        /\ UNCHANGED <<file, length_limit_COM, saw_SOI, marker_list, cur_marker>>
    BY <1>8 DEF FirstMarker, sourceVars, markerVars
  <2>2. cur_marker = NoMarker
    BY <1>1, <1>6, <2>1 DEF SavingFits
  <2>3. CASE UNCHANGED <<pos, unread_marker>>
    <3>1. Place
      BY <1>4, <2>1, <2>3
    <3>2. Clear(file, pos, pos')
      BY <1>1, <2>3, ClearHere
    <3>3. pos <= pos' /\ pos' \in Nat
      BY <1>5, <2>3
    <3> QED
      BY <1>1, <1>6, <2>1, <2>2, <2>3, <3>1, <3>2, <3>3, StillBetween
  <2>4. CASE /\ <<In(1), In(2)>> = <<255, SOI>> /\ pos' = pos + 2 /\ unread_marker' = SOI
    <3>1. pos' \in Nat /\ pos <= pos' /\ pos <= Len(file) /\ pos' <= Len(file)
          /\ pos + 1 <= Len(file) /\ pos + 2 <= Len(file) /\ pos' - 1 = pos + 1
      BY <1>5, <2>1, <2>4
    <3>2. In(1) = file[pos + 1] /\ In(2) = file[pos + 2]
      BY <1>5, <3>1, InFacts
    <3>3. EndsMarkerOf(file, pos') /\ unread_marker' = file[pos']
      <4>1. file[pos' - 1] = 255 /\ file[pos'] = SOI
        BY <2>4, <3>1, <3>2
      <4>2. SOI \notin {0, 255}
        BY DEF SOI
      <4> QED
        BY <2>4, <4>1, <4>2 DEF EndsMarkerOf
    <3>4. \A k \in pos + 2 .. pos' - 1 : ~ EndsMarkerOf(file, k)
      BY <1>5, <2>4
    <3>5. PICK n \in 0 .. Len(Layout[file]) :
            EndOf(file, n) <= pos /\ Clear(file, EndOf(file, n), pos) /\ Comments(n)
      BY <1>4, <1>6, <2>1, <2>2, <3>1, PlaceBetween
    <3>6. IF unread_marker' = 0 THEN Clear(file, pos, pos')
          ELSE /\ pos + 2 <= pos' /\ EndsMarkerOf(file, pos') /\ unread_marker' = file[pos']
               /\ \A k \in pos + 2 .. pos' - 1 : ~ EndsMarkerOf(file, k)
      BY <1>5, <1>6, <2>4, <3>3, <3>4
    <3> QED
      BY <1>1, <2>1, <2>2, <3>1, <3>5, <3>6, PlaceMoves
  <2> QED
    BY <1>8, <2>3, <2>4 DEF FirstMarker
<1>9. CASE GetSoi
  <2>1. UNCHANGED <<file, pos>>
    BY <1>1, <1>9, SoiHandled
  <2> QED
    BY <1>1, <1>4, <1>9, <2>1, SoiKeepsPlace
<1>10. CASE ReachEoi \/ Parameterless
  <2>1. /\ unread_marker \in Alone \ {0, SOI, COM} /\ unread_marker' = 0
        /\ UNCHANGED <<file, pos, saw_SOI, cur_marker, marker_list, length_limit_COM>>
    BY <1>1, <1>10, AloneHandled
  <2>2. cur_marker = NoMarker
    BY <1>1, <2>1 DEF SavingFits
  <2>3. Clear(file, pos, pos') /\ pos <= pos' /\ pos' \in Nat
    BY <1>1, <1>5, <2>1, ClearHere
  <2> QED
    BY <1>1, <1>4, <1>6, <2>1, <2>2, <2>3, StillBetween
<1>11. CASE GetSof \/ GetSos \/ GetDht \/ GetDqt \/ GetDri \/ GetInterestingAppn \/ SkipVariable
  <2>1. /\ pos' = pos + In2(1) \/ (pos' = pos + 2 /\ In2(1) < 2)
        /\ unread_marker \notin {0} \union Alone /\ (unread_marker = COM => length_limit_COM = 0)
        /\ unread_marker' = 0
        /\ UNCHANGED <<file, saw_SOI, cur_marker, marker_list, length_limit_COM>>
    BY <1>1, <1>11, SegmentHandled
  <2>2. In2(1) \in Nat
    BY <1>1, LengthFacts
  <2>3. pos <= Len(file) /\ pos' <= Len(file)
    BY <1>5, <2>1, <2>2
  <2>4. cur_marker = NoMarker
    BY <1>1, <2>1 DEF SavingFits
  <2>5. PICK n \in 0 .. Len(Layout[file]) : AtSegment(n)
    BY <1>4, <2>1, <2>3, <2>4 DEF Place, BehindSegment, InsideSegment
  <2> QED
    BY <1>1, <2>1, <2>3, <2>5, SegmentPassed
<1>12. CASE SaveMarker
  <2>1. UNCHANGED file
    BY <1>12 DEF SaveMarker, sourceVars
  <2>2. pos <= pos' /\ pos' \in Nat
    <3>1. In2(1) \in Nat /\ Length = In2(1) - 2 /\ length_limit_COM \in Nat
      BY <1>1, LengthFacts DEF TypesOK
    <3>2. CASE cur_marker = NoMarker
      <4> DEFINE most == Least(Length, length_limit_COM)
      <4>1. pos' = pos + 2 \/ pos' = pos + In2(1) \/ (most \in Nat /\ pos' \in pos + 2 .. pos + 1 + most)
        BY <1>1, <1>12, <3>2, SavingStarts
      <4> HIDE DEF most
      <4> QED
        BY <1>5, <3>1, <4>1
    <3>3. CASE cur_marker # NoMarker
      <4> DEFINE left == cur_marker.data_length - Len(cur_marker.data)
                 rest == cur_marker.original_length - cur_marker.data_length
      <4>1. left \in Nat /\ (pos' = pos + left + rest \/ pos' \in pos .. pos + left)
        BY <1>1, <1>12, <3>3, SavingResumes
      <4>2. rest \in Nat
        <5>1. /\ cur_marker.original_length \in Nat /\ cur_marker.data_length \in Nat
              /\ cur_marker.data_length <= cur_marker.original_length
          BY <1>1, <3>3 DEF SavingFits
        <5> QED
          BY <5>1
      <4> HIDE DEF left, rest
      <4> QED
        BY <1>5, <4>1, <4>2
    <3> QED
      BY <3>2, <3>3
  <2>3. Place /\ pos' <= Len(file)
    BY <1>4, <1>5, <2>1, <2>2
  <2> QED
    BY <1>1, <1>12, <2>3, SaveStartKeepsPlace, SaveResumeKeepsPlace
<1> QED
  BY <1>7, <1>8, <1>9, <1>10, <1>11, <1>12 DEF ReadMarkers

\* read_restart_marker passes over markers that stand alone, and stops at any other.
LEMMA RestartsKeepPlace ==
  ASSUME PlaceInv, ReadRestartMarker, UNCHANGED global_state
  PROVE  (at # "exited" /\ pos <= Len(file) => Place)'
<1>1. TurnsInv /\ TypesOK /\ MethodFits /\ SavingFits
  BY DEF PlaceInv, TurnsInv
<1>2. /\ at = "restart"
      /\ UNCHANGED <<file, length_limit_COM, saw_SOI, marker_list, cur_marker>>
  BY DEF ReadRestartMarker, AcceptRestart, LeaveRestart, ScanToRestart, sourceVars
<1>3. cur_marker = NoMarker
  BY <1>1, <1>2 DEF MethodFits, SavingFits
<1>4. pos <= Len(file) => Place
  BY <1>2 DEF PlaceInv
<1>5. pos \in Nat /\ unread_marker \in Nat /\ next_restart_num \in 0 .. 7
  BY <1>1 DEF TypesOK
<1>6. SOI # 0
  BY DEF SOI
<1>7. CASE LeaveRestart
  <2>1. UNCHANGED <<pos, unread_marker>>
    BY <1>7 DEF LeaveRestart
  <2> QED
    BY <1>2, <2>1, PlaceStays
<1> SUFFICES ASSUME ~ LeaveRestart, pos' <= Len(file') PROVE Place'
  BY <1>7
<1>8. CASE AcceptRestart
  <2>1. unread_marker # 0 /\ unread_marker' = 0 /\ UNCHANGED pos
    BY <1>8 DEF AcceptRestart
  <2>2. unread_marker \in Alone /\ unread_marker # SOI
    BY <1>2, <1>5, <1>8, RestartMarkersAlone DEF AcceptRestart
  <2>3. Clear(file, pos, pos') /\ pos <= pos' /\ pos' \in Nat
    BY <1>1, <1>5, <2>1, ClearHere
  <2> QED
    BY <1>1, <1>2, <1>3, <1>4, <1>6, <2>1, <2>2, <2>3, StillBetween
<1>9. CASE ScanToRestart
  <2>1. NextMarkerFound \/ NextMarkerSuspends
    BY <1>9 DEF ScanToRestart
  <2>2. unread_marker \in {0} \union Alone /\ unread_marker # SOI
    <3>1. CASE unread_marker = 0
      BY <1>6, <3>1
    <3>2. CASE unread_marker # 0
      BY <1>2, <1>5, <1>9, <3>2, RestartMarkersAlone DEF ScanToRestart
    <3> QED
      BY <3>1, <3>2
  <2> QED
    BY <1>1, <1>2, <1>3, <1>4, <2>1, <2>2, SearchKeepsPlace
<1> QED
  BY <1>8, <1>9 DEF ReadRestartMarker

\* All the other steps leave the reader where it is.
LEMMA OthersKeepPlace ==
  ASSUME PlaceInv, Consume \/ ReachedFirstSos \/ ReachedSos \/ ReachedEoi \/ TablesOnly \/ CallSuspends
                     \/ (Supply /\ UNCHANGED <<controlVars, entropyVars>>)
                     \/ BeginRestart \/ EndRestart \/ EndOfRow
                     \/ Passes \/ ReadHeader \/ StartDecompress \/ FinishReturns \/ UNCHANGED vars
  PROVE  (at # "exited" /\ pos <= Len(file) => Place)'
<1>1. TurnsInv /\ MethodFits /\ CallsRest
  BY DEF PlaceInv, TurnsInv
<1> USE DEF sourceVars, markerVars, controlVars, entropyVars, readerVars, Calls, Returns, Ready
<1>2. at # "exited" \/ at' = "exited"
  BY DEF Consume, ReachedFirstSos, ReachedSos, ReachedEoi, TablesOnly, CallSuspends, Supply, BeginRestart,
         EndRestart, EndOfRow, Passes, StartDecompressAgain, StartReturns, StartOutput, ReadRow, ReadReturns,
         FinishOutput, FinishOutputReturns, FinishDecompress, ReadHeader, StartDecompress, FinishReturns, vars
<1>3. UNCHANGED <<file, length_limit_COM, pos, unread_marker, cur_marker>>
  <2>1. CASE Passes
    BY <1>1, <2>1, PassesFacts
  <2>2. CASE ReadHeader
    BY <1>1, <2>2 DEF ReadHeader, ResetInput, CallsRest
  <2>3. CASE Consume \/ ReachedFirstSos \/ ReachedSos \/ ReachedEoi \/ TablesOnly \/ CallSuspends
               \/ (Supply /\ UNCHANGED <<controlVars, entropyVars>>)
    BY <2>3 DEF Consume, ReachedFirstSos, ReachedSos, ReachedEoi, TablesOnly, CallSuspends, Supply
  <2>4. CASE BeginRestart \/ EndRestart \/ EndOfRow
    BY <2>4 DEF BeginRestart, EndRestart, EndOfRow
  <2>5. CASE StartDecompress \/ FinishReturns \/ UNCHANGED vars
    BY <2>5 DEF StartDecompress, FinishReturns, vars
  <2> QED
    BY <2>1, <2>2, <2>3, <2>4, <2>5
<1>4. saw_SOI' /\ global_state' # "START" => saw_SOI /\ global_state # "START" /\ marker_list' = marker_list
  <2>1. CASE Passes
    BY <1>1, <2>1, PassesFacts
  <2>2. CASE ReadHeader
    BY <1>1, <2>2 DEF ReadHeader, ResetInput
  <2>3. CASE ReachedFirstSos \/ ReachedSos \/ ReachedEoi \/ TablesOnly
    <3>1. result # "none"
      BY <2>3 DEF ReachedFirstSos, ReachedSos, ReachedEoi, TablesOnly
    <3>2. global_state # "START"
      BY <1>1, <3>1 DEF CallsRest
    <3> QED
      BY <2>3, <3>2 DEF ReachedFirstSos, ReachedSos, ReachedEoi, TablesOnly
  <2>4. CASE Consume \/ CallSuspends \/ (Supply /\ UNCHANGED <<controlVars, entropyVars>>)
    BY <2>4 DEF Consume, CallSuspends, Supply
  <2>5. CASE BeginRestart \/ EndRestart \/ EndOfRow
    BY <2>5 DEF BeginRestart, EndRestart, EndOfRow
  <2>6. CASE StartDecompress
    BY <2>6 DEF StartDecompress
  <2>7. CASE FinishReturns \/ UNCHANGED vars
    BY <2>7 DEF FinishReturns, vars
  <2> QED
    BY <2>1, <2>2, <2>3, <2>4, <2>5, <2>6, <2>7
<1> QED
  BY <1>2, <1>3, <1>4, PlaceStays

\* Every step keeps the invariant.
LEMMA PlaceInductive == PlaceInv /\ [Next]_vars => PlaceInv'
<1> SUFFICES ASSUME PlaceInv, [Next]_vars PROVE PlaceInv'
  OBVIOUS
<1>1. TurnsInv'
  BY TurnsInductive DEF PlaceInv
<1>2. (at # "exited" /\ pos <= Len(file) => Place)'
  <2>1. CASE ReadMarkers /\ UNCHANGED controlVars
    BY <2>1, ReadMarkersKeepPlace DEF controlVars
  <2>2. CASE ReadRestartMarker /\ UNCHANGED controlVars
    BY <2>2, RestartsKeepPlace DEF controlVars
  <2>3. CASE DecodeMcu
    BY <2>3, McuKeepsPlace
  <2>4. CASE Consume \/ ReachedFirstSos \/ ReachedSos \/ ReachedEoi \/ TablesOnly \/ CallSuspends
                     \/ (Supply /\ UNCHANGED <<controlVars, entropyVars>>)
                     \/ BeginRestart \/ EndRestart \/ EndOfRow
                     \/ Passes \/ ReadHeader \/ StartDecompress \/ FinishReturns \/ UNCHANGED vars
    BY <2>4, OthersKeepPlace
  <2> QED
    BY <2>1, <2>2, <2>3, <2>4 DEF Next, Application, Library, Passes
<1> QED
  BY <1>1, <1>2 DEF PlaceInv

\* At the start no segment is read.
LEMMA InitPlace == Init => PlaceInv
<1> SUFFICES ASSUME Init PROVE PlaceInv
  OBVIOUS
<1>1. TurnsInv
  BY InitTurns
<1>2. /\ file \in Files /\ pos = 0 /\ unread_marker = 0 /\ cur_marker = NoMarker /\ global_state = "START"
  BY DEF Init, ReaderInit
<1>3. Len(Layout[file]) \in Nat /\ EndOf(file, 0) = 0
  BY <1>2, LayoutFacts DEF EndOf
<1>4. Clear(file, 0, 0)
  BY DEF Clear
<1>5. BehindSegment(0)
  BY <1>2, <1>3, <1>4 DEF BehindSegment, Comments, SOI
<1>6. 0 \in 0 .. Len(Layout[file])
  BY <1>3
<1> QED
  BY <1>1, <1>5, <1>6 DEF PlaceInv, Place

\* In every file, wherever its bytes are late, each comment is saved once and whole.
THEOREM CommentsRight == Spec => []CommentsSavedOnce
<1>1. Init => PlaceInv
  BY InitPlace
<1>2. PlaceInv /\ [Next]_vars => PlaceInv'
  BY PlaceInductive
<1>3. PlaceInv => CommentsSavedOnce
  BY PlaceGivesComments
<1> QED
  BY <1>1, <1>2, <1>3, PTL DEF Spec
=============================================================================
