-------------------------- MODULE Prac3Properties --------------------------
(***************************************************************************)
(* What the MPI program of module Prac3 promises.                          *)
(***************************************************************************)
EXTENDS Prac3

MasterLabels == {"read", "split", "sendDims", "recvEcho", "sendArray",
                 "recvAck", "gather", "write", "finalize"}
SlaveLabels  == {"recvDims", "sendEcho", "recvArray", "sendAck", "filter",
                 "sendResult", "finalize"}

\* The type of the program's variables.
TypeOK ==
  /\ pc \in [Rank -> MasterLabels \union SlaveLabels]
  /\ pc[0] \in MasterLabels /\ \A s \in Slaves : pc[s] \in SlaveLabels
  /\ job \in {"running", "killed", "mpi_error"}
  /\ blocked \in SUBSET (Rank \X Rank)
  /\ DOMAIN chan = Rank \X Rank
  /\ height \in Nat
  /\ i \in 0 .. NumProcs - 1
  /\ mod_check \in Nat
  /\ y_portions \in [Strips -> Nat]
  /\ indexer \in Int
  /\ DOMAIN Output \subseteq Int
  /\ saved \in BOOLEAN
  /\ dimensions \in [Slaves -> Nat]
  /\ DOMAIN input_arr = Slaves /\ DOMAIN out_arr = Slaves

\* Every message meets the MPI_Recv it was meant for: Master's single tag
\* makes the order of the calls the only thing that tells a dimension, an
\* acknowledgement and a result apart, and a mismatch is fatal.
NoMPIError == job # "mpi_error"

\* A strip is only sent to a rank that has allocated exactly that many bytes
\* and waits for it: this is what the exchange of dimensions is for.
StripMeetsItsBuffer ==
  \A s \in Slaves : \A k \in 1 .. Len(chan[<<0, s>>]) :
    chan[<<0, s>>][k].type = "char" =>
      /\ pc[s] = "recvArray"
      /\ chan[<<0, s>>][k].count = dimensions[s] * Stride

\* MPI_Finalize must not be called with messages still to be received: when
\* Master returns nothing is under way in either direction.
NothingLeftBehind ==
  pc[0] = "finalize" => \A p, q \in Rank : chan[<<p, q>>] = <<>>

\* Each message has one receive that it was meant for, which takes it: none meets
\* another, none a buffer of another size, and none is left over.
MessagesFit == NoMPIError /\ StripMeetsItsBuffer /\ NothingLeftBehind

\* The scatter loop reads rows of Input only, when the image is high enough.
StripsInsideImage ==
  WellSized(height) =>
    \A s \in Slaves : \A k \in DOMAIN input_arr[s] : input_arr[s][k] # OutOfBounds

\* No black lines between the strips: every row of the output image has been
\* assigned when it is written, and no row outside it ever is.  This holds even
\* for images with fewer rows than there are slaves.
ImageComplete ==
  /\ DOMAIN Output \subseteq 0 .. height - 1
  /\ pc[0] = "write" \/ saved => DOMAIN Output = 0 .. height - 1

\* The partition is invisible: a row of Output is what the filter of Slave()
\* gives for that row of the whole image, and in particular what the
\* sequential filter gives away from the border.
PartitionInvisible ==
  WellSized(height) =>
    \A y \in DOMAIN Output :
      Output[y] = FilterRow(Image(height), height, y)

\* What RowFilter calls phase.
Phase == IF saved THEN "saved"
         ELSE IF job # "running" \/ pc[0] = "finalize" THEN "lost"
         ELSE IF pc[0] = "read" THEN "start" ELSE "filter"

\* The program implements RowFilter, whose rows are exact for images that are
\* high enough.
Filtered == INSTANCE RowFilter WITH rows <- Output, phase <- Phase,
                                    ExactHeights <- {h \in Heights : WellSized(h)}

ImplementsRowFilter == Filtered!Spec

Finalized == \A p \in Rank : pc[p] = "finalize" /\ Running(p)

\* Once the image is read the program ends, whatever sends the MPI library
\* buffers: no rank waits forever for another.
EndsOnceImageIsRead == (pc[0] = "split") ~> (Finalized \/ job # "running")

\* Prac3.cpp:347: MPI programs end with MPI_Finalize: every rank gets there,
\* unless the whole job is ended.
EveryRankFinalizes == <>(Finalized \/ job # "running")

-----------------------------------------------------------------------------
(***************************************************************************)
(* The inductive invariant.  ProtocolInv says which messages are under way *)
(* between Master and each slave, DataInv what the arrays hold; neither    *)
(* depends on the size of the image.                                       *)
(***************************************************************************)

\* How far Master has got with rank s.
Stage(s) ==
  CASE pc[0] \in {"read", "split"} -> "idle"
    [] pc[0] = "sendDims"  -> IF s < i THEN "sized" ELSE "idle"
    [] pc[0] = "recvEcho"  -> IF s < i THEN "sized" ELSE IF s = i THEN "sizing" ELSE "idle"
    [] pc[0] = "sendArray" -> IF s < i + 1 THEN "filled" ELSE "sized"
    [] pc[0] = "recvAck"   -> IF s < i + 1 THEN "filled" ELSE IF s = i + 1 THEN "filling" ELSE "sized"
    [] pc[0] = "gather"    -> IF s < i THEN "collected" ELSE "filled"
    [] pc[0] = "write"     -> "collected"
    [] OTHER               -> IF height = 0 THEN "idle" ELSE "collected"

DimsMsg(s)   == [type |-> "int", count |-> 3, data |-> y_portions[s - 1]]
ArrayMsg(s)  == [type |-> "char", count |-> y_portions[s - 1] * Stride,
                 data |-> Strip(height, indexer, y_portions[s - 1])]
AckMsg       == [type |-> "char", count |-> 1, data |-> NoRows]
ResultMsg(s) == [type |-> "char", count |-> y_portions[s - 1] * Stride, data |-> out_arr[s]]

\* Rank s is at label, with these messages on the way to it and from it.
Where(s, label, down, up) == pc[s] = label /\ chan[<<0, s>>] = down /\ chan[<<s, 0>>] = up

Idle(s)      == Where(s, "recvDims", <<>>, <<>>)
Sizing(s)    == \/ Where(s, "recvDims", <<DimsMsg(s)>>, <<>>)
                \/ Where(s, "sendEcho", <<>>, <<>>) /\ dimensions[s] = y_portions[s - 1]
                \/ Where(s, "recvArray", <<>>, <<DimsMsg(s)>>) /\ dimensions[s] = y_portions[s - 1]
Sized(s)     == Where(s, "recvArray", <<>>, <<>>) /\ dimensions[s] = y_portions[s - 1]
Filling(s)   == /\ dimensions[s] = y_portions[s - 1]
                /\ \/ Where(s, "recvArray", <<ArrayMsg(s)>>, <<>>)
                   \/ Where(s, "sendAck", <<>>, <<>>)
                   \/ Where(s, "filter", <<>>, <<AckMsg>>)
                   \/ Where(s, "sendResult", <<>>, <<AckMsg>>)
                   \/ Where(s, "finalize", <<>>, <<AckMsg, ResultMsg(s)>>)
Filled(s)    == /\ dimensions[s] = y_portions[s - 1]
                /\ \/ Where(s, "filter", <<>>, <<>>)
                   \/ Where(s, "sendResult", <<>>, <<>>)
                   \/ Where(s, "finalize", <<>>, <<ResultMsg(s)>>)
Collected(s) == Where(s, "finalize", <<>>, <<>>)

Protocol(s) ==
  /\ Stage(s) = "idle"      => Idle(s)
  /\ Stage(s) = "sizing"    => Sizing(s)
  /\ Stage(s) = "sized"     => Sized(s)
  /\ Stage(s) = "filling"   => Filling(s)
  /\ Stage(s) = "filled"    => Filled(s)
  /\ Stage(s) = "collected" => Collected(s)

\* The values of the loop index at each statement of Master; the height is
\* zero exactly when no image was read.
IndexInRange ==
  /\ pc[0] \in {"split", "sendArray", "recvAck"} => i \in Strips
  /\ pc[0] \in {"sendDims", "recvEcho", "gather"} => i \in Slaves
  /\ pc[0] = "read" => height = 0
  /\ pc[0] \notin {"read", "finalize"} => height # 0

\* The slaves never talk to each other.
OnlyWithMaster ==
  \A p, q \in Rank : p = q \/ (p # 0 /\ q # 0) => chan[<<p, q>>] = <<>>

ProtocolInv ==
  /\ TypeOK /\ NoMPIError /\ IndexInRange /\ OnlyWithMaster
  /\ \A s \in Slaves : Protocol(s)

\* y_portions and mod_check during and after the loop that computes them.
PortionsInv ==
  /\ pc[0] = "split" =>
       /\ mod_check = IF i <= height % NumSlaves THEN (height % NumSlaves) - i ELSE 0
       /\ \A k \in 0 .. i - 1 : y_portions[k] = PortionOf(height, k)
  /\ pc[0] \notin {"read", "split"} /\ height # 0 =>
       \A k \in Strips : y_portions[k] = PortionOf(height, k)

Nonempty(k) == Start(height, k) < Start(height, k + 1)

\* indexer is the first row of the strip last handled, in both loops.  The
\* gather loop does not update it for a strip that owns no row, which only
\* the last ones can be.
IndexerInv ==
  /\ pc[0] = "sendArray" => indexer = IF i = 0 THEN 0 ELSE FirstRow(height, i - 1)
  /\ pc[0] = "recvAck"   => indexer = FirstRow(height, i)
  /\ pc[0] = "gather" /\ Nonempty(i - 1) =>
       indexer = IF i = 1 THEN 0 ELSE FirstRow(height, i - 2)

StripOf(s) == Strip(height, FirstRow(height, s - 1), PortionOf(height, s - 1))

FilteredStripOf(s) ==
  [y \in 0 .. PortionOf(height, s - 1) - 1 |->
     FilterRow(StripOf(s), PortionOf(height, s - 1), y)]

\* What each slave holds.
StripsInv ==
  \A s \in Slaves :
    /\ input_arr[s] = IF pc[s] \in {"sendAck", "filter", "sendResult", "finalize"}
                      THEN StripOf(s) ELSE NoRows
    /\ pc[s] \in {"sendResult", "finalize"} => out_arr[s] = FilteredStripOf(s)

\* The rows of Output that are there: those of the strips collected so far.
Gathered ==
  IF pc[0] = "gather" THEN Start(height, i - 1)
  ELSE IF pc[0] \in {"write", "finalize"} THEN height ELSE 0

RowsInv ==
  /\ DOMAIN Output = 0 .. Gathered - 1
  /\ saved => pc[0] = "finalize" /\ height # 0

DataInv == PortionsInv /\ IndexerInv /\ StripsInv /\ RowsInv
=============================================================================
