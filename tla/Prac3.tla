------------------------------- MODULE Prac3 -------------------------------
(***************************************************************************)
(* The MPI program of Prac3.cpp: Master() on rank 0 reads the image, sends *)
(* each slave the size of its strip and then the strip, collects the       *)
(* filtered strips in rank order and writes the output image; Slave() on   *)
(* the other ranks receives, filters and returns one strip.                *)
(*                                                                         *)
(* Every iteration of a loop of Master() that communicates is two actions, *)
(* its MPI_Send and its MPI_Recv; the other iterations are one.  The rows  *)
(* of Input are their indexes, so a strip maps its rows to rows of Input   *)
(* and a filtered row maps each offset of the window to a row of Input.    *)
(***************************************************************************)
EXTENDS Partition, Sequences

CONSTANTS
  Heights,     \* the heights of the images that Input.Read may find
  Stride       \* Input.Width * Input.Components, bytes in a row

ASSUME HeightsAssumption == Heights \subseteq Nat \ {0}
ASSUME StrideAssumption  == Stride \in Nat \ {0}

VARIABLES
  chan, blocked, job,
  pc,           \* pc[p]: the statement rank p is at
  height,       \* Input.Height
  i,            \* the index of Master's current loop: i, j or proc
  mod_check,
  y_portions,
  indexer,
  Output,       \* the rows of Output.Rows written so far
  saved,        \* Data/Output.jpg holds the rows of Output
  dimensions,   \* dimensions[s]: rows of the strip announced to rank s
  input_arr,    \* input_arr[s]: the strip of rank s
  out_arr       \* out_arr[s]: the filtered strip of rank s

Rank   == 0 .. NumProcs - 1
Slaves == 1 .. NumProcs - 1

INSTANCE MPI

masterVars == <<height, i, mod_check, y_portions, indexer, Output, saved>>
slaveVars  == <<dimensions, input_arr, out_arr>>
mpiVars    == <<chan, blocked, job>>
vars       == <<masterVars, slaveVars, mpiVars, pc>>

NoRows == [k \in {} |-> OutOfBounds]

Init ==
  /\ MPIInit
  /\ pc = [p \in Rank |-> IF p = 0 THEN "read" ELSE "recvDims"]
  /\ height = 0
  /\ i = 0
  /\ mod_check = 0
  /\ y_portions = [k \in Strips |-> 0]
  /\ indexer = 0
  /\ Output = NoRows
  /\ saved = FALSE
  /\ dimensions = [s \in Slaves |-> 0]
  /\ input_arr = [s \in Slaves |-> NoRows]
  /\ out_arr = [s \in Slaves |-> NoRows]

At(p, label) == Running(p) /\ pc[p] = label
Goto(p, label) == pc' = [pc EXCEPT ![p] = label]

(***************************************************************************)
(* Master()                                                                *)
(***************************************************************************)

\* Input.Read and Output.Allocate succeed; mod_check is initialised.
ReadImage ==
  /\ At(0, "read")
  /\ \E h \in Heights :
       /\ height' = h
       /\ mod_check' = h % NumSlaves
  /\ i' = 0
  /\ Goto(0, "split")
  /\ UNCHANGED <<y_portions, indexer, Output, saved, slaveVars, mpiVars>>

\* Input.Read returns false: Master returns and main calls MPI_Finalize.
ReadFails ==
  /\ At(0, "read")
  /\ Goto(0, "finalize")
  /\ UNCHANGED <<masterVars, slaveVars, mpiVars>>

\* One of the rows computed for y_portions.
Split ==
  /\ At(0, "split")
  /\ y_portions' = [y_portions EXCEPT ![i] = Portion(height, mod_check, i)]
  /\ mod_check' = mod_check - Share(mod_check)
  /\ IF i + 1 < NumSlaves
     THEN i' = i + 1 /\ UNCHANGED pc
     ELSE i' = 1     /\ Goto(0, "sendDims")
  /\ UNCHANGED <<height, indexer, Output, saved, slaveVars, mpiVars>>

\* (mutant) Sizes are sent without waiting for the slaves to echo them.
SendDimsNoEcho ==
  /\ At(0, "sendDims")
  /\ Send(0, i, "int", 3, y_portions[i - 1])
  /\ IF i + 1 < NumProcs
     THEN i' = i + 1 /\ UNCHANGED pc
     ELSE i' = 0 /\ Goto(0, "sendArray")
  /\ UNCHANGED <<height, mod_check, y_portions, indexer, Output, saved, slaveVars>>

SendDims ==
  /\ At(0, "sendDims")
  /\ Send(0, i, "int", 3, y_portions[i - 1])
  /\ Goto(0, "recvEcho")
  /\ UNCHANGED <<masterVars, slaveVars>>

RecvEcho ==
  /\ At(0, "recvEcho")
  /\ Recv(i, 0, "int", 3)
  /\ IF i + 1 < NumProcs
     THEN i' = i + 1 /\ Goto(0, "sendDims")
     ELSE i' = 0     /\ Goto(0, "sendArray")
  /\ indexer' = 0
  /\ UNCHANGED <<height, mod_check, y_portions, Output, saved, slaveVars>>

\* The loop updates indexer in the first row of every strip but the first.
ScatterIndex ==
  IF i > 0 /\ y_portions[i] > 0 THEN NextStart(indexer, y_portions[i - 1]) ELSE indexer

SendArray ==
  /\ At(0, "sendArray")
  /\ indexer' = ScatterIndex
  /\ Send(0, i + 1, "char", y_portions[i] * Stride, Strip(height, ScatterIndex, y_portions[i]))
  /\ Goto(0, "recvAck")
  /\ UNCHANGED <<height, i, mod_check, y_portions, Output, saved, slaveVars>>

\* (mutant) The acknowledgement of a strip is not received.
RecvNoAck ==
  /\ At(0, "recvAck")
  /\ IF i + 1 < NumSlaves
     THEN i' = i + 1 /\ Goto(0, "sendArray") /\ UNCHANGED indexer
     ELSE i' = 1     /\ Goto(0, "gather")    /\ indexer' = 0
  /\ UNCHANGED <<height, mod_check, y_portions, Output, saved, slaveVars, mpiVars>>

RecvAck ==
  /\ At(0, "recvAck")
  /\ Recv(i + 1, 0, "char", 1)
  /\ IF i + 1 < NumSlaves
     THEN i' = i + 1 /\ Goto(0, "sendArray") /\ UNCHANGED indexer
     ELSE i' = 1     /\ Goto(0, "gather")    /\ indexer' = 0
  /\ UNCHANGED <<height, mod_check, y_portions, Output, saved, slaveVars>>

\* (mutant) The overlap above the strip is kept.
FirstKeptAll(j) == 0

\* (mutant) The last strip is cut like the inner ones.
EndKeptInner(j) == y_portions[j - 1] - Radius

\* The rows of rank j's result that go to Output: all but the overlap.
FirstKept(j) == IF j = 1 THEN 0 ELSE Radius
EndKept(j)   == IF j > 1 /\ j = NumProcs - 1 THEN y_portions[j - 1]
                ELSE y_portions[j - 1] - Radius

\* The copy loop updates indexer in its first iteration, if it has one.
GatherIndex(j) ==
  IF j > 1 /\ FirstKept(j) < EndKept(j) THEN NextStart(indexer, y_portions[j - 2])
  ELSE indexer

\* Output with rows first .. end - 1 of a strip copied at offset index.  A row
\* that the message did not fill is an uninitialised row of slave[][].
CopyRows(array, first, end, index) ==
  LET copied == {y + index : y \in first .. end - 1}
  IN  [y \in DOMAIN Output \union copied |->
         IF y \notin copied THEN Output[y]
         ELSE IF y - index \in DOMAIN array THEN array[y - index] ELSE NoRows]

Gather ==
  /\ At(0, "gather")
  /\ Recv(i, 0, "char", y_portions[i - 1] * Stride)
  /\ indexer' = GatherIndex(i)
  /\ Output' = CopyRows(Received(i, 0), FirstKept(i), EndKept(i), GatherIndex(i))
  /\ IF i + 1 < NumProcs
     THEN i' = i + 1 /\ UNCHANGED pc
     ELSE i' = i     /\ Goto(0, "write")
  /\ UNCHANGED <<height, mod_check, y_portions, saved, slaveVars>>

\* Output.Write; Master returns whether or not it succeeds.
WriteImage ==
  /\ At(0, "write")
  /\ saved' \in BOOLEAN
  /\ Goto(0, "finalize")
  /\ UNCHANGED <<height, i, mod_check, y_portions, indexer, Output, slaveVars, mpiVars>>

\* Some row of the next strip is not one of Input: the pointer that the scatter
\* loop takes for it is whatever lies beside Input.Rows.
ReadsOutside ==
  OutOfBounds \in {Strip(height, ScatterIndex, y_portions[i])[k] : k \in 0 .. y_portions[i] - 1}

\* The process of rank 0 ends inside Read, Allocate or Write, where libjpeg's
\* error_exit calls exit and new throws, or by a wild pointer.  mpirun then
\* ends the other ranks.
MasterDies ==
  /\ \/ At(0, "read")
     \/ At(0, "sendArray") /\ ReadsOutside
     \/ At(0, "write")
  /\ job' = "killed"
  /\ UNCHANGED <<masterVars, slaveVars, chan, blocked, pc>>

MasterStep ==
  \/ ReadImage \/ ReadFails \/ Split \/ SendDims \/ RecvEcho
  \/ SendArray \/ RecvAck \/ Gather \/ WriteImage \/ MasterDies

(***************************************************************************)
(* Slave(s)                                                                *)
(***************************************************************************)

RecvDims(s) ==
  /\ At(s, "recvDims")
  /\ Recv(0, s, "int", 3)
  /\ dimensions' = [dimensions EXCEPT ![s] = Received(0, s)]
  /\ Goto(s, "sendEcho")
  /\ UNCHANGED <<masterVars, input_arr, out_arr>>

\* (mutant) The slave does not echo the dimensions.
SendNoEcho(s) ==
  /\ At(s, "sendEcho")
  /\ Goto(s, "recvArray")
  /\ UNCHANGED <<masterVars, slaveVars, mpiVars>>

SendEcho(s) ==
  /\ At(s, "sendEcho")
  /\ Send(s, 0, "int", 3, dimensions[s])
  /\ Goto(s, "recvArray")
  /\ UNCHANGED <<masterVars, slaveVars>>

RecvArray(s) ==
  /\ At(s, "recvArray")
  /\ Recv(0, s, "char", dimensions[s] * Stride)
  /\ input_arr' = [input_arr EXCEPT ![s] = Received(0, s)]
  /\ Goto(s, "sendAck")
  /\ UNCHANGED <<masterVars, dimensions, out_arr>>

SendAck(s) ==
  /\ At(s, "sendAck")
  /\ Send(s, 0, "char", 1, NoRows)
  /\ Goto(s, "filter")
  /\ UNCHANGED <<masterVars, slaveVars>>

Filter(s) ==
  /\ At(s, "filter")
  /\ out_arr' = [out_arr EXCEPT ![s] =
                   [y \in 0 .. dimensions[s] - 1 |->
                      FilterRow(input_arr[s], dimensions[s], y)]]
  /\ Goto(s, "sendResult")
  /\ UNCHANGED <<masterVars, dimensions, input_arr, mpiVars>>

SendResult(s) ==
  /\ At(s, "sendResult")
  /\ Send(s, 0, "char", dimensions[s] * Stride, out_arr[s])
  /\ Goto(s, "finalize")
  /\ UNCHANGED <<masterVars, slaveVars>>

SlaveStep(s) ==
  \/ RecvDims(s) \/ SendEcho(s) \/ RecvArray(s)
  \/ SendAck(s) \/ Filter(s) \/ SendResult(s)

-----------------------------------------------------------------------------
Next == MasterStep \/ \E s \in Slaves : SlaveStep(s)

\* Every rank is a process of the operating system: one that can execute its
\* next statement eventually does.
Fairness == WF_vars(MasterStep) /\ \A s \in Slaves : WF_vars(SlaveStep(s))

Spec     == Init /\ [][Next]_vars
FairSpec == Spec /\ Fairness
=============================================================================
