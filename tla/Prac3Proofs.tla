---------------------------- MODULE Prac3Proofs -----------------------------
(***************************************************************************)
(* Proofs about the MPI program, for every number of processes, window,    *)
(* and set of image heights.                                               *)
(***************************************************************************)
EXTENDS Prac3Properties, NumberProofs, SequenceTheorems

\* The window has Radius rows on each side of its centre.
LEMMA RadiusFacts == Radius \in Nat /\ Radius > 0 /\ WindowY = 2 * Radius + 1
BY WindowYAssumption, HalfFacts DEF Radius

\* Sequences of one and two messages.
LEMMA ShortQueues ==
  ASSUME NEW a, NEW b
  PROVE  /\ Append(<<>>, a) = <<a>>
         /\ Append(<<a>>, b) = <<a, b>>
         /\ Tail(<<a>>) = <<>>
         /\ Tail(<<a, b>>) = <<b>>
         /\ Head(<<a>>) = a
         /\ Head(<<a, b>>) = a
<1>1. Append(<<a>>, b) = <<a, b>>
  <2> DEFINE S == {a, b}
             s == <<a>>
             t == <<a, b>>
  <2>1. s \in Seq(S) /\ b \in S /\ t \in Seq(S) /\ Len(s) = 1 /\ Len(t) = 2
    OBVIOUS
  <2>2. Append(s, b) \in Seq(S) /\ Len(Append(s, b)) = 2
        /\ Append(s, b)[1] = a /\ Append(s, b)[2] = b
    BY <2>1, AppendProperties
  <2>3. \A k \in 1 .. Len(t) : Append(s, b)[k] = t[k]
    BY <2>1, <2>2
  <2>4. QED
    BY <2>1, <2>2, <2>3, SeqEqual
<1>2. QED
  BY <1>1

\* Ranks, slaves and strips.
LEMMA RankFacts ==
  /\ NumSlaves \in Nat /\ NumSlaves > 0 /\ NumProcs = NumSlaves + 1
  /\ 0 \in Rank /\ Slaves \subseteq Rank
  /\ \A s \in Slaves : s # 0 /\ s \in Int /\ s - 1 \in Strips /\ (s - 1) + 1 = s
  /\ \A k \in Strips : k \in Int /\ k + 1 \in Slaves /\ (k + 1) - 1 = k
  /\ \A p \in Rank : p # 0 => p \in Slaves
  /\ Slaves = 1 .. NumSlaves /\ Strips = 0 .. NumSlaves - 1
BY NumProcsAssumption DEF NumSlaves, Rank, Slaves, Strips

\* The initial state.
LEMMA ProtocolInit == Init => ProtocolInv
<1> SUFFICES ASSUME Init PROVE ProtocolInv
  OBVIOUS
<1> USE RankFacts DEF Init, MPIInit
<1>1. TypeOK
  <2>1. pc \in [Rank -> MasterLabels \union SlaveLabels]
    BY DEF MasterLabels, SlaveLabels
  <2>2. pc[0] \in MasterLabels /\ \A s \in Slaves : pc[s] \in SlaveLabels
    BY DEF MasterLabels, SlaveLabels
  <2>3. job \in {"running", "killed", "mpi_error"} /\ blocked \in SUBSET (Rank \X Rank)
    OBVIOUS
  <2>4. DOMAIN chan = Rank \X Rank
    OBVIOUS
  <2>5. DOMAIN Output \subseteq Int /\ saved \in BOOLEAN
    BY DEF NoRows
  <2>6. height \in Nat /\ i \in 0 .. NumProcs - 1 /\ mod_check \in Nat /\ indexer \in Int
    OBVIOUS
  <2>7. y_portions \in [Strips -> Nat] /\ dimensions \in [Slaves -> Nat]
    OBVIOUS
  <2>8. QED
    BY <2>1, <2>2, <2>3, <2>4, <2>5, <2>6, <2>7 DEF TypeOK
<1>2. ASSUME NEW s \in Slaves PROVE Protocol(s)
  BY DEF Protocol, Stage, Idle, Where
<1>3. QED
  BY <1>1, <1>2 DEF ProtocolInv, NoMPIError, IndexInRange, OnlyWithMaster

-----------------------------------------------------------------------------
(***************************************************************************)
(* Steps of Master.                                                        *)
(***************************************************************************)

\* A slave that Master's step has nothing to do with.
LEMMA UntouchedSlave ==
  ASSUME NEW s \in Slaves, Protocol(s), Stage(s) \in {"idle", "sized", "filled", "collected"},
         Stage(s)' = Stage(s), pc'[s] = pc[s], UNCHANGED <<y_portions, dimensions, out_arr>>,
         chan'[<<0, s>>] = chan[<<0, s>>], chan'[<<s, 0>>] = chan[<<s, 0>>]
  PROVE  Protocol(s)'
BY DEF Protocol, Idle, Sized, Filled, Collected, Where, ResultMsg

\* Announcing a strip keeps the messages under way and the ranks in agreement (ProtocolInv).
LEMMA SendDimsStep == ProtocolInv /\ SendDims => ProtocolInv'
<1> SUFFICES ASSUME ProtocolInv, SendDims PROVE ProtocolInv'
  OBVIOUS
<1> USE RankFacts
<1>1. /\ TypeOK /\ job = "running" /\ pc[0] = "sendDims" /\ i \in Slaves
      /\ pc' = [pc EXCEPT ![0] = "recvEcho"] /\ UNCHANGED <<masterVars, slaveVars>>
      /\ Send(0, i, "int", 3, y_portions[i - 1]) /\ height # 0
  BY DEF ProtocolInv, IndexInRange, SendDims, At, Running, Goto
<1>2. /\ chan'[<<0, i>>] = Append(chan[<<0, i>>], DimsMsg(i))
      /\ \A r, t \in Rank : r # 0 \/ t # i => chan'[<<r, t>>] = chan[<<r, t>>]
      /\ DOMAIN chan' = Rank \X Rank /\ blocked' \in SUBSET (Rank \X Rank) /\ job' = job
  <2>1. i \in Rank
    BY <1>1
  <2>2. QED
    BY <1>1, <2>1 DEF Send, TypeOK, DimsMsg
<1>3. TypeOK' /\ NoMPIError' /\ IndexInRange'
  BY <1>1, <1>2 DEF TypeOK, masterVars, slaveVars, MasterLabels, NoMPIError, IndexInRange
<1>4. OnlyWithMaster'
  BY <1>1, <1>2 DEF ProtocolInv, OnlyWithMaster
<1>5. ASSUME NEW s \in Slaves PROVE Protocol(s)'
  <2>1. CASE s = i
    <3>1. Idle(s)
      BY <1>1, <2>1 DEF ProtocolInv, Protocol, Stage
    <3>2. Where(s, "recvDims", <<DimsMsg(s)>>, <<>>)'
      BY <1>1, <1>2, <2>1, <3>1, ShortQueues DEF TypeOK, Idle, Where, DimsMsg, masterVars
    <3>3. QED
      BY <1>1, <2>1, <3>2 DEF TypeOK, Protocol, Stage, Sizing, masterVars
  <2>2. CASE s # i
    <3>1. Stage(s)' = Stage(s)
      BY <1>1, <2>2 DEF TypeOK, Stage, masterVars
    <3>2. Stage(s) \in {"sized", "idle"}
      BY <1>1, <2>2 DEF TypeOK, Stage
    <3>3. /\ chan'[<<0, s>>] = chan[<<0, s>>] /\ chan'[<<s, 0>>] = chan[<<s, 0>>]
          /\ pc'[s] = pc[s] /\ UNCHANGED <<y_portions, dimensions, out_arr>>
      BY <1>1, <1>2, <2>2 DEF TypeOK, masterVars, slaveVars
    <3>4. Protocol(s)
      BY DEF ProtocolInv
    <3>5. QED
      BY <3>1, <3>2, <3>3, <3>4, UntouchedSlave
  <2>3. QED BY <2>1, <2>2
<1>6. QED
  BY <1>3, <1>4, <1>5 DEF ProtocolInv

\* Reading the image keeps the messages under way and the ranks in agreement (ProtocolInv).
LEMMA ReadImageStep == ProtocolInv /\ ReadImage => ProtocolInv'
<1> SUFFICES ASSUME ProtocolInv, ReadImage PROVE ProtocolInv'
  OBVIOUS
<1> USE RankFacts
<1>1. /\ TypeOK /\ job = "running" /\ pc[0] = "read" /\ height = 0
      /\ pc' = [pc EXCEPT ![0] = "split"] /\ i' = 0
      /\ UNCHANGED <<y_portions, indexer, Output, saved, slaveVars, mpiVars>>
  BY DEF ProtocolInv, IndexInRange, ReadImage, At, Running, Goto
<1>2. height' \in Nat \ {0} /\ mod_check' \in Nat
  BY HeightsAssumption, DivMod DEF ReadImage
<1>3. TypeOK' /\ NoMPIError' /\ IndexInRange' /\ OnlyWithMaster'
  <2>1. /\ pc' \in [Rank -> MasterLabels \union SlaveLabels] /\ pc'[0] = "split"
        /\ \A s \in Slaves : pc'[s] = pc[s]
    BY <1>1 DEF TypeOK, MasterLabels
  <2>2. i' \in Strips /\ i' \in 0 .. NumProcs - 1
    BY <1>1
  <2>3. TypeOK'
    BY <1>1, <1>2, <2>1, <2>2 DEF TypeOK, slaveVars, mpiVars, MasterLabels
  <2>4. UNCHANGED <<job, chan>> /\ NoMPIError /\ OnlyWithMaster
    BY <1>1 DEF ProtocolInv, mpiVars
  <2>5. QED
    BY <1>2, <2>1, <2>2, <2>3, <2>4 DEF NoMPIError, IndexInRange, OnlyWithMaster
<1>4. ASSUME NEW s \in Slaves PROVE Protocol(s)'
  <2>1. Idle(s)
    BY <1>1 DEF ProtocolInv, Protocol, Stage
  <2>2. QED
    BY <1>1, <2>1 DEF TypeOK, Protocol, Stage, Idle, Where, slaveVars, mpiVars
<1>5. QED
  BY <1>3, <1>4 DEF ProtocolInv

\* A failed read keeps the messages under way and the ranks in agreement (ProtocolInv).
LEMMA ReadFailsStep == ProtocolInv /\ ReadFails => ProtocolInv'
<1> SUFFICES ASSUME ProtocolInv, ReadFails PROVE ProtocolInv'
  OBVIOUS
<1> USE RankFacts
<1>1. /\ TypeOK /\ job = "running" /\ pc[0] = "read" /\ height = 0
      /\ pc' = [pc EXCEPT ![0] = "finalize"]
      /\ UNCHANGED <<masterVars, slaveVars, mpiVars>>
  BY DEF ProtocolInv, IndexInRange, ReadFails, At, Running, Goto
<1>2. TypeOK' /\ NoMPIError' /\ IndexInRange' /\ OnlyWithMaster'
  BY <1>1 DEF ProtocolInv, TypeOK, masterVars, slaveVars, mpiVars, MasterLabels, NoMPIError,
              IndexInRange, OnlyWithMaster
<1>3. ASSUME NEW s \in Slaves PROVE Protocol(s)'
  <2>1. Idle(s)
    BY <1>1 DEF ProtocolInv, Protocol, Stage
  <2>2. QED
    BY <1>1, <2>1 DEF TypeOK, Protocol, Stage, Idle, Where, masterVars, slaveVars, mpiVars
<1>4. QED
  BY <1>2, <1>3 DEF ProtocolInv

\* Computing the size of a strip keeps the messages under way and the ranks in agreement (ProtocolInv).
LEMMA SplitStep == ProtocolInv /\ Split => ProtocolInv'
<1> SUFFICES ASSUME ProtocolInv, Split PROVE ProtocolInv'
  OBVIOUS
<1> USE RankFacts
<1>1. /\ TypeOK /\ job = "running" /\ pc[0] = "split" /\ i \in Strips /\ height # 0
      /\ y_portions' = [y_portions EXCEPT ![i] = Portion(height, mod_check, i)]
      /\ mod_check' = mod_check - Share(mod_check)
      /\ \/ i + 1 < NumSlaves /\ i' = i + 1 /\ pc' = pc
         \/ i' = 1 /\ pc' = [pc EXCEPT ![0] = "sendDims"]
      /\ UNCHANGED <<height, indexer, Output, saved, slaveVars, mpiVars>>
  BY DEF ProtocolInv, IndexInRange, Split, At, Running, Goto
<1>2. Portion(height, mod_check, i) \in Nat /\ mod_check' \in Nat
  <2>1. height \in Nat /\ mod_check \in Nat
    BY <1>1 DEF TypeOK
  <2>2. height \div NumSlaves \in Nat
    BY <2>1, DivMod
  <2>3. QED
    BY <1>1, <2>1, <2>2, RadiusFacts DEF Portion, Share, Halo
<1>3. TypeOK' /\ NoMPIError' /\ IndexInRange' /\ OnlyWithMaster'
  <2>1. y_portions' \in [Strips -> Nat]
    BY <1>1, <1>2 DEF TypeOK
  <2>2. /\ pc' \in [Rank -> MasterLabels \union SlaveLabels] /\ pc'[0] \in {"split", "sendDims"}
        /\ \A s \in Slaves : pc'[s] = pc[s]
    BY <1>1 DEF TypeOK, MasterLabels
  <2>3. /\ i' \in 0 .. NumProcs - 1
        /\ pc'[0] = "split" => i' \in Strips
        /\ pc'[0] # "split" => i' \in Slaves
    <3>1. CASE i + 1 < NumSlaves /\ i' = i + 1 /\ pc' = pc
      <4>1. i + 1 \in Strips
        BY <1>1, <3>1
      <4>2. QED BY <1>1, <3>1, <4>1
    <3>2. CASE i' = 1 /\ pc' = [pc EXCEPT ![0] = "sendDims"]
      <4>1. pc'[0] = "sendDims"
        BY <1>1, <3>2 DEF TypeOK
      <4>2. QED BY <3>2, <4>1
    <3>3. QED BY <1>1, <3>1, <3>2
  <2>4. TypeOK'
    BY <1>1, <1>2, <2>1, <2>2, <2>3 DEF TypeOK, MasterLabels, slaveVars, mpiVars
  <2>5. NoMPIError' /\ IndexInRange' /\ OnlyWithMaster'
    <3>1. UNCHANGED <<job, chan, height>> /\ height # 0 /\ NoMPIError /\ OnlyWithMaster
      BY <1>1 DEF ProtocolInv, mpiVars
    <3>2. QED
      BY <2>2, <2>3, <3>1 DEF NoMPIError, IndexInRange, OnlyWithMaster
  <2>6. QED
    BY <2>4, <2>5
<1>4. ASSUME NEW s \in Slaves PROVE Protocol(s)'
  <2>1. Idle(s)
    BY <1>1 DEF ProtocolInv, Protocol, Stage
  <2>2. Stage(s)' = "idle"
    <3>1. \/ pc'[0] = "split"
          \/ pc'[0] = "sendDims" /\ i' = 1
      BY <1>1 DEF TypeOK
    <3>2. ~(s < 1)
      OBVIOUS
    <3>3. QED
      BY <3>1, <3>2 DEF Stage
  <2>3. pc'[s] = pc[s] /\ chan' = chan
    BY <1>1 DEF TypeOK, mpiVars
  <2>4. Idle(s)'
    BY <2>1, <2>3 DEF Idle, Where
  <2>5. QED
    BY <2>2, <2>4 DEF Protocol
<1>5. QED
  BY <1>3, <1>4 DEF ProtocolInv

\* Writing the image keeps the messages under way and the ranks in agreement (ProtocolInv).
LEMMA WriteImageStep == ProtocolInv /\ WriteImage => ProtocolInv'
<1> SUFFICES ASSUME ProtocolInv, WriteImage PROVE ProtocolInv'
  OBVIOUS
<1> USE RankFacts
<1>1. /\ TypeOK /\ job = "running" /\ pc[0] = "write" /\ height # 0 /\ saved' \in BOOLEAN
      /\ pc' = [pc EXCEPT ![0] = "finalize"]
      /\ UNCHANGED <<height, i, mod_check, y_portions, indexer, Output, slaveVars, mpiVars>>
  BY DEF ProtocolInv, IndexInRange, WriteImage, At, Running, Goto
<1>2. TypeOK' /\ NoMPIError' /\ IndexInRange' /\ OnlyWithMaster'
  BY <1>1 DEF ProtocolInv, TypeOK, slaveVars, mpiVars, MasterLabels, NoMPIError,
              IndexInRange, OnlyWithMaster
<1>3. ASSUME NEW s \in Slaves PROVE Protocol(s)'
  <2>1. Collected(s)
    BY <1>1 DEF ProtocolInv, Protocol, Stage
  <2>2. QED
    BY <1>1, <2>1 DEF TypeOK, Protocol, Stage, Collected, Where, slaveVars, mpiVars
<1>4. QED
  BY <1>2, <1>3 DEF ProtocolInv

\* Nothing the invariant is about changes, except job.
LEMMA MasterDiesStep == ProtocolInv /\ MasterDies => ProtocolInv'
<1> SUFFICES ASSUME ProtocolInv, MasterDies PROVE ProtocolInv'
  OBVIOUS
<1>1. job' = "killed" /\ UNCHANGED <<masterVars, slaveVars, chan, blocked, pc>>
  BY DEF MasterDies
<1>2. TypeOK' /\ NoMPIError' /\ IndexInRange' /\ OnlyWithMaster'
  BY <1>1 DEF ProtocolInv, TypeOK, masterVars, slaveVars, NoMPIError, IndexInRange, OnlyWithMaster
<1>3. ASSUME NEW s \in Slaves PROVE Protocol(s)'
  <2>1. UNCHANGED <<chan, pc, i, height, y_portions, indexer, dimensions, out_arr>>
    BY <1>1 DEF masterVars, slaveVars
  <2>2. Protocol(s)
    BY DEF ProtocolInv
  <2>3. QED
    BY <2>1, <2>2 DEF Protocol, Stage, Idle, Sizing, Sized, Filling, Filled, Collected,
                      Where, DimsMsg, ArrayMsg, AckMsg, ResultMsg
<1>4. QED
  BY <1>2, <1>3 DEF ProtocolInv

\* Receiving the echo keeps the messages under way and the ranks in agreement (ProtocolInv).
LEMMA RecvEchoStep == ProtocolInv /\ RecvEcho => ProtocolInv'
<1> SUFFICES ASSUME ProtocolInv, RecvEcho PROVE ProtocolInv'
  OBVIOUS
<1> USE RankFacts
<1>1. /\ TypeOK /\ job = "running" /\ pc[0] = "recvEcho" /\ i \in Slaves /\ height # 0
      /\ \/ i + 1 < NumProcs /\ i' = i + 1 /\ pc' = [pc EXCEPT ![0] = "sendDims"]
         \/ i + 1 = NumProcs /\ i' = 0 /\ pc' = [pc EXCEPT ![0] = "sendArray"]
      /\ indexer' = 0
      /\ UNCHANGED <<height, mod_check, y_portions, Output, saved, slaveVars>>
      /\ Recv(i, 0, "int", 3)
  <2>1. TypeOK /\ job = "running" /\ pc[0] = "recvEcho" /\ i \in Slaves /\ height # 0
    BY DEF ProtocolInv, IndexInRange, RecvEcho, At, Running
  <2>2. ~(i + 1 < NumProcs) => i + 1 = NumProcs
    BY <2>1
  <2>3. QED
    BY <2>1, <2>2 DEF RecvEcho, Goto
<1>2. Where(i, "recvArray", <<>>, <<DimsMsg(i)>>) /\ dimensions[i] = y_portions[i - 1]
  <2>1. Sizing(i)
    BY <1>1 DEF ProtocolInv, Protocol, Stage
  <2>2. QED
    BY <1>1, <2>1 DEF Sizing, Where, Recv
<1>3. /\ chan'[<<i, 0>>] = <<>> /\ job' = job
      /\ \A r, t \in Rank : r # i \/ t # 0 => chan'[<<r, t>>] = chan[<<r, t>>]
      /\ DOMAIN chan' = Rank \X Rank /\ blocked' \in SUBSET (Rank \X Rank)
  <2>1. Matches(DimsMsg(i), "int", 3)
    BY DEF DimsMsg, Matches
  <2>2. Head(chan[<<i, 0>>]) = DimsMsg(i) /\ Tail(chan[<<i, 0>>]) = <<>>
    BY <1>2, ShortQueues DEF Where
  <2>3. i \in Rank /\ TypeOK /\ Recv(i, 0, "int", 3)
    BY <1>1
  <2>4. QED
    BY <2>1, <2>2, <2>3 DEF Recv, TypeOK
<1>4. TypeOK' /\ NoMPIError' /\ IndexInRange'
  <2>1. /\ pc' \in [Rank -> MasterLabels \union SlaveLabels]
        /\ \A s \in Slaves : pc'[s] = pc[s]
        /\ \/ pc'[0] = "sendDims" /\ i + 1 < NumProcs /\ i' = i + 1
           \/ pc'[0] = "sendArray" /\ i' = 0
    BY <1>1 DEF TypeOK, MasterLabels
  <2>2. /\ i' \in 0 .. NumProcs - 1
        /\ pc'[0] = "sendDims" => i' \in Slaves
        /\ pc'[0] = "sendArray" => i' \in Strips
    <3>1. i \in Slaves
      BY <1>1
    <3>2. QED
      BY <2>1, <3>1
  <2>3. TypeOK'
    <3>1. /\ TypeOK /\ indexer' = 0
          /\ UNCHANGED <<height, mod_check, y_portions, Output, saved, slaveVars>>
      BY <1>1
    <3>2. pc'[0] \in MasterLabels /\ \A s \in Slaves : pc'[s] \in SlaveLabels
      BY <2>1, <3>1 DEF TypeOK, MasterLabels
    <3>3. QED
      BY <1>3, <2>1, <2>2, <3>1, <3>2 DEF TypeOK, slaveVars
  <2>4. NoMPIError' /\ IndexInRange'
    BY <1>1, <1>3, <2>1, <2>2 DEF NoMPIError, IndexInRange
  <2>5. QED BY <2>3, <2>4
<1>5. OnlyWithMaster'
  BY <1>1, <1>3 DEF ProtocolInv, OnlyWithMaster
<1>6. ASSUME NEW s \in Slaves PROVE Protocol(s)'
  <2>1. CASE s = i
    <3>1. Stage(s)' = "sized"
      <4>1. \/ pc'[0] = "sendDims" /\ i' = i + 1
            \/ pc'[0] = "sendArray"
        BY <1>1 DEF TypeOK
      <4>2. i \in Int /\ s = i
        BY <1>1, <2>1
      <4>3. CASE pc'[0] = "sendDims" /\ i' = i + 1
        <5>1. s < i'
          BY <4>2, <4>3
        <5>2. QED
          BY <4>3, <5>1 DEF Stage
      <4>4. CASE pc'[0] = "sendArray"
        <5>1. i' = 0
          BY <1>1, <4>4 DEF TypeOK
        <5>2. ~(s < i' + 1)
          BY <4>2, <5>1
        <5>3. QED
          BY <4>4, <5>2 DEF Stage
      <4>5. QED BY <4>1, <4>3, <4>4
    <3>2. Sized(s)'
      BY <1>1, <1>2, <1>3, <2>1 DEF TypeOK, Sized, Where, slaveVars
    <3>3. QED
      BY <3>1, <3>2 DEF Protocol
  <2>2. CASE s # i
    <3>1. Stage(s)' = Stage(s) /\ Stage(s) \in {"sized", "idle"}
      <4>1. Stage(s) = IF s < i THEN "sized" ELSE "idle"
        BY <1>1, <2>2 DEF Stage
      <4>2. CASE i + 1 < NumProcs /\ i' = i + 1 /\ pc' = [pc EXCEPT ![0] = "sendDims"]
        <5>1. Stage(s)' = IF s < i + 1 THEN "sized" ELSE "idle"
          BY <1>1, <4>2 DEF TypeOK, Stage
        <5>2. QED
          BY <1>1, <2>2, <4>1, <5>1
      <4>3. CASE i + 1 = NumProcs /\ i' = 0 /\ pc' = [pc EXCEPT ![0] = "sendArray"]
        <5>1. Stage(s)' = "sized"
          BY <1>1, <4>3 DEF TypeOK, Stage
        <5>2. QED
          BY <1>1, <2>2, <4>1, <4>3, <5>1
      <4>4. QED BY <1>1, <4>2, <4>3
    <3>2. /\ chan'[<<0, s>>] = chan[<<0, s>>] /\ chan'[<<s, 0>>] = chan[<<s, 0>>]
          /\ pc'[s] = pc[s] /\ UNCHANGED <<y_portions, dimensions, out_arr>>
      BY <1>1, <1>3, <2>2 DEF TypeOK, slaveVars
    <3>3. Protocol(s)
      BY DEF ProtocolInv
    <3>4. QED
      BY <3>1, <3>2, <3>3, UntouchedSlave
  <2>3. QED BY <2>1, <2>2
<1>7. QED
  BY <1>4, <1>5, <1>6 DEF ProtocolInv

\* Sending a strip keeps the messages under way and the ranks in agreement (ProtocolInv).
LEMMA SendArrayStep == ProtocolInv /\ SendArray => ProtocolInv'
<1> SUFFICES ASSUME ProtocolInv, SendArray PROVE ProtocolInv'
  OBVIOUS
<1> USE RankFacts
<1>1. /\ TypeOK /\ job = "running" /\ pc[0] = "sendArray" /\ i \in Strips /\ height # 0
      /\ pc' = [pc EXCEPT ![0] = "recvAck"]
      /\ indexer' = ScatterIndex
      /\ UNCHANGED <<height, i, mod_check, y_portions, Output, saved, slaveVars>>
      /\ Send(0, i + 1, "char", y_portions[i] * Stride, Strip(height, indexer', y_portions[i]))
  BY DEF ProtocolInv, IndexInRange, SendArray, At, Running, Goto
<1>2. indexer' \in Int
  <2>1. indexer \in Int /\ \A k \in Strips : y_portions[k] \in Nat
    BY <1>1 DEF TypeOK
  <2>2. i > 0 => i - 1 \in Strips
    BY <1>1
  <2>3. QED
    BY <1>1, <2>1, <2>2, RadiusFacts DEF ScatterIndex, NextStart
<1>3. /\ chan'[<<0, i + 1>>] = Append(chan[<<0, i + 1>>], ArrayMsg(i + 1)') /\ job' = job
      /\ \A r, t \in Rank : r # 0 \/ t # i + 1 => chan'[<<r, t>>] = chan[<<r, t>>]
      /\ DOMAIN chan' = Rank \X Rank /\ blocked' \in SUBSET (Rank \X Rank)
  <2>1. i + 1 \in Rank /\ ((i + 1) - 1) = i
    BY <1>1
  <2>2. ArrayMsg(i + 1)' = [type |-> "char", count |-> y_portions[i] * Stride,
                            data |-> Strip(height, indexer', y_portions[i])]
    BY <1>1, <2>1 DEF ArrayMsg
  <2>3. QED
    BY <1>1, <2>1, <2>2 DEF Send, TypeOK
<1>4. TypeOK' /\ NoMPIError' /\ IndexInRange'
  BY <1>1, <1>2, <1>3 DEF TypeOK, slaveVars, MasterLabels, NoMPIError, IndexInRange
<1>5. OnlyWithMaster'
  BY <1>1, <1>3 DEF ProtocolInv, OnlyWithMaster
<1>6. ASSUME NEW s \in Slaves PROVE Protocol(s)'
  <2>1. CASE s = i + 1
    <3>1. Stage(s)' = "filling"
      BY <1>1, <2>1 DEF TypeOK, Stage
    <3>2. Sized(s)
      <4>1. Stage(s) = "sized"
        BY <1>1, <2>1 DEF Stage
      <4>2. QED
        BY <4>1 DEF ProtocolInv, Protocol
    <3>3. chan'[<<0, s>>] = <<ArrayMsg(s)'>> /\ chan'[<<s, 0>>] = chan[<<s, 0>>]
      <4>1. chan[<<0, s>>] = <<>>
        BY <3>2 DEF Sized, Where
      <4>2. i' = i
        BY <1>1
      <4>3. ArrayMsg(i + 1)' = ArrayMsg(s)'
        BY <2>1, <4>2
      <4>4. chan'[<<0, s>>] = Append(<<>>, ArrayMsg(s)')
        BY <1>3, <2>1, <4>1, <4>3
      <4>5. s \in Rank /\ s # 0 /\ 0 \in Rank
        OBVIOUS
      <4>6. QED
        BY <1>3, <4>4, <4>5, ShortQueues
    <3>4. pc'[s] = pc[s] /\ UNCHANGED <<y_portions, dimensions>>
      BY <1>1 DEF TypeOK, slaveVars
    <3>5. Where(s, "recvArray", <<ArrayMsg(s)>>, <<>>)' /\ (dimensions[s] = y_portions[s - 1])'
      BY <3>2, <3>3, <3>4 DEF Sized, Where
    <3>6. QED
      BY <3>1, <3>5 DEF Protocol, Filling
  <2>2. CASE s # i + 1
    <3>1. Stage(s)' = Stage(s) /\ Stage(s) \in {"sized", "filled"}
      BY <1>1, <2>2 DEF TypeOK, Stage
    <3>2. /\ chan'[<<0, s>>] = chan[<<0, s>>] /\ chan'[<<s, 0>>] = chan[<<s, 0>>]
          /\ pc'[s] = pc[s] /\ UNCHANGED <<y_portions, dimensions, out_arr>>
      BY <1>1, <1>3, <2>2 DEF TypeOK, slaveVars
    <3>3. Protocol(s)
      BY DEF ProtocolInv
    <3>4. QED
      BY <3>1, <3>2, <3>3, UntouchedSlave
  <2>3. QED BY <2>1, <2>2
<1>7. QED
  BY <1>4, <1>5, <1>6 DEF ProtocolInv

\* Receiving an acknowledgement keeps the messages under way and the ranks in agreement (ProtocolInv).
LEMMA RecvAckStep == ProtocolInv /\ RecvAck => ProtocolInv'
<1> SUFFICES ASSUME ProtocolInv, RecvAck PROVE ProtocolInv'
  OBVIOUS
<1> USE RankFacts
<1>1. /\ TypeOK /\ job = "running" /\ pc[0] = "recvAck" /\ i \in Strips /\ height # 0
      /\ \/ /\ i + 1 < NumSlaves /\ i' = i + 1 /\ indexer' = indexer
            /\ pc' = [pc EXCEPT ![0] = "sendArray"]
         \/ /\ i + 1 = NumSlaves /\ i' = 1 /\ indexer' = 0
            /\ pc' = [pc EXCEPT ![0] = "gather"]
      /\ UNCHANGED <<height, mod_check, y_portions, Output, saved, slaveVars>>
      /\ Recv(i + 1, 0, "char", 1)
  <2>1. TypeOK /\ job = "running" /\ pc[0] = "recvAck" /\ i \in Strips /\ height # 0
    BY DEF ProtocolInv, IndexInRange, RecvAck, At, Running
  <2>2. ~(i + 1 < NumSlaves) => i + 1 = NumSlaves
    BY <2>1
  <2>3. QED
    BY <2>1, <2>2 DEF RecvAck, Goto
<1> DEFINE s0 == i + 1
<1>a. s0 \in Slaves /\ s0 \in Rank /\ s0 = i + 1
  BY <1>1
<1> HIDE DEF s0
<1>2. s0 \in Slaves /\ Filling(s0) /\ chan[<<s0, 0>>] # <<>>
  BY <1>1, <1>a DEF ProtocolInv, Protocol, Stage, Recv
<1>3. /\ chan[<<0, s0>>] = <<>> /\ dimensions[s0] = y_portions[s0 - 1]
      /\ Head(chan[<<s0, 0>>]) = AckMsg
      /\ \/ pc[s0] = "filter"     /\ Tail(chan[<<s0, 0>>]) = <<>>
         \/ pc[s0] = "sendResult" /\ Tail(chan[<<s0, 0>>]) = <<>>
         \/ pc[s0] = "finalize"   /\ Tail(chan[<<s0, 0>>]) = <<ResultMsg(s0)>>
  <2>1. /\ chan[<<0, s0>>] = <<>> /\ dimensions[s0] = y_portions[s0 - 1]
        /\ \/ pc[s0] = "filter"     /\ chan[<<s0, 0>>] = <<AckMsg>>
           \/ pc[s0] = "sendResult" /\ chan[<<s0, 0>>] = <<AckMsg>>
           \/ pc[s0] = "finalize"   /\ chan[<<s0, 0>>] = <<AckMsg, ResultMsg(s0)>>
    BY <1>2 DEF Filling, Where
  <2>2. /\ Tail(<<AckMsg>>) = <<>> /\ Tail(<<AckMsg, ResultMsg(s0)>>) = <<ResultMsg(s0)>>
        /\ Head(<<AckMsg>>) = AckMsg /\ Head(<<AckMsg, ResultMsg(s0)>>) = AckMsg
    BY ShortQueues
  <2>3. QED BY <2>1, <2>2
<1>4. /\ chan'[<<s0, 0>>] = Tail(chan[<<s0, 0>>]) /\ job' = job
      /\ \A r, t \in Rank : r # s0 \/ t # 0 => chan'[<<r, t>>] = chan[<<r, t>>]
      /\ DOMAIN chan' = Rank \X Rank /\ blocked' \in SUBSET (Rank \X Rank)
  <2>1. Recv(s0, 0, "char", 1) /\ Matches(AckMsg, "char", 1)
    BY <1>1, <1>a DEF AckMsg, Matches
  <2>2. TypeOK /\ Head(chan[<<s0, 0>>]) = AckMsg
    BY <1>1, <1>3
  <2>3. QED
    BY <1>a, <2>1, <2>2 DEF Recv, TypeOK
<1>5. TypeOK' /\ NoMPIError' /\ IndexInRange'
  <2>1. /\ pc' \in [Rank -> MasterLabels \union SlaveLabels]
        /\ pc'[0] \in {"sendArray", "gather"} /\ \A s \in Slaves : pc'[s] = pc[s]
    BY <1>1 DEF TypeOK, MasterLabels
  <2>2. /\ i' \in 0 .. NumProcs - 1 /\ indexer' \in Int
        /\ pc'[0] = "gather" => i' \in Slaves
        /\ pc'[0] = "sendArray" => i' \in Strips
    <3>1. indexer \in Int /\ 0 \in Int /\ DOMAIN pc = Rank
      BY <1>1 DEF TypeOK
    <3>2. i + 1 < NumSlaves => i + 1 \in Strips /\ i + 1 \in 0 .. NumProcs - 1
      BY <1>1
    <3>3. 1 \in Slaves /\ 1 \in 0 .. NumProcs - 1
      OBVIOUS
    <3>4. QED
      BY <1>1, <3>1, <3>2, <3>3
  <2>3. TypeOK'
    BY <1>1, <1>4, <2>1, <2>2 DEF TypeOK, slaveVars, MasterLabels
  <2>4. NoMPIError' /\ IndexInRange'
    BY <1>1, <1>4, <2>1, <2>2 DEF NoMPIError, IndexInRange
  <2>5. QED BY <2>3, <2>4
<1>6. OnlyWithMaster'
  BY <1>1, <1>2, <1>4 DEF ProtocolInv, OnlyWithMaster
<1>7. ASSUME NEW s \in Slaves PROVE Protocol(s)'
  <2>1. CASE s = s0
    <3>1. Stage(s)' = "filled"
      BY <1>1, <1>a, <2>1 DEF TypeOK, Stage
    <3>2. Filled(s)'
      BY <1>1, <1>3, <1>4, <2>1 DEF TypeOK, Filled, Where, ResultMsg, slaveVars
    <3>3. QED
      BY <3>1, <3>2 DEF Protocol
  <2>2. CASE s # s0
    <3>1. Stage(s)' = Stage(s) /\ Stage(s) \in {"sized", "filled"}
      <4>1. Stage(s) = IF s < i + 1 THEN "filled" ELSE "sized"
        BY <1>1, <1>a, <2>2 DEF Stage
      <4>2. CASE i + 1 < NumSlaves /\ i' = i + 1 /\ pc' = [pc EXCEPT ![0] = "sendArray"]
        <5>1. Stage(s)' = IF s < (i + 1) + 1 THEN "filled" ELSE "sized"
          BY <1>1, <4>2 DEF TypeOK, Stage
        <5>2. QED
          BY <1>1, <1>a, <2>2, <4>1, <5>1
      <4>3. CASE i + 1 = NumSlaves /\ i' = 1 /\ pc' = [pc EXCEPT ![0] = "gather"]
        <5>1. Stage(s)' = "filled"
          BY <1>1, <4>3 DEF TypeOK, Stage
        <5>2. QED
          BY <1>1, <1>a, <2>2, <4>1, <4>3, <5>1
      <4>4. QED BY <1>1, <4>2, <4>3
    <3>2. /\ chan'[<<0, s>>] = chan[<<0, s>>] /\ chan'[<<s, 0>>] = chan[<<s, 0>>]
          /\ pc'[s] = pc[s] /\ UNCHANGED <<y_portions, dimensions, out_arr>>
      BY <1>1, <1>4, <2>2 DEF TypeOK, slaveVars
    <3>3. Protocol(s)
      BY DEF ProtocolInv
    <3>4. QED
      BY <3>1, <3>2, <3>3, UntouchedSlave
  <2>3. QED BY <2>1, <2>2
<1>8. QED
  BY <1>5, <1>6, <1>7 DEF ProtocolInv

\* Collecting a strip keeps the messages under way and the ranks in agreement (ProtocolInv).
LEMMA GatherStep == ProtocolInv /\ Gather => ProtocolInv'
<1> SUFFICES ASSUME ProtocolInv, Gather PROVE ProtocolInv'
  OBVIOUS
<1> USE RankFacts
<1>1. /\ TypeOK /\ job = "running" /\ pc[0] = "gather" /\ i \in Slaves /\ height # 0
      /\ \/ i + 1 < NumProcs /\ i' = i + 1 /\ pc' = pc
         \/ i + 1 = NumProcs /\ i' = i /\ pc' = [pc EXCEPT ![0] = "write"]
      /\ indexer' = GatherIndex(i)
      /\ Output' = CopyRows(Received(i, 0), FirstKept(i), EndKept(i), indexer')
      /\ UNCHANGED <<height, mod_check, y_portions, saved, slaveVars>>
      /\ Recv(i, 0, "char", y_portions[i - 1] * Stride)
  <2>1. TypeOK /\ job = "running" /\ pc[0] = "gather" /\ i \in Slaves /\ height # 0
    BY DEF ProtocolInv, IndexInRange, Gather, At, Running
  <2>2. ~(i + 1 < NumProcs) => i + 1 = NumProcs
    BY <2>1
  <2>3. QED
    BY <2>1, <2>2 DEF Gather, Goto
<1>2. Filled(i) /\ chan[<<i, 0>>] # <<>>
  <2>1. Stage(i) = "filled"
    BY <1>1 DEF Stage
  <2>2. QED
    BY <1>1, <2>1 DEF ProtocolInv, Protocol, Recv
<1>3. Where(i, "finalize", <<>>, <<ResultMsg(i)>>) /\ dimensions[i] = y_portions[i - 1]
  BY <1>2 DEF Filled, Where
<1>4. y_portions[i - 1] * Stride <= y_portions[i - 1] * Stride
  <2>1. y_portions[i - 1] \in Nat
    BY <1>1 DEF TypeOK
  <2>2. y_portions[i - 1] * Stride \in Nat
    BY <2>1, StrideAssumption
  <2>3. QED BY <2>2
<1>5. /\ chan'[<<i, 0>>] = <<>> /\ job' = job
      /\ \A r, t \in Rank : r # i \/ t # 0 => chan'[<<r, t>>] = chan[<<r, t>>]
      /\ DOMAIN chan' = Rank \X Rank /\ blocked' \in SUBSET (Rank \X Rank)
  <2>1. Matches(ResultMsg(i), "char", y_portions[i - 1] * Stride)
    BY <1>4 DEF ResultMsg, Matches
  <2>2. Head(chan[<<i, 0>>]) = ResultMsg(i) /\ Tail(chan[<<i, 0>>]) = <<>>
    BY <1>3, ShortQueues DEF Where
  <2>3. i \in Rank /\ TypeOK /\ Recv(i, 0, "char", y_portions[i - 1] * Stride)
    BY <1>1
  <2>4. QED
    BY <2>1, <2>2, <2>3 DEF Recv, TypeOK
<1>6. indexer' \in Int /\ DOMAIN Output' \subseteq Int
  <2>1. indexer \in Int /\ DOMAIN Output \subseteq Int /\ \A k \in Strips : y_portions[k] \in Nat
    BY <1>1 DEF TypeOK
  <2>2. i > 1 => i - 2 \in Strips
    BY <1>1
  <2>3. indexer' \in Int
    BY <1>1, <2>1, <2>2, RadiusFacts DEF GatherIndex, NextStart
  <2>4. FirstKept(i) \in Int /\ EndKept(i) \in Int
    BY <1>1, <2>1, RadiusFacts DEF FirstKept, EndKept
  <2> DEFINE copied == {y + indexer' : y \in FirstKept(i) .. EndKept(i) - 1}
  <2>5. copied \subseteq Int
    BY <2>3, <2>4
  <2>6. DOMAIN Output' = DOMAIN Output \union copied
    BY <1>1 DEF CopyRows
  <2>7. QED
    BY <2>1, <2>3, <2>5, <2>6
<1>7. TypeOK' /\ NoMPIError' /\ IndexInRange'
  <2>1. /\ pc' \in [Rank -> MasterLabels \union SlaveLabels]
        /\ pc'[0] \in {"gather", "write"} /\ \A s \in Slaves : pc'[s] = pc[s]
    BY <1>1 DEF TypeOK, MasterLabels
  <2>2. i' \in 0 .. NumProcs - 1 /\ i' \in Slaves
    <3>1. i \in Slaves /\ (i' = i \/ (i + 1 < NumProcs /\ i' = i + 1))
      BY <1>1
    <3>2. QED
      BY <3>1
  <2>3. TypeOK'
    <3>1. TypeOK /\ UNCHANGED <<height, mod_check, y_portions, saved, slaveVars>>
      BY <1>1
    <3>2. pc'[0] \in MasterLabels /\ \A s \in Slaves : pc'[s] \in SlaveLabels
      BY <2>1, <3>1 DEF TypeOK, MasterLabels
    <3>3. QED
      BY <1>5, <1>6, <2>1, <2>2, <3>1, <3>2 DEF TypeOK, slaveVars
  <2>4. NoMPIError' /\ IndexInRange'
    BY <1>1, <1>5, <2>1, <2>2 DEF NoMPIError, IndexInRange
  <2>5. QED BY <2>3, <2>4
<1>8. OnlyWithMaster'
  BY <1>1, <1>5 DEF ProtocolInv, OnlyWithMaster
<1>9. ASSUME NEW s \in Slaves PROVE Protocol(s)'
  <2>1. CASE s = i
    <3>1. Stage(s)' = "collected"
      BY <1>1, <2>1 DEF TypeOK, Stage
    <3>2. Collected(s)'
      BY <1>1, <1>3, <1>5, <2>1 DEF TypeOK, Collected, Where
    <3>3. QED
      BY <3>1, <3>2 DEF Protocol
  <2>2. CASE s # i
    <3>1. Stage(s)' = Stage(s) /\ Stage(s) \in {"collected", "filled"}
      <4>1. Stage(s) = IF s < i THEN "collected" ELSE "filled"
        BY <1>1 DEF Stage
      <4>2. CASE i + 1 < NumProcs /\ i' = i + 1 /\ pc' = pc
        <5>1. Stage(s)' = IF s < i + 1 THEN "collected" ELSE "filled"
          BY <1>1, <4>2 DEF Stage
        <5>2. QED
          BY <1>1, <2>2, <4>1, <5>1
      <4>3. CASE i + 1 = NumProcs /\ i' = i /\ pc' = [pc EXCEPT ![0] = "write"]
        <5>1. Stage(s)' = "collected"
          BY <1>1, <4>3 DEF TypeOK, Stage
        <5>2. QED
          BY <1>1, <2>2, <4>1, <4>3, <5>1
      <4>4. QED BY <1>1, <4>2, <4>3
    <3>2. /\ chan'[<<0, s>>] = chan[<<0, s>>] /\ chan'[<<s, 0>>] = chan[<<s, 0>>]
          /\ pc'[s] = pc[s] /\ UNCHANGED <<y_portions, dimensions, out_arr>>
      BY <1>1, <1>5, <2>2 DEF TypeOK, slaveVars
    <3>3. Protocol(s)
      BY DEF ProtocolInv
    <3>4. QED
      BY <3>1, <3>2, <3>3, UntouchedSlave
  <2>3. QED BY <2>1, <2>2
<1>10. QED
  BY <1>7, <1>8, <1>9 DEF ProtocolInv

-----------------------------------------------------------------------------
(***************************************************************************)
(* Steps of a slave.                                                       *)
(***************************************************************************)

\* Nothing changes but the state of rank s, its messages and blocked.
OnlyRank(s) ==
  /\ UNCHANGED <<masterVars, job>> /\ pc'[0] = pc[0]
  /\ \A t \in Slaves : t # s =>
       pc'[t] = pc[t] /\ dimensions'[t] = dimensions[t] /\ out_arr'[t] = out_arr[t]
  /\ \A p, q \in Rank : ~(p = 0 /\ q = s) /\ ~(p = s /\ q = 0) =>
       chan'[<<p, q>>] = chan[<<p, q>>]

\* What a step of rank s leaves to prove.
LEMMA SlaveFrame ==
  ASSUME NEW s \in Slaves, ProtocolInv, OnlyRank(s), TypeOK', Protocol(s)'
  PROVE  ProtocolInv'
<1> USE RankFacts
<1>1. NoMPIError' /\ IndexInRange' /\ OnlyWithMaster'
  BY DEF ProtocolInv, OnlyRank, masterVars, NoMPIError, IndexInRange, OnlyWithMaster
<1>2. ASSUME NEW t \in Slaves, t # s PROVE Protocol(t)'
  <2>1. Stage(t)' = Stage(t)
    BY DEF OnlyRank, masterVars, Stage
  <2>2. /\ chan'[<<0, t>>] = chan[<<0, t>>] /\ chan'[<<t, 0>>] = chan[<<t, 0>>]
        /\ pc'[t] = pc[t] /\ dimensions'[t] = dimensions[t] /\ out_arr'[t] = out_arr[t]
        /\ UNCHANGED <<y_portions, height, indexer>>
    BY <1>2 DEF OnlyRank, masterVars
  <2>3. Protocol(t)
    BY DEF ProtocolInv
  <2>4. QED
    BY <2>1, <2>2, <2>3 DEF Protocol, Idle, Sizing, Sized, Filling, Filled, Collected, Where,
                            DimsMsg, ArrayMsg, AckMsg, ResultMsg
<1>3. QED
  BY <1>1, <1>2 DEF ProtocolInv

\* The statement rank s is at tells how far Master has got with it.
LEMMA StageOf ==
  ASSUME NEW s \in Slaves, ProtocolInv
  PROVE  /\ Stage(s) \in {"idle", "sizing", "sized", "filling", "filled", "collected"}
         /\ pc[s] = "recvDims" /\ chan[<<0, s>>] # <<>> => Stage(s) = "sizing"
         /\ pc[s] = "sendEcho" => Stage(s) = "sizing"
         /\ pc[s] = "recvArray" /\ chan[<<0, s>>] # <<>> => Stage(s) = "filling"
         /\ pc[s] = "sendAck" => Stage(s) = "filling"
         /\ pc[s] \in {"filter", "sendResult"} => Stage(s) \in {"filling", "filled"}
<1>1. Stage(s) \in {"idle", "sizing", "sized", "filling", "filled", "collected"}
  BY DEF Stage
<1>2. Protocol(s)
  BY DEF ProtocolInv
<1>3. QED
  BY <1>1, <1>2 DEF Protocol, Idle, Sizing, Sized, Filling, Filled, Collected, Where

\* Receiving the dimensions keeps the messages under way and the ranks in agreement (ProtocolInv).
LEMMA RecvDimsStep == ASSUME NEW s \in Slaves PROVE ProtocolInv /\ RecvDims(s) => ProtocolInv'
<1> SUFFICES ASSUME ProtocolInv, RecvDims(s) PROVE ProtocolInv'
  OBVIOUS
<1> USE RankFacts
<1>1. /\ TypeOK /\ job = "running" /\ pc[s] = "recvDims" /\ chan[<<0, s>>] # <<>>
      /\ pc' = [pc EXCEPT ![s] = "sendEcho"]
      /\ dimensions' = [dimensions EXCEPT ![s] = Head(chan[<<0, s>>]).data]
      /\ UNCHANGED <<masterVars, input_arr, out_arr>>
      /\ Recv(0, s, "int", 3)
  BY DEF ProtocolInv, RecvDims, At, Running, Goto, Recv, Received
<1>2. Stage(s) = "sizing" /\ Where(s, "recvDims", <<DimsMsg(s)>>, <<>>)
  BY <1>1, StageOf DEF ProtocolInv, Protocol, Sizing, Where
<1>3. /\ chan'[<<0, s>>] = <<>> /\ job' = job
      /\ \A r, t \in Rank : r # 0 \/ t # s => chan'[<<r, t>>] = chan[<<r, t>>]
      /\ DOMAIN chan' = Rank \X Rank /\ blocked' \in SUBSET (Rank \X Rank)
  BY <1>1, <1>2, ShortQueues DEF Recv, TypeOK, Where, DimsMsg, Matches
<1>4. y_portions[s - 1] \in Nat /\ dimensions' = [dimensions EXCEPT ![s] = y_portions[s - 1]]
  <2>1. Head(chan[<<0, s>>]) = DimsMsg(s)
    BY <1>2, ShortQueues DEF Where
  <2>2. Head(chan[<<0, s>>]).data = y_portions[s - 1]
    BY <2>1 DEF DimsMsg
  <2>3. y_portions \in [Strips -> Nat] /\ s - 1 \in Strips
    BY <1>1 DEF TypeOK
  <2>4. y_portions[s - 1] \in Nat
    BY <2>3
  <2>5. QED
    BY <1>1, <2>2, <2>4
<1>5. TypeOK'
  <2>1. /\ pc' \in [Rank -> MasterLabels \union SlaveLabels] /\ pc'[0] \in MasterLabels
        /\ \A t \in Slaves : pc'[t] \in SlaveLabels
    BY <1>1 DEF TypeOK, SlaveLabels
  <2>2. dimensions' \in [Slaves -> Nat]
    BY <1>1, <1>4 DEF TypeOK
  <2>3. QED
    BY <1>1, <1>3, <2>1, <2>2 DEF TypeOK, masterVars
<1>6. OnlyRank(s)
  BY <1>1, <1>3 DEF OnlyRank, TypeOK, masterVars
<1>7. Protocol(s)'
  <2>1. Stage(s)' = "sizing"
    BY <1>2, <1>6 DEF OnlyRank, masterVars, Stage
  <2>2. Where(s, "sendEcho", <<>>, <<>>)'
    BY <1>1, <1>2, <1>3 DEF TypeOK, Where
  <2>3. (dimensions[s] = y_portions[s - 1])'
    BY <1>1, <1>4 DEF TypeOK, masterVars
  <2>4. QED
    BY <2>1, <2>2, <2>3 DEF Protocol, Sizing
<1>8. QED
  BY <1>5, <1>6, <1>7, SlaveFrame

\* Echoing the dimensions keeps the messages under way and the ranks in agreement (ProtocolInv).
LEMMA SendEchoStep == ASSUME NEW s \in Slaves PROVE ProtocolInv /\ SendEcho(s) => ProtocolInv'
<1> SUFFICES ASSUME ProtocolInv, SendEcho(s) PROVE ProtocolInv'
  OBVIOUS
<1> USE RankFacts
<1>1. /\ TypeOK /\ job = "running" /\ pc[s] = "sendEcho"
      /\ pc' = [pc EXCEPT ![s] = "recvArray"]
      /\ UNCHANGED <<masterVars, slaveVars>>
      /\ Send(s, 0, "int", 3, dimensions[s])
  BY DEF ProtocolInv, SendEcho, At, Running, Goto
<1>2. /\ Stage(s) = "sizing" /\ Where(s, "sendEcho", <<>>, <<>>)
      /\ dimensions[s] = y_portions[s - 1]
  BY <1>1, StageOf DEF ProtocolInv, Protocol, Sizing, Where
<1>3. /\ chan'[<<s, 0>>] = <<DimsMsg(s)>> /\ job' = job
      /\ \A r, t \in Rank : r # s \/ t # 0 => chan'[<<r, t>>] = chan[<<r, t>>]
      /\ DOMAIN chan' = Rank \X Rank /\ blocked' \in SUBSET (Rank \X Rank)
  BY <1>1, <1>2, ShortQueues DEF Send, TypeOK, Where, DimsMsg
<1>4. TypeOK'
  <2>1. /\ pc' \in [Rank -> MasterLabels \union SlaveLabels] /\ pc'[0] \in MasterLabels
        /\ \A t \in Slaves : pc'[t] \in SlaveLabels
    BY <1>1 DEF TypeOK, SlaveLabels
  <2>2. QED
    BY <1>1, <1>3, <2>1 DEF TypeOK, masterVars, slaveVars
<1>5. OnlyRank(s)
  BY <1>1, <1>3 DEF OnlyRank, TypeOK, masterVars, slaveVars
<1>6. Protocol(s)'
  <2>1. Stage(s)' = "sizing"
    BY <1>2, <1>5 DEF OnlyRank, masterVars, Stage
  <2>2. Where(s, "recvArray", <<>>, <<DimsMsg(s)>>)' /\ (dimensions[s] = y_portions[s - 1])'
    BY <1>1, <1>2, <1>3 DEF TypeOK, Where, DimsMsg, masterVars, slaveVars
  <2>3. QED
    BY <2>1, <2>2 DEF Protocol, Sizing
<1>7. QED
  BY <1>4, <1>5, <1>6, SlaveFrame

\* Receiving the strip keeps the messages under way and the ranks in agreement (ProtocolInv).
LEMMA RecvArrayStep == ASSUME NEW s \in Slaves PROVE ProtocolInv /\ RecvArray(s) => ProtocolInv'
<1> SUFFICES ASSUME ProtocolInv, RecvArray(s) PROVE ProtocolInv'
  OBVIOUS
<1> USE RankFacts
<1>1. /\ TypeOK /\ job = "running" /\ pc[s] = "recvArray" /\ chan[<<0, s>>] # <<>>
      /\ pc' = [pc EXCEPT ![s] = "sendAck"]
      /\ input_arr' = [input_arr EXCEPT ![s] = Received(0, s)]
      /\ UNCHANGED <<masterVars, dimensions, out_arr>>
      /\ Recv(0, s, "char", dimensions[s] * Stride)
  BY DEF ProtocolInv, RecvArray, At, Running, Goto, Recv
<1>2. /\ Stage(s) = "filling" /\ Where(s, "recvArray", <<ArrayMsg(s)>>, <<>>)
      /\ dimensions[s] = y_portions[s - 1]
  BY <1>1, StageOf DEF ProtocolInv, Protocol, Filling, Where
<1>3. Matches(ArrayMsg(s), "char", dimensions[s] * Stride)
  <2>1. dimensions[s] \in Nat
    BY <1>1 DEF TypeOK
  <2>2. dimensions[s] * Stride \in Nat
    BY <2>1, StrideAssumption
  <2>3. dimensions[s] * Stride <= dimensions[s] * Stride
    BY <2>2
  <2>4. QED
    BY <1>2, <2>3 DEF Matches, ArrayMsg
<1>4. /\ chan'[<<0, s>>] = <<>> /\ job' = job
      /\ \A r, t \in Rank : r # 0 \/ t # s => chan'[<<r, t>>] = chan[<<r, t>>]
      /\ DOMAIN chan' = Rank \X Rank /\ blocked' \in SUBSET (Rank \X Rank)
  BY <1>1, <1>2, <1>3, ShortQueues DEF Recv, TypeOK, Where
<1>5. TypeOK'
  <2>1. /\ pc' \in [Rank -> MasterLabels \union SlaveLabels] /\ pc'[0] \in MasterLabels
        /\ \A t \in Slaves : pc'[t] \in SlaveLabels
    BY <1>1 DEF TypeOK, SlaveLabels
  <2>2. QED
    BY <1>1, <1>4, <2>1 DEF TypeOK, masterVars
<1>6. OnlyRank(s)
  BY <1>1, <1>4 DEF OnlyRank, TypeOK, masterVars
<1>7. Protocol(s)'
  <2>1. Stage(s)' = "filling"
    BY <1>2, <1>6 DEF OnlyRank, masterVars, Stage
  <2>2. Where(s, "sendAck", <<>>, <<>>)'
    BY <1>1, <1>2, <1>4 DEF TypeOK, Where
  <2>3. (dimensions[s] = y_portions[s - 1])'
    BY <1>1, <1>2 DEF masterVars
  <2>4. QED
    BY <2>1, <2>2, <2>3 DEF Protocol, Filling
<1>8. QED
  BY <1>5, <1>6, <1>7, SlaveFrame

\* Acknowledging the strip keeps the messages under way and the ranks in agreement (ProtocolInv).
LEMMA SendAckStep == ASSUME NEW s \in Slaves PROVE ProtocolInv /\ SendAck(s) => ProtocolInv'
<1> SUFFICES ASSUME ProtocolInv, SendAck(s) PROVE ProtocolInv'
  OBVIOUS
<1> USE RankFacts
<1>1. /\ TypeOK /\ job = "running" /\ pc[s] = "sendAck"
      /\ pc' = [pc EXCEPT ![s] = "filter"]
      /\ UNCHANGED <<masterVars, slaveVars>>
      /\ Send(s, 0, "char", 1, NoRows)
  BY DEF ProtocolInv, SendAck, At, Running, Goto
<1>2. /\ Stage(s) = "filling" /\ Where(s, "sendAck", <<>>, <<>>)
      /\ dimensions[s] = y_portions[s - 1]
  BY <1>1, StageOf DEF ProtocolInv, Protocol, Filling, Where
<1>3. /\ chan'[<<s, 0>>] = <<AckMsg>> /\ job' = job
      /\ \A r, t \in Rank : r # s \/ t # 0 => chan'[<<r, t>>] = chan[<<r, t>>]
      /\ DOMAIN chan' = Rank \X Rank /\ blocked' \in SUBSET (Rank \X Rank)
  BY <1>1, <1>2, ShortQueues DEF Send, TypeOK, Where, AckMsg
<1>4. TypeOK'
  <2>1. /\ pc' \in [Rank -> MasterLabels \union SlaveLabels] /\ pc'[0] \in MasterLabels
        /\ \A t \in Slaves : pc'[t] \in SlaveLabels
    BY <1>1 DEF TypeOK, SlaveLabels
  <2>2. QED
    BY <1>1, <1>3, <2>1 DEF TypeOK, masterVars, slaveVars
<1>5. OnlyRank(s)
  BY <1>1, <1>3 DEF OnlyRank, TypeOK, masterVars, slaveVars
<1>6. Protocol(s)'
  <2>1. Stage(s)' = "filling"
    BY <1>2, <1>5 DEF OnlyRank, masterVars, Stage
  <2>2. Where(s, "filter", <<>>, <<AckMsg>>)'
    BY <1>1, <1>2, <1>3 DEF TypeOK, Where, AckMsg
  <2>3. (dimensions[s] = y_portions[s - 1])'
    BY <1>1, <1>2 DEF masterVars, slaveVars
  <2>4. QED
    BY <2>1, <2>2, <2>3 DEF Protocol, Filling
<1>7. QED
  BY <1>4, <1>5, <1>6, SlaveFrame

\* Filtering the strip keeps the messages under way and the ranks in agreement (ProtocolInv).
LEMMA FilterStep == ASSUME NEW s \in Slaves PROVE ProtocolInv /\ Filter(s) => ProtocolInv'
<1> SUFFICES ASSUME ProtocolInv, Filter(s) PROVE ProtocolInv'
  OBVIOUS
<1> USE RankFacts
<1>1. /\ TypeOK /\ job = "running" /\ pc[s] = "filter"
      /\ pc' = [pc EXCEPT ![s] = "sendResult"]
      /\ DOMAIN out_arr' = Slaves /\ \A t \in Slaves : t # s => out_arr'[t] = out_arr[t]
      /\ UNCHANGED <<masterVars, dimensions, input_arr, mpiVars>>
  BY DEF ProtocolInv, Filter, At, Running, Goto, TypeOK
<1>2. /\ \/ Stage(s) = "filling" /\ Where(s, "filter", <<>>, <<AckMsg>>)
         \/ Stage(s) = "filled" /\ Where(s, "filter", <<>>, <<>>)
      /\ dimensions[s] = y_portions[s - 1]
  BY <1>1, StageOf DEF ProtocolInv, Protocol, Filling, Filled, Where
<1>3. TypeOK'
  <2>1. /\ pc' \in [Rank -> MasterLabels \union SlaveLabels] /\ pc'[0] \in MasterLabels
        /\ \A t \in Slaves : pc'[t] \in SlaveLabels
    BY <1>1 DEF TypeOK, SlaveLabels
  <2>2. QED
    BY <1>1, <2>1 DEF TypeOK, masterVars, mpiVars
<1>4. OnlyRank(s)
  BY <1>1 DEF OnlyRank, TypeOK, masterVars, mpiVars
<1>5. Protocol(s)'
  <2>1. Stage(s)' = Stage(s)
    BY <1>4 DEF OnlyRank, masterVars, Stage
  <2>2. Where(s, "sendResult", <<>>, chan[<<s, 0>>])'
    BY <1>1, <1>2 DEF TypeOK, Where, mpiVars
  <2>3. (dimensions[s] = y_portions[s - 1])' /\ UNCHANGED chan /\ AckMsg' = AckMsg
    BY <1>1, <1>2 DEF masterVars, mpiVars, AckMsg
  <2>4. QED
    BY <1>2, <2>1, <2>2, <2>3 DEF Protocol, Filling, Filled, Where
<1>6. QED
  BY <1>3, <1>4, <1>5, SlaveFrame

\* Returning the strip keeps the messages under way and the ranks in agreement (ProtocolInv).
LEMMA SendResultStep == ASSUME NEW s \in Slaves PROVE ProtocolInv /\ SendResult(s) => ProtocolInv'
<1> SUFFICES ASSUME ProtocolInv, SendResult(s) PROVE ProtocolInv'
  OBVIOUS
<1> USE RankFacts
<1>1. /\ TypeOK /\ job = "running" /\ pc[s] = "sendResult"
      /\ pc' = [pc EXCEPT ![s] = "finalize"]
      /\ UNCHANGED <<masterVars, slaveVars>>
      /\ Send(s, 0, "char", dimensions[s] * Stride, out_arr[s])
  BY DEF ProtocolInv, SendResult, At, Running, Goto
<1>2. /\ \/ Stage(s) = "filling" /\ Where(s, "sendResult", <<>>, <<AckMsg>>)
         \/ Stage(s) = "filled" /\ Where(s, "sendResult", <<>>, <<>>)
      /\ dimensions[s] = y_portions[s - 1]
  BY <1>1, StageOf DEF ProtocolInv, Protocol, Filling, Filled, Where
<1>3. /\ chan'[<<s, 0>>] = Append(chan[<<s, 0>>], ResultMsg(s)) /\ job' = job
      /\ \A r, t \in Rank : r # s \/ t # 0 => chan'[<<r, t>>] = chan[<<r, t>>]
      /\ DOMAIN chan' = Rank \X Rank /\ blocked' \in SUBSET (Rank \X Rank)
  BY <1>1, <1>2 DEF Send, TypeOK, ResultMsg
<1>4. TypeOK'
  <2>1. /\ pc' \in [Rank -> MasterLabels \union SlaveLabels] /\ pc'[0] \in MasterLabels
        /\ \A t \in Slaves : pc'[t] \in SlaveLabels
    BY <1>1 DEF TypeOK, SlaveLabels
  <2>2. QED
    BY <1>1, <1>3, <2>1 DEF TypeOK, masterVars, slaveVars
<1>5. OnlyRank(s)
  BY <1>1, <1>3 DEF OnlyRank, TypeOK, masterVars, slaveVars
<1>6. Protocol(s)'
  <2>1. Stage(s)' = Stage(s)
    BY <1>5 DEF OnlyRank, masterVars, Stage
  <2>2. /\ pc'[s] = "finalize" /\ chan'[<<0, s>>] = <<>>
        /\ (dimensions[s] = y_portions[s - 1])'
    BY <1>1, <1>2, <1>3 DEF TypeOK, Where, masterVars, slaveVars
  <2>3. AckMsg' = AckMsg /\ ResultMsg(s)' = ResultMsg(s)
    BY <1>1 DEF AckMsg, ResultMsg, masterVars, slaveVars
  <2>4. CASE Stage(s) = "filling" /\ chan[<<s, 0>>] = <<AckMsg>>
    <3>1. chan'[<<s, 0>>] = <<AckMsg, ResultMsg(s)>>
      BY <1>3, <2>4, ShortQueues
    <3>2. QED
      BY <2>1, <2>2, <2>3, <2>4, <3>1 DEF Protocol, Filling, Where
  <2>5. CASE Stage(s) = "filled" /\ chan[<<s, 0>>] = <<>>
    <3>1. chan'[<<s, 0>>] = <<ResultMsg(s)>>
      BY <1>3, <2>5, ShortQueues
    <3>2. QED
      BY <2>1, <2>2, <2>3, <2>5, <3>1 DEF Protocol, Filled, Where
  <2>6. QED
    BY <1>2, <2>4, <2>5 DEF Where
<1>7. QED
  BY <1>4, <1>5, <1>6, SlaveFrame

-----------------------------------------------------------------------------
\* Every step keeps the messages under way and the ranks in agreement (ProtocolInv).
LEMMA ProtocolStep == ProtocolInv /\ [Next]_vars => ProtocolInv'
<1> SUFFICES ASSUME ProtocolInv, [Next]_vars PROVE ProtocolInv'
  OBVIOUS
<1>1. CASE MasterStep
  BY <1>1, ReadImageStep, ReadFailsStep, SplitStep, SendDimsStep, RecvEchoStep, SendArrayStep,
     RecvAckStep, GatherStep, WriteImageStep, MasterDiesStep DEF MasterStep
<1>2. ASSUME NEW s \in Slaves, SlaveStep(s) PROVE ProtocolInv'
  BY <1>2, RecvDimsStep, SendEchoStep, RecvArrayStep, SendAckStep, FilterStep, SendResultStep
  DEF SlaveStep
<1>3. CASE UNCHANGED vars
  <2>1. TypeOK' /\ NoMPIError' /\ IndexInRange' /\ OnlyWithMaster'
    BY <1>3 DEF ProtocolInv, TypeOK, NoMPIError, IndexInRange, OnlyWithMaster,
                vars, masterVars, slaveVars, mpiVars
  <2>2. ASSUME NEW s \in Slaves PROVE Protocol(s)'
    <3>1. UNCHANGED <<chan, pc, i, height, y_portions, indexer, dimensions, out_arr>>
      BY <1>3 DEF vars, masterVars, slaveVars, mpiVars
    <3>2. Protocol(s)
      BY DEF ProtocolInv
    <3>3. QED
      BY <3>1, <3>2 DEF Protocol, Stage, Idle, Sizing, Sized, Filling, Filled, Collected,
                        Where, DimsMsg, ArrayMsg, AckMsg, ResultMsg
  <2>3. QED
    BY <2>1, <2>2 DEF ProtocolInv
<1>4. QED
  BY <1>1, <1>2, <1>3 DEF Next

\* The messages under way and the statements the ranks are at always agree.
THEOREM ProtocolSafe == Spec => []ProtocolInv
<1>1. QED
  BY ProtocolInit, ProtocolStep, PTL DEF Spec

\* No rank ever receives a message of another type, or longer, than it asked
\* for, whatever the number of processes, the image and the buffering.
THEOREM MessagesMatch == Spec => []NoMPIError
<1>1. ProtocolInv => NoMPIError
  BY DEF ProtocolInv
<1>2. QED
  BY <1>1, ProtocolSafe, PTL

\* The variables keep their types.
THEOREM TypeCorrect == Spec => []TypeOK
<1>1. ProtocolInv => TypeOK
  BY DEF ProtocolInv
<1>2. QED
  BY <1>1, ProtocolSafe, PTL

\* A strip is on its way only to a rank whose buffer has exactly its size.
THEOREM BufferedStrips == Spec => []StripMeetsItsBuffer
<1>1. ProtocolInv => StripMeetsItsBuffer
  <2> SUFFICES ASSUME ProtocolInv, NEW s \in Slaves, NEW k \in 1 .. Len(chan[<<0, s>>]),
                      chan[<<0, s>>][k].type = "char"
               PROVE  pc[s] = "recvArray" /\ chan[<<0, s>>][k].count = dimensions[s] * Stride
    BY DEF StripMeetsItsBuffer
  <2>1. Protocol(s) /\ Stage(s) \in {"idle", "sizing", "sized", "filling", "filled", "collected"}
    BY StageOf DEF ProtocolInv
  <2>2. CASE chan[<<0, s>>] = <<>>
    BY <2>2
  <2>3. CASE chan[<<0, s>>] = <<DimsMsg(s)>>
    BY <2>3 DEF DimsMsg
  <2>4. CASE /\ chan[<<0, s>>] = <<ArrayMsg(s)>> /\ pc[s] = "recvArray"
             /\ dimensions[s] = y_portions[s - 1]
    BY <2>4 DEF ArrayMsg
  <2>5. QED
    BY <2>1, <2>2, <2>3, <2>4 DEF Protocol, Idle, Sizing, Sized, Filling, Filled, Collected, Where
<1>2. QED
  BY <1>1, ProtocolSafe, PTL

\* When Master returns, and its process calls MPI_Finalize, no message is
\* still to be received.
THEOREM NoStrayMessage == Spec => []NothingLeftBehind
<1>1. ProtocolInv => NothingLeftBehind
  <2> SUFFICES ASSUME ProtocolInv, pc[0] = "finalize", NEW p \in Rank, NEW q \in Rank
               PROVE  chan[<<p, q>>] = <<>>
    BY DEF NothingLeftBehind
  <2>1. ASSUME NEW s \in Slaves PROVE chan[<<0, s>>] = <<>> /\ chan[<<s, 0>>] = <<>>
    <3>1. Protocol(s) /\ Stage(s) \in {"idle", "collected"}
      BY DEF ProtocolInv, Stage
    <3>2. QED
      BY <3>1 DEF Protocol, Idle, Collected, Where
  <2>2. p = 0 \/ p \in Slaves
    BY RankFacts
  <2>3. q = 0 \/ q \in Slaves
    BY RankFacts
  <2>4. QED
    BY <2>1, <2>2, <2>3 DEF ProtocolInv, OnlyWithMaster
<1>2. QED
  BY <1>1, ProtocolSafe, PTL

\* However the sends are buffered and the ranks are scheduled, each message gets
\* to the receive it was meant for, with the size it has, and none is left.
THEOREM MessagesSafe == Spec => []MessagesFit
<1>1. NoMPIError /\ StripMeetsItsBuffer /\ NothingLeftBehind => MessagesFit
  BY DEF MessagesFit
<1>2. QED
  BY <1>1, MessagesMatch, BufferedStrips, NoStrayMessage, PTL

-----------------------------------------------------------------------------
(***************************************************************************)
(* What the ranks compute: the strips are those of the partition, the      *)
(* output image is complete, and no trace of the partition is left in it.  *)
(***************************************************************************)


(***************************************************************************)
(* The arithmetic of the partition, for every number of slaves, window and *)
(* height.                                                                 *)
(***************************************************************************)

\* Start takes integer values, begins at the first row and ends after the last.
LEMMA StartFacts ==
  ASSUME NEW h \in Nat
  PROVE  /\ \A k \in 0 .. NumSlaves : Start(h, k) \in Nat
         /\ Start(h, 0) = 0
         /\ Start(h, NumSlaves) = h
<1> USE NumProcsAssumption DEF NumSlaves
<1>1. h \div NumSlaves \in Nat /\ h % NumSlaves \in 0 .. NumSlaves - 1
      /\ h = (NumSlaves * (h \div NumSlaves)) + (h % NumSlaves)
  <2>1. NumSlaves \in Nat /\ NumSlaves > 0
    OBVIOUS
  <2> HIDE DEF NumSlaves
  <2>2. QED BY <2>1, DivMod
<1> DEFINE q == h \div NumSlaves
           r == h % NumSlaves
<1>2. \A k \in 0 .. NumSlaves : k * q \in Nat
  BY <1>1, StepProduct
<1> HIDE DEF q, r
<1>3. /\ q \in Nat /\ r \in 0 .. NumSlaves - 1 /\ h = NumSlaves * q + r
      /\ \A k \in Nat : Start(h, k) = k * q + Least(k, r)
  BY <1>1 DEF q, r, Start
<1>4. QED
  BY <1>2, <1>3 DEF Least

\* A strip owns the rows of the quotient, and one more while the remainder lasts.
LEMMA StartStep ==
  ASSUME NEW h \in Nat, NEW k \in Strips
  PROVE  /\ Start(h, k + 1) = Start(h, k) + (h \div NumSlaves)
                              + (IF k < h % NumSlaves THEN 1 ELSE 0)
         /\ h \div NumSlaves \in Nat /\ h % NumSlaves \in Nat
<1> USE NumProcsAssumption DEF NumSlaves, Strips
<1> DEFINE q == h \div NumSlaves
           r == h % NumSlaves
<1>1. q \in Nat /\ r \in 0 .. NumSlaves - 1
  BY DivMod
<1>2. (k + 1) * q = k * q + q /\ k * q \in Nat
  BY <1>1, StepProduct
<1> HIDE DEF q, r
<1>3. Start(h, k + 1) = ((k + 1) * q) + Least(k + 1, r) /\ Start(h, k) = (k * q) + Least(k, r)
  BY DEF q, r, Start
<1>4. Start(h, k + 1) = Start(h, k) + q + (IF k < r THEN 1 ELSE 0)
  BY <1>1, <1>2, <1>3 DEF Least
<1>5. QED
  BY <1>1, <1>4 DEF q, r

\* Later strips start later, and no strip starts after the image ends.
LEMMA StartMonotone ==
  ASSUME NEW h \in Nat, NEW k \in 0 .. NumSlaves, NEW l \in 0 .. NumSlaves, k <= l
  PROVE  Start(h, k) <= Start(h, l) /\ Start(h, l) <= h
<1> USE NumProcsAssumption DEF NumSlaves
<1> DEFINE q == h \div NumSlaves
           r == h % NumSlaves
<1>1. q \in Nat /\ r \in 0 .. NumSlaves - 1
  BY DivMod
<1>2. \A a, b \in 0 .. NumSlaves : a <= b => a * q <= b * q
  BY <1>1, ProductMonotone
<1>3. \A a \in 0 .. NumSlaves : a * q \in Nat
  BY <1>1, StepProduct
<1> HIDE DEF q, r
<1>4. \A a \in 0 .. NumSlaves : Start(h, a) = (a * q) + Least(a, r)
  BY DEF q, r, Start
<1>5. \A a, b \in 0 .. NumSlaves : a <= b => Start(h, a) <= Start(h, b)
  BY <1>1, <1>2, <1>3, <1>4 DEF Least
<1>6. QED
  BY <1>5, StartFacts

\* With an image that is high enough, a strip and its overlap lie inside the
\* image, and the strip is at least as high as the window.
LEMMA StripBounds ==
  ASSUME NEW h \in Nat, WellSized(h), NEW k \in Strips
  PROVE  /\ FirstRow(h, k) \in Nat
         /\ FirstRow(h, k) + PortionOf(h, k) <= h
         /\ PortionOf(h, k) \in Nat /\ PortionOf(h, k) >= WindowY
         /\ k = 0 \/ FirstRow(h, k) = Start(h, k) - Radius
         /\ k = 0 => FirstRow(h, k) = 0 /\ Start(h, k) = 0
         /\ k = NumSlaves - 1 => FirstRow(h, k) + PortionOf(h, k) = h
         /\ k < NumSlaves - 1 =>
              FirstRow(h, k) + PortionOf(h, k) = Start(h, k + 1) + Radius
<1> USE NumProcsAssumption, RadiusFacts DEF NumSlaves, Strips
<1>1. NumSlaves >= 2 /\ h \div NumSlaves > Radius
  BY DEF WellSized
<1>2. Start(h, k) \in Nat /\ Start(h, k + 1) \in Nat /\ Start(h, 0) = 0 /\ Start(h, NumSlaves) = h
  BY StartFacts
<1>3. Start(h, k + 1) - Start(h, k) > Radius
  BY <1>1, <1>2, StartStep
<1>4. k > 0 => Start(h, k) > Radius
  <2>1. Start(h, 1) > Radius
    BY <1>1, <1>2, StartStep, 0 \in Strips
  <2>2. k > 0 => Start(h, 1) <= Start(h, k)
    BY <1>1, StartMonotone
  <2>3. \A m \in 0 .. NumSlaves : Start(h, m) \in Nat
    BY StartFacts
  <2>4. QED BY <1>1, <2>1, <2>2, <2>3
<1>5. k < NumSlaves - 1 => Start(h, k + 1) + Radius < h
  <2>1. k < NumSlaves - 1 => Start(h, k + 2) <= h /\ Start(h, k + 2) \in Nat
    BY StartMonotone, StartFacts
  <2>2. k < NumSlaves - 1 => Start(h, k + 2) - Start(h, k + 1) > Radius
    <3>1. k < NumSlaves - 1 => k + 1 \in Strips /\ (k + 1) + 1 = k + 2
      OBVIOUS
    <3>2. QED BY <1>1, <1>2, <3>1, StartStep
  <2>3. QED BY <1>2, <2>1, <2>2
<1>6. QED
  BY <1>1, <1>2, <1>3, <1>4, <1>5 DEF FirstRow, PortionOf, Halo

\* A row that the gather loop keeps is filtered in its strip exactly as it
\* would be in the whole image.
LEMMA WindowInStrip ==
  ASSUME NEW h \in Nat, WellSized(h), NEW k \in Strips,
         NEW n, n = PortionOf(h, k), NEW first, first = FirstRow(h, k),
         NEW y \in 0 .. n - 1,
         k > 0 => y >= Radius,
         k = 0 \/ k < NumSlaves - 1 => y < n - Radius
  PROVE  FilterRow(Strip(h, first, n), n, y) = FilterRow(Image(h), h, first + y)
<1> USE NumProcsAssumption, RadiusFacts DEF NumSlaves, Strips
<1>1. first \in Nat /\ n \in Nat /\ n >= WindowY /\ first + n <= h
  BY StripBounds
<1>2. NumSlaves >= 2
  BY DEF WellSized
<1>3. (k = 0 => first = 0) /\ (k = NumSlaves - 1 => first + n = h)
  BY StripBounds
<1>4. /\ (first = 0 /\ y >= 0) \/ y >= Radius
      /\ first + n = h \/ y < n - Radius
  BY <1>1, <1>2, <1>3
<1> HIDE DEF NumSlaves, Strips
<1>5. ASSUME NEW j \in Window
      PROVE  Cell(Strip(h, first, n), n, EdgeRow(n, y + j))
               = Cell(Image(h), h, EdgeRow(h, (first + y) + j))
  <2>1. j \in Int /\ -Radius <= j /\ j <= Radius
    BY DEF Window
  <2>2. EdgeRow(n, y + j) \in 0 .. n - 1
    BY <1>1, <2>1 DEF EdgeRow
  <2>3. EdgeRow(h, (first + y) + j) = first + EdgeRow(n, y + j)
    BY <1>1, <1>3, <1>4, <2>1 DEF EdgeRow
  <2> DEFINE e == EdgeRow(n, y + j)
  <2> HIDE DEF e
  <2>4. e \in 0 .. n - 1 /\ first + e \in 0 .. h - 1 /\ EdgeRow(h, (first + y) + j) = first + e
        /\ EdgeRow(n, y + j) = e
    BY <1>1, <2>2, <2>3 DEF e
  <2>5. QED
    BY <2>4 DEF Cell, Strip, Image
<1>6. QED
  BY <1>5 DEF FilterRow

(***************************************************************************)
(* What the ranks hold                                                     *)
(***************************************************************************)

\* A strip has at least the rows it shares, and Start(h, k + 1) - Start(h, k) more.
LEMMA PortionFacts ==
  ASSUME NEW h \in Nat, NEW k \in Strips
  PROVE  /\ Start(h, k) \in Nat /\ Start(h, k + 1) \in Nat /\ Start(h, k) <= Start(h, k + 1)
         /\ PortionOf(h, k) = (Start(h, k + 1) - Start(h, k)) + Halo(k)
         /\ Halo(k) \in Nat /\ Halo(k) > 0
         /\ PortionOf(h, k) \in Nat /\ PortionOf(h, k) > 0
<1>1. k \in 0 .. NumSlaves /\ k + 1 \in 0 .. NumSlaves
  BY RankFacts
<1>2. /\ Start(h, k) \in Nat /\ Start(h, k + 1) \in Nat
      /\ Halo(k) \in Nat /\ Halo(k) > 0
  BY <1>1, StartFacts, RadiusFacts DEF Halo
<1>3. Start(h, k) <= Start(h, k + 1)
  BY <1>1, StartMonotone, RankFacts
<1>4. QED
  BY <1>2, <1>3 DEF PortionOf

\* The counting down of mod_check gives each strip its part of the remainder.
LEMMA PortionValue ==
  ASSUME NEW h \in Nat, NEW k \in Strips, NEW m,
         m = IF k <= h % NumSlaves THEN (h % NumSlaves) - k ELSE 0
  PROVE  /\ Portion(h, m, k) = PortionOf(h, k)
         /\ m - Share(m) = IF k + 1 <= h % NumSlaves THEN (h % NumSlaves) - (k + 1) ELSE 0
<1> DEFINE q == h \div NumSlaves
           r == h % NumSlaves
<1>1. /\ Start(h, k + 1) = Start(h, k) + q + (IF k < r THEN 1 ELSE 0)
      /\ q \in Nat /\ r \in Nat
  BY StartStep
<1>2. /\ Start(h, k) \in Nat /\ k \in Int /\ Halo(k) \in Nat
      /\ PortionOf(h, k) = (Start(h, k + 1) - Start(h, k)) + Halo(k)
  BY PortionFacts, RankFacts
<1>3. Portion(h, m, k) = q + Share(m) + Halo(k)
  BY DEF Portion
<1>4. m = IF k <= r THEN r - k ELSE 0
  OBVIOUS
<1> HIDE DEF q, r
<1>5. Share(m) = IF k < r THEN 1 ELSE 0
  BY <1>1, <1>2, <1>4 DEF Share
<1>6. Portion(h, m, k) = PortionOf(h, k)
  BY <1>1, <1>2, <1>3, <1>5
<1>7. m - Share(m) = IF k + 1 <= r THEN r - (k + 1) ELSE 0
  BY <1>1, <1>2, <1>4, <1>5
<1>8. QED
  BY <1>6, <1>7 DEF r

\* Both loops find the first row of a strip from that of the strip before.
LEMMA NextStartValue ==
  ASSUME NEW h \in Nat, NEW k \in Strips, k > 0
  PROVE  NextStart(FirstRow(h, k - 1), PortionOf(h, k - 1)) = FirstRow(h, k)
<1>1. k - 1 \in Strips /\ (k - 1) + 1 = k /\ k - 1 # NumSlaves - 1 /\ k \in Int
  BY RankFacts
<1>2. /\ Start(h, k) \in Nat /\ Start(h, k - 1) \in Nat
      /\ PortionOf(h, k - 1) = (Start(h, k) - Start(h, k - 1)) + Halo(k - 1)
  BY <1>1, PortionFacts
<1>3. Halo(k - 1) = IF k - 1 = 0 THEN Radius ELSE 2 * Radius
  BY <1>1 DEF Halo
<1>4. Start(h, 0) = 0
  BY StartFacts
<1>5. FirstRow(h, k) = Start(h, k) - Radius
  BY <1>1 DEF FirstRow
<1>6. CASE k - 1 = 0
  <2>1. FirstRow(h, k - 1) = 0 /\ Start(h, k - 1) = 0 /\ Halo(k - 1) = Radius
    BY <1>3, <1>4, <1>6 DEF FirstRow
  <2>2. QED
    BY <1>2, <1>5, <2>1, RadiusFacts DEF NextStart
<1>7. CASE k - 1 # 0
  <2>1. FirstRow(h, k - 1) = Start(h, k - 1) - Radius /\ Halo(k - 1) = 2 * Radius
    BY <1>3, <1>7 DEF FirstRow
  <2>2. QED
    BY <1>2, <1>5, <2>1, RadiusFacts DEF NextStart
<1>8. QED BY <1>6, <1>7

\* If a strip owns a row, so does the strip before it.
LEMMA NonemptyBefore ==
  ASSUME NEW h \in Nat, NEW k \in Strips, k > 0, Start(h, k) < Start(h, k + 1)
  PROVE  Start(h, k - 1) < Start(h, k)
<1> DEFINE q == h \div NumSlaves
           r == h % NumSlaves
<1>1. k - 1 \in Strips /\ (k - 1) + 1 = k /\ k \in Int
  BY RankFacts
<1>2. /\ Start(h, k + 1) = Start(h, k) + q + (IF k < r THEN 1 ELSE 0)
      /\ q \in Nat /\ r \in Nat
  BY StartStep
<1>3. Start(h, k) = Start(h, k - 1) + q + (IF k - 1 < r THEN 1 ELSE 0)
  BY <1>1, StartStep
<1>4. Start(h, k) \in Nat /\ Start(h, k - 1) \in Nat
  BY <1>1, PortionFacts
<1> HIDE DEF q, r
<1>5. QED
  BY <1>1, <1>2, <1>3, <1>4

-----------------------------------------------------------------------------
(***************************************************************************)
(* DataInv is preserved.  A step of Master disturbs PortionsInv,           *)
(* IndexerInv and RowsInv, a step of a slave StripsInv.                    *)
(***************************************************************************)

\* The remainder shared out by mod_check is a number.
LEMMA RemainderNat == \A h \in Nat : h % NumSlaves \in Nat
<1> SUFFICES ASSUME NEW h \in Nat PROVE h % NumSlaves \in Nat
  OBVIOUS
<1>1. NumSlaves \in Nat /\ NumSlaves > 0
  BY RankFacts
<1>2. h % NumSlaves \in 0 .. NumSlaves - 1
  BY <1>1, DivMod
<1>3. QED
  BY <1>1, <1>2

\* DataInv holds initially.
LEMMA DataInit == Init => DataInv
<1> SUFFICES ASSUME Init PROVE DataInv
  OBVIOUS
<1>1. pc[0] = "read" /\ \A s \in Slaves : pc[s] = "recvDims"
  BY RankFacts DEF Init
<1>2. height = 0 /\ saved = FALSE /\ DOMAIN Output = {} /\ \A s \in Slaves : input_arr[s] = NoRows
  BY DEF Init, NoRows
<1>3. 0 .. Gathered - 1 = {}
  BY <1>1 DEF Gathered
<1>4. QED
  BY <1>1, <1>2, <1>3 DEF DataInv, PortionsInv, IndexerInv, StripsInv, RowsInv

\* A step of Master leaves the arrays of the slaves alone.
LEMMA MasterStrips ==
  ASSUME TypeOK, StripsInv, UNCHANGED <<height, slaveVars>>,
         \A s \in Slaves : pc'[s] = pc[s]
  PROVE  StripsInv'
BY DEF StripsInv, StripOf, FilteredStripOf, slaveVars

\* A step of a slave leaves the variables of Master alone.
LEMMA SlaveData ==
  ASSUME DataInv, UNCHANGED masterVars, pc'[0] = pc[0]
  PROVE  PortionsInv' /\ IndexerInv' /\ RowsInv'
BY DEF DataInv, PortionsInv, IndexerInv, RowsInv, Gathered, Nonempty, masterVars

\* Reading the image keeps what the arrays hold (DataInv).
LEMMA ReadImageData == ProtocolInv /\ DataInv /\ ReadImage => DataInv'
<1> SUFFICES ASSUME ProtocolInv, DataInv, ReadImage PROVE DataInv'
  OBVIOUS
<1>1. /\ TypeOK /\ pc[0] = "read" /\ height = 0
      /\ pc' = [pc EXCEPT ![0] = "split"] /\ i' = 0 /\ mod_check' = height' % NumSlaves
      /\ UNCHANGED <<y_portions, indexer, Output, saved, slaveVars>>
  BY DEF ProtocolInv, IndexInRange, ReadImage, At, Goto
<1>2. height' \in Nat
  BY HeightsAssumption DEF ReadImage
<1>3. /\ pc'[0] = "split" /\ \A s \in Slaves : pc'[s] = pc[s]
  BY <1>1, RankFacts DEF TypeOK
<1>4. PortionsInv'
  <2>1. height' % NumSlaves \in Nat
    BY <1>2, RemainderNat
  <2>2. \A k \in 0 .. i' - 1 : FALSE
    BY <1>1
  <2>3. mod_check' = IF i' <= height' % NumSlaves THEN (height' % NumSlaves) - i' ELSE 0
    BY <1>1, <2>1
  <2>4. QED
    BY <1>3, <2>2, <2>3 DEF PortionsInv
<1>5. IndexerInv'
  BY <1>3 DEF IndexerInv
<1>6. StripsInv'
  <2>1. \A s \in Slaves : pc[s] = "recvDims"
    BY <1>1 DEF ProtocolInv, Protocol, Stage, Idle, Where
  <2>2. QED
    BY <1>1, <1>3, <2>1 DEF DataInv, StripsInv, slaveVars
<1>7. RowsInv'
  <2>1. Gathered = 0 /\ Gathered' = 0
    BY <1>1, <1>3 DEF Gathered
  <2>2. RowsInv /\ ~ saved
    BY <1>1 DEF DataInv, RowsInv
  <2>3. QED
    BY <1>1, <2>1, <2>2 DEF RowsInv
<1>8. QED
  BY <1>4, <1>5, <1>6, <1>7 DEF DataInv

\* A failed read keeps what the arrays hold (DataInv).
LEMMA ReadFailsData == ProtocolInv /\ DataInv /\ ReadFails => DataInv'
<1> SUFFICES ASSUME ProtocolInv, DataInv, ReadFails PROVE DataInv'
  OBVIOUS
<1>1. /\ TypeOK /\ pc[0] = "read" /\ height = 0
      /\ pc' = [pc EXCEPT ![0] = "finalize"]
      /\ UNCHANGED <<height, i, mod_check, y_portions, indexer, Output, saved, slaveVars>>
  BY DEF ProtocolInv, IndexInRange, ReadFails, At, Goto, masterVars
<1>2. pc'[0] = "finalize" /\ \A s \in Slaves : pc'[s] = pc[s]
  BY <1>1, RankFacts DEF TypeOK
<1>3. StripsInv'
  BY <1>1, <1>2, MasterStrips DEF DataInv
<1>4. RowsInv'
  BY <1>1, <1>2 DEF DataInv, RowsInv, Gathered
<1>5. QED
  BY <1>1, <1>2, <1>3, <1>4 DEF DataInv, PortionsInv, IndexerInv

\* Computing the size of a strip keeps what the arrays hold (DataInv).
LEMMA SplitData == ProtocolInv /\ DataInv /\ Split => DataInv'
<1> SUFFICES ASSUME ProtocolInv, DataInv, Split PROVE DataInv'
  OBVIOUS
<1>1. /\ TypeOK /\ pc[0] = "split" /\ i \in Strips /\ height \in Nat
      /\ y_portions' = [y_portions EXCEPT ![i] = Portion(height, mod_check, i)]
      /\ mod_check' = mod_check - Share(mod_check)
      /\ UNCHANGED <<height, indexer, Output, saved, slaveVars>>
  BY DEF ProtocolInv, IndexInRange, TypeOK, Split, At
<1>2. \/ i + 1 < NumSlaves /\ i' = i + 1 /\ pc' = pc
      \/ ~ (i + 1 < NumSlaves) /\ pc' = [pc EXCEPT ![0] = "sendDims"]
  BY DEF Split, Goto
<1>3. /\ pc'[0] \in {"split", "sendDims"} /\ \A s \in Slaves : pc'[s] = pc[s]
      /\ pc'[0] = "split" => i' = i + 1
      /\ pc'[0] = "sendDims" => i + 1 = NumSlaves
  <2>1. ~ (i + 1 < NumSlaves) => i + 1 = NumSlaves
    BY <1>1, RankFacts
  <2>2. 0 \in Rank /\ 0 \notin Slaves /\ Slaves \subseteq Rank /\ DOMAIN pc = Rank
    BY <1>1, RankFacts DEF TypeOK
  <2>3. QED
    BY <1>1, <1>2, <2>1, <2>2
<1>4. /\ mod_check = IF i <= height % NumSlaves THEN (height % NumSlaves) - i ELSE 0
      /\ \A k \in 0 .. i - 1 : y_portions[k] = PortionOf(height, k)
  BY <1>1 DEF DataInv, PortionsInv
<1>5. /\ Portion(height, mod_check, i) = PortionOf(height, i)
      /\ mod_check' = IF i + 1 <= height % NumSlaves THEN (height % NumSlaves) - (i + 1) ELSE 0
  BY <1>1, <1>4, PortionValue
<1>6. \A k \in 0 .. i : y_portions'[k] = PortionOf(height, k)
  <2> SUFFICES ASSUME NEW k \in 0 .. i PROVE y_portions'[k] = PortionOf(height, k)
    OBVIOUS
  <2>1. k \in Strips /\ (k = i \/ k \in 0 .. i - 1)
    BY <1>1, RankFacts
  <2>2. y_portions \in [Strips -> Nat]
    BY <1>1 DEF TypeOK
  <2>3. QED
    BY <1>1, <1>4, <1>5, <2>1, <2>2
<1>7. PortionsInv'
  <2>1. CASE pc'[0] = "split"
    <3>1. i' = i + 1 /\ (i + 1) - 1 = i
      BY <1>1, <1>3, <2>1, RankFacts
    <3>2. QED
      BY <1>1, <1>5, <1>6, <2>1, <3>1 DEF PortionsInv
  <2>2. CASE pc'[0] = "sendDims"
    <3>1. Strips = 0 .. i
      BY <1>1, <1>3, <2>2, RankFacts
    <3>2. QED
      BY <1>1, <1>6, <2>2, <3>1 DEF PortionsInv
  <2>3. QED
    BY <1>3, <2>1, <2>2
<1>8. IndexerInv'
  BY <1>3 DEF IndexerInv
<1>9. StripsInv'
  BY <1>1, <1>3, MasterStrips DEF DataInv
<1>10. RowsInv'
  BY <1>1, <1>3 DEF DataInv, RowsInv, Gathered
<1>11. QED
  BY <1>7, <1>8, <1>9, <1>10 DEF DataInv

\* Announcing a strip keeps what the arrays hold (DataInv).
LEMMA SendDimsData == ProtocolInv /\ DataInv /\ SendDims => DataInv'
<1> SUFFICES ASSUME ProtocolInv, DataInv, SendDims PROVE DataInv'
  OBVIOUS
<1>1. /\ TypeOK /\ pc[0] = "sendDims" /\ pc' = [pc EXCEPT ![0] = "recvEcho"]
      /\ UNCHANGED <<height, i, mod_check, y_portions, indexer, Output, saved, slaveVars>>
  BY DEF ProtocolInv, SendDims, At, Goto, masterVars
<1>2. pc'[0] = "recvEcho" /\ \A s \in Slaves : pc'[s] = pc[s]
  BY <1>1, RankFacts DEF TypeOK
<1>3. StripsInv'
  BY <1>1, <1>2, MasterStrips DEF DataInv
<1>4. QED
  BY <1>1, <1>2, <1>3 DEF DataInv, PortionsInv, IndexerInv, RowsInv, Gathered

\* Receiving the echo keeps what the arrays hold (DataInv).
LEMMA RecvEchoData == ProtocolInv /\ DataInv /\ RecvEcho => DataInv'
<1> SUFFICES ASSUME ProtocolInv, DataInv, RecvEcho PROVE DataInv'
  OBVIOUS
<1>1. /\ TypeOK /\ pc[0] = "recvEcho" /\ indexer' = 0
      /\ \/ pc' = [pc EXCEPT ![0] = "sendDims"]
         \/ pc' = [pc EXCEPT ![0] = "sendArray"] /\ i' = 0
      /\ UNCHANGED <<height, mod_check, y_portions, Output, saved, slaveVars>>
  BY DEF ProtocolInv, RecvEcho, At, Goto
<1>2. /\ pc'[0] = "sendDims" \/ (pc'[0] = "sendArray" /\ i' = 0)
      /\ \A s \in Slaves : pc'[s] = pc[s]
  BY <1>1, RankFacts DEF TypeOK
<1>3. StripsInv'
  BY <1>1, <1>2, MasterStrips DEF DataInv
<1>4. QED
  BY <1>1, <1>2, <1>3 DEF DataInv, PortionsInv, IndexerInv, RowsInv, Gathered

\* Sending a strip keeps what the arrays hold (DataInv).
LEMMA SendArrayData == ProtocolInv /\ DataInv /\ SendArray => DataInv'
<1> SUFFICES ASSUME ProtocolInv, DataInv, SendArray PROVE DataInv'
  OBVIOUS
<1>1. /\ TypeOK /\ pc[0] = "sendArray" /\ pc' = [pc EXCEPT ![0] = "recvAck"]
      /\ i \in Strips /\ height \in Nat /\ height # 0 /\ indexer' = ScatterIndex
      /\ UNCHANGED <<height, i, mod_check, y_portions, Output, saved, slaveVars>>
  BY DEF ProtocolInv, IndexInRange, TypeOK, SendArray, At, Goto
<1>2. pc'[0] = "recvAck" /\ \A s \in Slaves : pc'[s] = pc[s]
  BY <1>1, RankFacts DEF TypeOK
<1>3. \A k \in Strips : y_portions[k] = PortionOf(height, k)
  BY <1>1 DEF DataInv, PortionsInv
<1>4. indexer = IF i = 0 THEN 0 ELSE FirstRow(height, i - 1)
  BY <1>1 DEF DataInv, IndexerInv
<1>5. indexer' = FirstRow(height, i)
  <2>1. CASE i = 0
    BY <1>1, <1>4, <2>1 DEF ScatterIndex, FirstRow
  <2>2. CASE i # 0
    <3>1. i > 0 /\ i - 1 \in Strips
      BY <1>1, <2>2, RankFacts
    <3>2. y_portions[i] > 0 /\ y_portions[i - 1] = PortionOf(height, i - 1)
      BY <1>1, <1>3, <3>1, PortionFacts
    <3>3. indexer' = NextStart(FirstRow(height, i - 1), PortionOf(height, i - 1))
      BY <1>1, <1>4, <2>2, <3>1, <3>2 DEF ScatterIndex
    <3>4. QED
      BY <1>1, <3>1, <3>3, NextStartValue
  <2>3. QED
    BY <2>1, <2>2
<1>6. StripsInv'
  BY <1>1, <1>2, MasterStrips DEF DataInv
<1>7. PortionsInv' /\ IndexerInv'
  BY <1>1, <1>2, <1>3, <1>5 DEF PortionsInv, IndexerInv
<1>8. RowsInv'
  BY <1>1, <1>2 DEF DataInv, RowsInv, Gathered
<1>9. QED
  BY <1>6, <1>7, <1>8 DEF DataInv

\* Receiving an acknowledgement keeps what the arrays hold (DataInv).
LEMMA RecvAckData == ProtocolInv /\ DataInv /\ RecvAck => DataInv'
<1> SUFFICES ASSUME ProtocolInv, DataInv, RecvAck PROVE DataInv'
  OBVIOUS
<1>1. /\ TypeOK /\ pc[0] = "recvAck" /\ i \in Strips /\ height \in Nat /\ height # 0
      /\ \/ pc' = [pc EXCEPT ![0] = "sendArray"] /\ i' = i + 1 /\ indexer' = indexer
         \/ pc' = [pc EXCEPT ![0] = "gather"] /\ i' = 1 /\ indexer' = 0
      /\ UNCHANGED <<height, mod_check, y_portions, Output, saved, slaveVars>>
  BY DEF ProtocolInv, IndexInRange, TypeOK, RecvAck, At, Goto
<1>2. /\ \/ pc'[0] = "sendArray" /\ i' = i + 1 /\ indexer' = indexer
         \/ pc'[0] = "gather" /\ i' = 1 /\ indexer' = 0
      /\ \A s \in Slaves : pc'[s] = pc[s]
  BY <1>1, RankFacts DEF TypeOK
<1>3. StripsInv'
  BY <1>1, <1>2, MasterStrips DEF DataInv
<1>4. IndexerInv'
  <2>1. indexer = FirstRow(height, i)
    BY <1>1 DEF DataInv, IndexerInv
  <2>2. i + 1 # 0 /\ (i + 1) - 1 = i
    BY <1>1, RankFacts
  <2>3. QED
    BY <1>1, <1>2, <2>1, <2>2 DEF IndexerInv
<1>5. RowsInv'
  <2>1. Gathered = 0
    BY <1>1 DEF Gathered
  <2>2. Gathered' = 0
    <3>1. CASE pc'[0] = "sendArray"
      BY <3>1 DEF Gathered
    <3>2. CASE pc'[0] = "gather" /\ i' = 1
      BY <1>1, <3>2, StartFacts DEF Gathered
    <3>3. QED
      BY <1>2, <3>1, <3>2
  <2>3. QED
    BY <1>1, <2>1, <2>2 DEF DataInv, RowsInv
<1>6. PortionsInv'
  BY <1>1, <1>2 DEF DataInv, PortionsInv
<1>7. QED
  BY <1>3, <1>4, <1>5, <1>6 DEF DataInv

\* Writing the image keeps what the arrays hold (DataInv).
LEMMA WriteImageData == ProtocolInv /\ DataInv /\ WriteImage => DataInv'
<1> SUFFICES ASSUME ProtocolInv, DataInv, WriteImage PROVE DataInv'
  OBVIOUS
<1>1. /\ TypeOK /\ pc[0] = "write" /\ pc' = [pc EXCEPT ![0] = "finalize"] /\ height # 0
      /\ UNCHANGED <<height, i, mod_check, y_portions, indexer, Output, slaveVars>>
  BY DEF ProtocolInv, IndexInRange, WriteImage, At, Goto
<1>2. pc'[0] = "finalize" /\ \A s \in Slaves : pc'[s] = pc[s]
  BY <1>1, RankFacts DEF TypeOK
<1>3. StripsInv'
  BY <1>1, <1>2, MasterStrips DEF DataInv
<1>4. QED
  BY <1>1, <1>2, <1>3 DEF DataInv, PortionsInv, IndexerInv, RowsInv, Gathered

\* The death of rank 0 keeps what the arrays hold (DataInv).
LEMMA MasterDiesData == ProtocolInv /\ DataInv /\ MasterDies => DataInv'
BY DEF MasterDies, DataInv, PortionsInv, IndexerInv, StripsInv, RowsInv, Gathered, Nonempty,
       StripOf, FilteredStripOf, masterVars, slaveVars

\* Of every strip as many rows are kept as it owns, from the first one it owns.
LEMMA KeptRows ==
  ASSUME NEW h \in Nat, NEW j \in Slaves, y_portions[j - 1] = PortionOf(h, j - 1)
  PROVE  /\ FirstKept(j) \in Nat
         /\ EndKept(j) = FirstKept(j) + (Start(h, j) - Start(h, j - 1))
         /\ FirstRow(h, j - 1) = Start(h, j - 1) - FirstKept(j)
         /\ Start(h, j - 1) \in Nat /\ Start(h, j) \in Nat /\ Start(h, j - 1) <= Start(h, j)
<1>1. j - 1 \in Strips /\ (j - 1) + 1 = j /\ j \in Int /\ j >= 1 /\ NumProcs - 1 = NumSlaves
  BY RankFacts
<1>2. /\ Start(h, j - 1) \in Nat /\ Start(h, j) \in Nat /\ Start(h, j - 1) <= Start(h, j)
      /\ y_portions[j - 1] = (Start(h, j) - Start(h, j - 1)) + Halo(j - 1)
  BY <1>1, PortionFacts
<1>3. FirstKept(j) = IF j = 1 THEN 0 ELSE Radius
  BY DEF FirstKept
<1>4. EndKept(j) = IF j > 1 /\ j = NumSlaves THEN y_portions[j - 1] ELSE y_portions[j - 1] - Radius
  BY <1>1 DEF EndKept
<1>5. Halo(j - 1) = IF j = NumSlaves \/ j = 1 THEN Radius ELSE 2 * Radius
  BY <1>1, RankFacts DEF Halo
<1>6. FirstRow(h, j - 1) = IF j = 1 THEN 0 ELSE Start(h, j - 1) - Radius
  BY <1>1 DEF FirstRow
<1>7. Start(h, 0) = 0
  BY StartFacts
<1>8. FirstKept(j) \in Nat /\ EndKept(j) = FirstKept(j) + (Start(h, j) - Start(h, j - 1))
  BY <1>1, <1>2, <1>3, <1>4, <1>5, RadiusFacts
<1>9. FirstRow(h, j - 1) = Start(h, j - 1) - FirstKept(j)
  BY <1>1, <1>2, <1>3, <1>6, <1>7, RadiusFacts
<1>10. QED
  BY <1>2, <1>8, <1>9

\* What the gather loop does with the strip of rank i.
LEMMA GatherFacts ==
  ASSUME ProtocolInv, DataInv, Gather
  PROVE  /\ TypeOK /\ pc[0] = "gather" /\ i \in Slaves /\ height \in Nat /\ height # 0
         /\ \/ i + 1 < NumProcs /\ i' = i + 1 /\ pc' = pc
            \/ i = NumSlaves /\ pc' = [pc EXCEPT ![0] = "write"]
         /\ indexer' = GatherIndex(i)
         /\ Output' = CopyRows(Received(i, 0), FirstKept(i), EndKept(i), indexer')
         /\ UNCHANGED <<height, mod_check, y_portions, saved, slaveVars>>
         /\ y_portions[i - 1] = PortionOf(height, i - 1)
         /\ Nonempty(i - 1) => indexer' = FirstRow(height, i - 1)
<1>1. /\ TypeOK /\ pc[0] = "gather" /\ i \in Slaves /\ height \in Nat /\ height # 0
      /\ indexer' = GatherIndex(i)
      /\ Output' = CopyRows(Received(i, 0), FirstKept(i), EndKept(i), GatherIndex(i))
      /\ UNCHANGED <<height, mod_check, y_portions, saved, slaveVars>>
  BY DEF ProtocolInv, IndexInRange, TypeOK, Gather, At
<1>2. \/ i + 1 < NumProcs /\ i' = i + 1 /\ pc' = pc
      \/ i = NumSlaves /\ pc' = [pc EXCEPT ![0] = "write"]
  <2>1. ~ (i + 1 < NumProcs) => i = NumSlaves
    BY <1>1, RankFacts
  <2>2. QED
    BY <2>1 DEF Gather, Goto
<1>3. \A k \in Strips : y_portions[k] = PortionOf(height, k)
  BY <1>1 DEF DataInv, PortionsInv
<1>4. i - 1 \in Strips /\ (i - 1) + 1 = i /\ i \in Int /\ i >= 1
  BY <1>1, RankFacts
<1>5. y_portions[i - 1] = PortionOf(height, i - 1)
  BY <1>3, <1>4
<1>6. ASSUME Nonempty(i - 1) PROVE indexer' = FirstRow(height, i - 1)
  <2>1. indexer = IF i = 1 THEN 0 ELSE FirstRow(height, i - 2)
    BY <1>1, <1>6 DEF DataInv, IndexerInv
  <2>2. CASE i = 1
    BY <1>1, <2>1, <2>2 DEF GatherIndex, FirstRow
  <2>3. CASE i # 1
    <3>1. i > 1 /\ i - 1 > 0 /\ i - 2 = (i - 1) - 1 /\ i - 2 \in Strips
      BY <1>1, <2>3, RankFacts
    <3>2. Start(height, i - 1) < Start(height, i)
      BY <1>4, <1>6 DEF Nonempty
    <3>3. FirstKept(i) < EndKept(i)
      <4>1. /\ FirstKept(i) \in Nat /\ Start(height, i - 1) \in Nat /\ Start(height, i) \in Nat
            /\ EndKept(i) = FirstKept(i) + (Start(height, i) - Start(height, i - 1))
        BY <1>1, <1>5, KeptRows
      <4>2. QED
        BY <3>2, <4>1
    <3>4. y_portions[i - 2] = PortionOf(height, i - 2)
      BY <1>3, <3>1
    <3>5. indexer' = NextStart(FirstRow(height, (i - 1) - 1), PortionOf(height, (i - 1) - 1))
      BY <1>1, <2>1, <2>3, <3>1, <3>3, <3>4 DEF GatherIndex
    <3>6. QED
      BY <1>1, <1>4, <3>1, <3>5, NextStartValue
  <2>4. QED
    BY <2>2, <2>3
<1>7. QED
  BY <1>1, <1>2, <1>5, <1>6

\* The rows that the gather loop writes are those that the strip owns.
LEMMA CopiedRows ==
  ASSUME ProtocolInv, DataInv, Gather
  PROVE  {y + indexer' : y \in FirstKept(i) .. EndKept(i) - 1}
           = Start(height, i - 1) .. Start(height, i) - 1
<1> DEFINE first == FirstKept(i)
           end == EndKept(i)
           a == Start(height, i - 1)
           b == Start(height, i)
           ix == indexer'
<1>1. /\ first \in Nat /\ a \in Nat /\ b \in Nat /\ a <= b /\ end = first + (b - a)
      /\ FirstRow(height, i - 1) = a - first
  BY GatherFacts, KeptRows
<1>2. a < b => ix = a - first
  <2>1. (i - 1) + 1 = i
    BY GatherFacts, RankFacts
  <2>2. a < b => Nonempty(i - 1)
    BY <2>1 DEF Nonempty
  <2>3. QED
    BY <1>1, <2>2, GatherFacts
<1> HIDE DEF first, end, a, b, ix
<1>3. CASE a < b
  <2>1. ix = a - first
    BY <1>2, <1>3
  <2>2. ASSUME NEW y \in first .. end - 1 PROVE y + ix \in a .. b - 1
    BY <1>1, <2>1
  <2>3. ASSUME NEW z \in a .. b - 1 PROVE \E y \in first .. end - 1 : z = y + ix
    <3>1. z - ix \in first .. end - 1 /\ z = (z - ix) + ix
      BY <1>1, <2>1
    <3>2. QED
      BY <3>1
  <2>4. QED
    BY <2>2, <2>3 DEF first, end, a, b, ix
<1>4. CASE ~ (a < b)
  <2>1. first .. end - 1 = {} /\ a .. b - 1 = {}
    BY <1>1, <1>4
  <2>2. QED
    BY <2>1 DEF first, end, a, b, ix
<1>5. QED
  BY <1>3, <1>4

\* Collecting a strip keeps what the arrays hold (DataInv).
LEMMA GatherData == ProtocolInv /\ DataInv /\ Gather => DataInv'
<1> SUFFICES ASSUME ProtocolInv, DataInv, Gather PROVE DataInv'
  OBVIOUS
<1> DEFINE a == Start(height, i - 1)
           b == Start(height, i)
           copied == {y + indexer' : y \in FirstKept(i) .. EndKept(i) - 1}
<1>1. /\ TypeOK /\ pc[0] = "gather" /\ i \in Slaves /\ height \in Nat /\ height # 0
      /\ UNCHANGED <<height, mod_check, y_portions, saved, slaveVars>>
      /\ Nonempty(i - 1) => indexer' = FirstRow(height, i - 1)
  BY GatherFacts
<1>2. /\ \/ i + 1 < NumProcs /\ i' = i + 1 /\ pc'[0] = "gather"
         \/ i = NumSlaves /\ pc'[0] = "write"
      /\ \A s \in Slaves : pc'[s] = pc[s]
  <2>1. \/ i + 1 < NumProcs /\ i' = i + 1 /\ pc' = pc
        \/ i = NumSlaves /\ pc' = [pc EXCEPT ![0] = "write"]
    BY GatherFacts
  <2>2. QED
    BY <1>1, <2>1, RankFacts DEF TypeOK
<1>3. StripsInv'
  BY <1>1, <1>2, MasterStrips DEF DataInv
<1>4. PortionsInv'
  BY <1>1, <1>2 DEF DataInv, PortionsInv
<1>5. IndexerInv'
  <2>1. CASE pc'[0] = "gather"
    <3>1. i' = i + 1 /\ i' - 1 = i /\ i' - 2 = i - 1 /\ i' # 1 /\ i \in Strips /\ i > 0
      BY <1>1, <1>2, <2>1, RankFacts
    <3>2. ASSUME Start(height, i) < Start(height, i + 1) PROVE indexer' = FirstRow(height, i - 1)
      <4>1. Start(height, i - 1) < Start(height, i) /\ (i - 1) + 1 = i
        BY <1>1, <3>1, <3>2, NonemptyBefore, RankFacts
      <4>2. QED
        BY <1>1, <4>1 DEF Nonempty
    <3>3. Nonempty(i - 1)' <=> Start(height, i) < Start(height, i + 1)
      BY <1>1, <3>1 DEF Nonempty
    <3>4. QED
      BY <1>1, <2>1, <3>1, <3>2, <3>3 DEF IndexerInv, Nonempty
  <2>2. CASE pc'[0] = "write"
    BY <2>2 DEF IndexerInv
  <2>3. QED
    BY <1>2, <2>1, <2>2
<1>6. RowsInv'
  <2>1. DOMAIN Output = 0 .. a - 1
    BY <1>1 DEF DataInv, RowsInv, Gathered
  <2>2. DOMAIN Output' = DOMAIN Output \union copied
    BY GatherFacts DEF CopyRows
  <2>3. copied = a .. b - 1
    BY CopiedRows
  <2>4. a \in Nat /\ b \in Nat /\ a <= b
    BY GatherFacts, KeptRows
  <2>5. DOMAIN Output' = 0 .. b - 1
    <3> HIDE DEF a, b, copied
    <3>1. QED
      BY <2>1, <2>2, <2>3, <2>4
  <2>6. Gathered' = b
    <3>1. CASE pc'[0] = "gather"
      <4>1. i' = i + 1 /\ i' - 1 = i
        BY <1>1, <1>2, <3>1, RankFacts
      <4>2. QED
        BY <1>1, <3>1, <4>1 DEF Gathered
    <3>2. CASE pc'[0] = "write"
      <4>1. i = NumSlaves
        BY <1>2, <3>2
      <4>2. b = height
        BY <1>1, <4>1, StartFacts
      <4>3. QED
        BY <1>1, <3>2, <4>2 DEF Gathered
    <3>3. QED
      BY <1>2, <3>1, <3>2
  <2>7. ~ saved'
    BY <1>1 DEF DataInv, RowsInv
  <2>8. QED
    BY <2>5, <2>6, <2>7 DEF RowsInv
<1>7. QED
  BY <1>3, <1>4, <1>5, <1>6 DEF DataInv

\* The steps of a slave that leave its arrays as they are.
LEMMA TalkData ==
  ASSUME NEW s \in Slaves, ProtocolInv, DataInv,
         RecvDims(s) \/ SendEcho(s) \/ SendAck(s) \/ SendResult(s)
  PROVE  DataInv'
<1>1. /\ TypeOK /\ UNCHANGED masterVars /\ UNCHANGED <<input_arr, out_arr>>
      /\ \/ pc[s] = "recvDims"   /\ pc' = [pc EXCEPT ![s] = "sendEcho"]
         \/ pc[s] = "sendEcho"   /\ pc' = [pc EXCEPT ![s] = "recvArray"]
         \/ pc[s] = "sendAck"    /\ pc' = [pc EXCEPT ![s] = "filter"]
         \/ pc[s] = "sendResult" /\ pc' = [pc EXCEPT ![s] = "finalize"]
  BY DEF ProtocolInv, RecvDims, SendEcho, SendAck, SendResult, At, Goto, slaveVars
<1>2. /\ \/ pc[s] = "recvDims"   /\ pc'[s] = "sendEcho"
         \/ pc[s] = "sendEcho"   /\ pc'[s] = "recvArray"
         \/ pc[s] = "sendAck"    /\ pc'[s] = "filter"
         \/ pc[s] = "sendResult" /\ pc'[s] = "finalize"
      /\ \A r \in Rank : r # s => pc'[r] = pc[r]
  BY <1>1, RankFacts DEF TypeOK
<1>3. PortionsInv' /\ IndexerInv' /\ RowsInv'
  BY <1>1, <1>2, SlaveData, RankFacts
<1>4. StripsInv'
  <2> SUFFICES ASSUME NEW t \in Slaves
               PROVE  /\ input_arr[t] = IF pc'[t] \in {"sendAck", "filter", "sendResult", "finalize"}
                                        THEN StripOf(t) ELSE NoRows
                      /\ pc'[t] \in {"sendResult", "finalize"} => out_arr[t] = FilteredStripOf(t)
    BY <1>1 DEF StripsInv, StripOf, FilteredStripOf, masterVars
  <2>1. StripsInv
    BY DEF DataInv
  <2>2. CASE t = s
    BY <1>2, <2>1, <2>2 DEF StripsInv
  <2>3. CASE t # s
    <3>1. pc'[t] = pc[t]
      BY <1>2, <2>3, RankFacts
    <3>2. QED
      BY <2>1, <3>1 DEF StripsInv
  <2>4. QED
    BY <2>2, <2>3
<1>5. QED
  BY <1>3, <1>4 DEF DataInv

\* Receiving the strip keeps what the arrays hold (DataInv).
LEMMA RecvArrayData ==
  ASSUME NEW s \in Slaves, ProtocolInv, DataInv, RecvArray(s)
  PROVE  DataInv'
<1>1. /\ TypeOK /\ UNCHANGED masterVars /\ out_arr' = out_arr /\ pc[s] = "recvArray"
      /\ chan[<<0, s>>] # <<>> /\ pc' = [pc EXCEPT ![s] = "sendAck"]
      /\ input_arr' = [input_arr EXCEPT ![s] = Head(chan[<<0, s>>]).data]
  BY DEF ProtocolInv, RecvArray, At, Goto, Recv, Received
<1>2. /\ pc'[s] = "sendAck" /\ \A r \in Rank : r # s => pc'[r] = pc[r]
      /\ input_arr'[s] = Head(chan[<<0, s>>]).data
      /\ \A t \in Slaves : t # s => input_arr'[t] = input_arr[t]
  BY <1>1, RankFacts DEF TypeOK
<1>3. Head(chan[<<0, s>>]).data = StripOf(s)
  <2>1. Stage(s) = "filling"
    BY <1>1, StageOf
  <2>2. Head(chan[<<0, s>>]) = ArrayMsg(s)
    <3>1. chan[<<0, s>>] = <<ArrayMsg(s)>>
      BY <1>1, <2>1 DEF ProtocolInv, Protocol, Filling, Where
    <3>2. QED
      BY <3>1, ShortQueues
  <2>3. pc[0] = "recvAck" /\ s = i + 1
    BY <2>1 DEF Stage
  <2>4. i \in Strips /\ i = s - 1 /\ height # 0
    BY <2>3, RankFacts DEF ProtocolInv, IndexInRange
  <2>5. indexer = FirstRow(height, s - 1) /\ y_portions[s - 1] = PortionOf(height, s - 1)
    BY <2>3, <2>4 DEF DataInv, IndexerInv, PortionsInv
  <2>6. QED
    BY <2>2, <2>5 DEF ArrayMsg, StripOf
<1>4. PortionsInv' /\ IndexerInv' /\ RowsInv'
  BY <1>1, <1>2, SlaveData, RankFacts
<1>5. StripsInv'
  <2> SUFFICES ASSUME NEW t \in Slaves
               PROVE  /\ input_arr'[t] = IF pc'[t] \in {"sendAck", "filter", "sendResult", "finalize"}
                                         THEN StripOf(t) ELSE NoRows
                      /\ pc'[t] \in {"sendResult", "finalize"} => out_arr[t] = FilteredStripOf(t)
    BY <1>1 DEF StripsInv, StripOf, FilteredStripOf, masterVars
  <2>1. CASE t = s
    BY <1>2, <1>3, <2>1
  <2>2. CASE t # s
    <3>1. pc'[t] = pc[t] /\ input_arr'[t] = input_arr[t]
      BY <1>2, <2>2, RankFacts
    <3>2. QED
      BY <3>1 DEF DataInv, StripsInv
  <2>3. QED
    BY <2>1, <2>2
<1>6. QED
  BY <1>4, <1>5 DEF DataInv

\* Filtering the strip keeps what the arrays hold (DataInv).
LEMMA FilterData ==
  ASSUME NEW s \in Slaves, ProtocolInv, DataInv, Filter(s)
  PROVE  DataInv'
<1>1. /\ TypeOK /\ UNCHANGED masterVars /\ input_arr' = input_arr /\ pc[s] = "filter"
      /\ pc' = [pc EXCEPT ![s] = "sendResult"]
      /\ out_arr' = [out_arr EXCEPT ![s] =
                       [y \in 0 .. dimensions[s] - 1 |->
                          FilterRow(input_arr[s], dimensions[s], y)]]
  BY DEF ProtocolInv, Filter, At, Goto
<1>2. /\ pc'[s] = "sendResult" /\ \A r \in Rank : r # s => pc'[r] = pc[r]
      /\ out_arr'[s] = [y \in 0 .. dimensions[s] - 1 |->
                          FilterRow(input_arr[s], dimensions[s], y)]
      /\ \A t \in Slaves : t # s => out_arr'[t] = out_arr[t]
  BY <1>1, RankFacts DEF TypeOK
<1>3. input_arr[s] = StripOf(s)
  BY <1>1 DEF DataInv, StripsInv
<1>4. out_arr'[s] = FilteredStripOf(s)
  <2>1. Stage(s) \in {"filling", "filled"}
    BY <1>1, StageOf
  <2>2. dimensions[s] = y_portions[s - 1]
    BY <2>1 DEF ProtocolInv, Protocol, Filling, Filled
  <2>3. pc[0] \notin {"read", "split"} /\ height # 0
    BY <2>1 DEF Stage, ProtocolInv, IndexInRange
  <2>4. y_portions[s - 1] = PortionOf(height, s - 1)
    BY <2>3, RankFacts DEF DataInv, PortionsInv
  <2>5. QED
    BY <1>2, <1>3, <2>2, <2>4 DEF FilteredStripOf
<1>5. PortionsInv' /\ IndexerInv' /\ RowsInv'
  BY <1>1, <1>2, SlaveData, RankFacts
<1>6. StripsInv'
  <2> SUFFICES ASSUME NEW t \in Slaves
               PROVE  /\ input_arr[t] = IF pc'[t] \in {"sendAck", "filter", "sendResult", "finalize"}
                                        THEN StripOf(t) ELSE NoRows
                      /\ pc'[t] \in {"sendResult", "finalize"} => out_arr'[t] = FilteredStripOf(t)
    BY <1>1 DEF StripsInv, StripOf, FilteredStripOf, masterVars
  <2>1. CASE t = s
    BY <1>2, <1>3, <1>4, <2>1
  <2>2. CASE t # s
    <3>1. pc'[t] = pc[t] /\ out_arr'[t] = out_arr[t]
      BY <1>2, <2>2, RankFacts
    <3>2. QED
      BY <3>1 DEF DataInv, StripsInv
  <2>3. QED
    BY <2>1, <2>2
<1>7. QED
  BY <1>5, <1>6 DEF DataInv

\* Every step keeps the messages under way and the ranks in agreement (ProtocolInv).
LEMMA DataStep == ProtocolInv /\ DataInv /\ [Next]_vars => DataInv'
<1> SUFFICES ASSUME ProtocolInv, DataInv, [Next]_vars PROVE DataInv'
  OBVIOUS
<1>1. CASE MasterStep
  BY <1>1, ReadImageData, ReadFailsData, SplitData, SendDimsData, RecvEchoData, SendArrayData,
     RecvAckData, GatherData, WriteImageData, MasterDiesData DEF MasterStep
<1>2. ASSUME NEW s \in Slaves, SlaveStep(s) PROVE DataInv'
  BY <1>2, TalkData, RecvArrayData, FilterData DEF SlaveStep
<1>3. CASE UNCHANGED vars
  BY <1>3 DEF DataInv, PortionsInv, IndexerInv, StripsInv, RowsInv, Gathered, Nonempty,
              StripOf, FilteredStripOf, vars, masterVars, slaveVars
<1>4. QED
  BY <1>1, <1>2, <1>3 DEF Next

-----------------------------------------------------------------------------
(***************************************************************************)
(* The theorems.                                                           *)
(***************************************************************************)

\* The strips, the loop indexes and the rows of the output image are those of
\* the partition that Start defines, in every reachable state.
THEOREM DataSafe == Spec => []DataInv
<1>1. QED
  BY DataInit, DataStep, ProtocolSafe, PTL DEF Spec

\* The scatter loop never reads a row outside the image when every slave owns
\* more than Radius rows.
THEOREM StripsInside == Spec => []StripsInsideImage
<1>1. ProtocolInv /\ DataInv => StripsInsideImage
  <2> SUFFICES ASSUME ProtocolInv, DataInv, WellSized(height), NEW s \in Slaves,
                      NEW k \in DOMAIN input_arr[s]
               PROVE  input_arr[s][k] # OutOfBounds
    BY DEF StripsInsideImage
  <2>1. input_arr[s] = StripOf(s) \/ input_arr[s] = NoRows
    BY DEF DataInv, StripsInv
  <2>2. input_arr[s] = StripOf(s)
    BY <2>1 DEF NoRows
  <2> DEFINE first == FirstRow(height, s - 1)
             n == PortionOf(height, s - 1)
  <2>3. height \in Nat /\ s - 1 \in Strips
    BY RankFacts DEF ProtocolInv, TypeOK
  <2>4. first \in Nat /\ n \in Nat /\ first + n <= height
    BY <2>3, StripBounds
  <2>5. k \in 0 .. n - 1 /\ input_arr[s][k] = IF first + k \in 0 .. height - 1 THEN first + k ELSE OutOfBounds
    BY <2>2 DEF StripOf, Strip
  <2> HIDE DEF first, n
  <2>6. QED
    BY <2>3, <2>4, <2>5 DEF OutOfBounds
<1>2. QED
  BY <1>1, ProtocolSafe, DataSafe, PTL

\* Every row of the image that is written has been filtered, and no row outside
\* it is ever assigned, for images of any height.
THEOREM CompleteImage == Spec => []ImageComplete
<1>1. ProtocolInv /\ DataInv => ImageComplete
  <2> SUFFICES ASSUME ProtocolInv, DataInv PROVE ImageComplete
    OBVIOUS
  <2>1. height \in Nat /\ Gathered \in Nat /\ Gathered <= height
    <3>1. height \in Nat
      BY DEF ProtocolInv, TypeOK
    <3>2. CASE pc[0] = "gather"
      <4>1. i - 1 \in 0 .. NumSlaves /\ NumSlaves \in 0 .. NumSlaves /\ i - 1 <= NumSlaves
        BY <3>2, RankFacts DEF ProtocolInv, IndexInRange
      <4>2. Start(height, i - 1) \in Nat /\ Start(height, i - 1) <= height
        BY <3>1, <4>1, StartFacts, StartMonotone
      <4>3. QED
        BY <3>1, <3>2, <4>2 DEF Gathered
    <3>3. CASE pc[0] # "gather"
      BY <3>1, <3>3 DEF Gathered
    <3>4. QED
      BY <3>2, <3>3
  <2>2. DOMAIN Output = 0 .. Gathered - 1 /\ (saved => pc[0] = "finalize")
    BY DEF DataInv, RowsInv
  <2>3. DOMAIN Output \subseteq 0 .. height - 1
    BY <2>1, <2>2
  <2>4. pc[0] = "write" \/ saved => DOMAIN Output = 0 .. height - 1
    BY <2>2 DEF Gathered
  <2>5. QED
    BY <2>3, <2>4 DEF ImageComplete
<1>2. QED
  BY <1>1, ProtocolSafe, DataSafe, PTL

\* What Master copies from the strip of rank i is, row by row, the filter
\* applied to the whole image.
LEMMA GatheredRows ==
  ASSUME ProtocolInv, DataInv, Gather, WellSized(height)
  PROVE  Output' = [y \in DOMAIN Output \union (Start(height, i - 1) .. Start(height, i) - 1) |->
                      IF y \in Start(height, i - 1) .. Start(height, i) - 1
                      THEN FilterRow(Image(height), height, y) ELSE Output[y]]
<1> DEFINE a == Start(height, i - 1)
           b == Start(height, i)
           n == PortionOf(height, i - 1)
           first == FirstRow(height, i - 1)
           kept == FirstKept(i)
           array == Received(i, 0)
<1>1. /\ i \in Slaves /\ height \in Nat /\ y_portions[i - 1] = n
      /\ pc[0] = "gather" /\ height # 0
      /\ Nonempty(i - 1) => indexer' = first
  BY GatherFacts
<1>2. /\ kept \in Nat /\ a \in Nat /\ b \in Nat /\ a <= b
      /\ EndKept(i) = kept + (b - a) /\ first = a - kept
  BY <1>1, KeptRows
<1>3. i - 1 \in Strips /\ (i - 1) + 1 = i /\ i \in Int /\ i >= 1 /\ NumProcs - 1 = NumSlaves
  BY <1>1, RankFacts
<1>4. array = FilteredStripOf(i)
  <2>1. Filled(i) /\ chan[<<i, 0>>] # <<>>
    <3>1. Stage(i) = "filled"
      BY <1>1, <1>3 DEF Stage
    <3>2. chan[<<i, 0>>] # <<>>
      BY DEF Gather, Recv
    <3>3. QED
      BY <1>1, <3>1, <3>2 DEF ProtocolInv, Protocol
  <2>2. pc[i] = "finalize" /\ chan[<<i, 0>>] = <<ResultMsg(i)>>
    BY <2>1 DEF Filled, Where
  <2>3. Head(chan[<<i, 0>>]).data = out_arr[i]
    BY <2>2, ShortQueues DEF ResultMsg
  <2>4. out_arr[i] = FilteredStripOf(i)
    BY <1>1, <2>2 DEF DataInv, StripsInv
  <2>5. QED
    BY <2>3, <2>4 DEF Received
<1>5. ASSUME NEW y \in a .. b - 1
      PROVE  /\ y - indexer' \in DOMAIN array
             /\ array[y - indexer'] = FilterRow(Image(height), height, y)
  <2> DEFINE z == y - first
  <2>1. indexer' = first
    BY <1>1, <1>2, <1>3, <1>5 DEF Nonempty
  <2>2. n \in Nat /\ n >= WindowY /\ Radius \in Nat /\ first \in Nat
    BY <1>1, <1>3, StripBounds, RadiusFacts
  <2>3. /\ i - 1 > 0 => kept = Radius
        /\ EndKept(i) = IF i > 1 /\ i = NumSlaves THEN n ELSE n - Radius
    BY <1>1, <1>3 DEF FirstKept, EndKept
  <2>4. EndKept(i) <= n
    BY <2>2, <2>3
  <2>5. z \in kept .. EndKept(i) - 1 /\ first + z = y
    <3> HIDE DEF a, b, first, kept
    <3>1. QED
      BY <1>2, <2>2
  <2>6. z \in 0 .. n - 1
    <3> HIDE DEF a, b, first, kept, n, z
    <3>1. QED
      BY <1>2, <2>2, <2>3, <2>4, <2>5
  <2>7. i - 1 > 0 => z >= Radius
    <3> HIDE DEF first, kept, n, z
    <3>1. QED
      BY <1>2, <2>3, <2>5
  <2>8. (i - 1 = 0 \/ i - 1 < NumSlaves - 1) => z < n - Radius
    <3> HIDE DEF first, kept, n, z
    <3>1. (i - 1 = 0 \/ i - 1 < NumSlaves - 1) => EndKept(i) = n - Radius
      BY <1>3, <2>3, RankFacts
    <3>2. QED
      BY <1>2, <2>2, <2>5, <3>1
  <2>9. FilterRow(Strip(height, first, n), n, z) = FilterRow(Image(height), height, first + z)
    BY <1>1, <1>3, <2>6, <2>7, <2>8, WindowInStrip
  <2>10. z \in DOMAIN FilteredStripOf(i) /\ FilteredStripOf(i)[z] = FilterRow(Strip(height, first, n), n, z)
    BY <2>6 DEF FilteredStripOf, StripOf
  <2>11. QED
    BY <1>4, <2>1, <2>5, <2>9, <2>10
<1>6. Output' = CopyRows(array, kept, EndKept(i), indexer')
  BY GatherFacts
<1>7. {y + indexer' : y \in kept .. EndKept(i) - 1} = a .. b - 1
  BY CopiedRows
<1> HIDE DEF a, b, kept, array
<1>8. QED
  BY <1>5, <1>6, <1>7 DEF CopyRows, a, b

\* No row of Output is there initially.
LEMMA InvisibleInit == Init => PartitionInvisible
BY DEF Init, NoRows, PartitionInvisible

\* Only Gather adds rows to Output, and only rows filtered as in the whole image.
LEMMA InvisibleStep ==
  ProtocolInv /\ DataInv /\ PartitionInvisible /\ [Next]_vars => PartitionInvisible'
<1> SUFFICES ASSUME ProtocolInv, DataInv, PartitionInvisible, [Next]_vars
             PROVE  PartitionInvisible'
  OBVIOUS
<1>1. CASE Gather
  <2> SUFFICES ASSUME WellSized(height), NEW y \in DOMAIN Output'
               PROVE  Output'[y] = FilterRow(Image(height), height, y)
    BY <1>1, GatherFacts DEF PartitionInvisible
  <2>1. QED
    BY <1>1, GatheredRows DEF PartitionInvisible
<1>2. CASE ReadImage
  <2>1. DOMAIN Output' = {}
    BY <1>2 DEF ReadImage, At, DataInv, RowsInv, Gathered
  <2>2. QED
    BY <2>1 DEF PartitionInvisible
<1>3. CASE UNCHANGED <<height, Output>>
  BY <1>3 DEF PartitionInvisible
<1>4. Gather \/ ReadImage \/ UNCHANGED <<height, Output>>
  BY DEF Next, MasterStep, SlaveStep, ReadFails, Split, SendDims, RecvEcho, SendArray, RecvAck,
         WriteImage, MasterDies, RecvDims, SendEcho, RecvArray, SendAck, Filter, SendResult,
         vars, masterVars
<1>5. QED
  BY <1>1, <1>2, <1>3, <1>4

\* Each row of the output is the filter applied to the whole image: where it
\* was cut does not show.
THEOREM InvisiblePartition == Spec => []PartitionInvisible
<1>1. QED
  BY InvisibleInit, InvisibleStep, ProtocolSafe, DataSafe, PTL DEF Spec

-----------------------------------------------------------------------------
(***************************************************************************)
(* The program implements RowFilter.                                       *)
(***************************************************************************)

\* RowFilter filters with the window of Slave().
LEMMA SameFilter ==
  \A h, y : Filtered!FilterRow(Filtered!Image(h), h, y) = FilterRow(Image(h), h, y)
BY DEF Filtered!FilterRow, Filtered!Image, Filtered!Cell, Filtered!EdgeRow, Filtered!Window,
       Filtered!Radius, Filtered!OutOfBounds, FilterRow, Image, Cell, EdgeRow, Window, Radius,
       OutOfBounds

\* The initial states agree.
LEMMA RefinedInit == Init => Filtered!Init
BY RankFacts DEF Init, MPIInit, NoRows, OutOfBounds, Filtered!Init, Filtered!OutOfBounds, Phase

\* Every step is a step of RowFilter or leaves its variables unchanged.
LEMMA RefinedStep ==
  ASSUME ProtocolInv, ProtocolInv', DataInv, [Next]_vars, height # 0 => height \in Heights
  PROVE  [Filtered!Next]_<<height, Output, Phase>>
<1> USE DEF Phase
<1>1. job # "mpi_error" /\ job' # "mpi_error"
  BY DEF ProtocolInv, NoMPIError
<1>2. saved => pc[0] = "finalize"
  BY DEF DataInv, RowsInv
<1>3. CASE ReadImage
  <2>1. Filtered!Load
    BY <1>2, <1>3, RankFacts DEF ReadImage, At, Running, Goto, mpiVars, Filtered!Load, ProtocolInv, TypeOK
  <2>2. QED
    BY <2>1 DEF Filtered!Next
<1>4. CASE ReadFails
  <2>1. Filtered!GiveUp
    BY <1>2, <1>4, RankFacts DEF ReadFails, At, Running, Goto, mpiVars, masterVars, Filtered!GiveUp, ProtocolInv, TypeOK
  <2>2. QED
    BY <2>1 DEF Filtered!Next
<1>5. CASE MasterDies
  <2>1. Filtered!GiveUp
    BY <1>2, <1>5 DEF MasterDies, At, Running, masterVars, Filtered!GiveUp
  <2>2. QED
    BY <2>1 DEF Filtered!Next
<1>6. CASE WriteImage
  <2>1. CASE saved'
    <3>1. DOMAIN Output = 0 .. height - 1
      BY <1>6 DEF WriteImage, At, DataInv, RowsInv, Gathered
    <3>2. Filtered!Save
      BY <1>2, <1>6, <2>1, <3>1 DEF WriteImage, At, Running, Filtered!Save
    <3>3. QED
      BY <3>2 DEF Filtered!Next
  <2>2. CASE ~ saved'
    <3>1. Filtered!GiveUp
      BY <1>2, <1>6, <2>2, RankFacts DEF WriteImage, At, Running, Goto, mpiVars, Filtered!GiveUp, ProtocolInv, TypeOK
    <3>2. QED
      BY <3>1 DEF Filtered!Next
  <2>3. QED
    BY <2>1, <2>2
<1>7. CASE Gather
  <2> DEFINE new == Start(height, i - 1) .. Start(height, i) - 1
  <2>1. UNCHANGED <<height, saved>> /\ pc[0] = "gather"
        /\ height \in Nat /\ i \in Slaves /\ TypeOK
        /\ (pc' = pc \/ pc' = [pc EXCEPT ![0] = "write"])
    BY <1>7, GatherFacts
  <2>2. DOMAIN Output = 0 .. Start(height, i - 1) - 1
    BY <2>1 DEF DataInv, RowsInv, Gathered
  <2>3. Start(height, i - 1) \in Nat /\ Start(height, i) \in Nat /\ Start(height, i) <= height
    <3>1. i - 1 \in 0 .. NumSlaves /\ i \in 0 .. NumSlaves /\ i <= NumSlaves
      BY <2>1, RankFacts
    <3>2. Start(height, i - 1) \in Nat /\ Start(height, i) \in Nat
      BY <2>1, <3>1, StartFacts
    <3>3. i <= i /\ i \in Int
      BY <2>1, RankFacts
    <3>4. Start(height, i) <= height
      BY <2>1, <3>1, <3>3, StartFacts, StartMonotone
    <3>5. QED
      BY <3>2, <3>4
  <2>4. new \in SUBSET (0 .. height - 1 \ DOMAIN Output)
    BY <2>1, <2>2, <2>3
  <2>5. /\ DOMAIN Output' = DOMAIN Output \union new
        /\ \A y \in DOMAIN Output : Output'[y] = Output[y]
    <3>1. /\ Output' = CopyRows(Received(i, 0), FirstKept(i), EndKept(i), indexer')
          /\ {y + indexer' : y \in FirstKept(i) .. EndKept(i) - 1} = new
      BY <1>7, GatherFacts, CopiedRows
    <3>2. new \intersect DOMAIN Output = {}
      BY <2>4
    <3> HIDE DEF new
    <3>3. QED
      BY <3>1, <3>2 DEF CopyRows
  <2>6. height \in {h \in Heights : WellSized(h)} =>
          \A y \in new : Output'[y] = FilterRow(Image(height), height, y)
    <3>1. SUFFICES ASSUME WellSized(height)
                   PROVE  \A y \in new : Output'[y] = FilterRow(Image(height), height, y)
      OBVIOUS
    <3>2. Output' = [y \in DOMAIN Output \union new |->
                       IF y \in new THEN FilterRow(Image(height), height, y) ELSE Output[y]]
      BY <1>7, <3>1, GatheredRows
    <3> HIDE DEF new
    <3>3. QED
      BY <3>2
  <2>7. /\ job = "running" /\ job' = "running" /\ ~ saved
        /\ pc'[0] \notin {"read", "finalize"}
    <3>1. job = "running" /\ job' \in {"running", "mpi_error"}
      BY <1>7 DEF Gather, At, Running, Recv
    <3>2. QED
      BY <1>1, <1>2, <2>1, <3>1, RankFacts DEF TypeOK
  <2>8. Phase = "filter" /\ Phase' = "filter"
    BY <2>1, <2>7
  <2> HIDE DEF new
  <2>9. Filtered!FilterRows(new)
    BY <2>1, <2>5, <2>6, <2>8, SameFilter DEF Filtered!FilterRows
  <2>10. QED
    BY <2>4, <2>9 DEF Filtered!Next
<1>8. CASE Split \/ SendDims \/ RecvEcho \/ SendArray \/ RecvAck
  <2>1. /\ UNCHANGED <<height, Output, saved>> /\ job = "running" /\ job' \in {"running", "mpi_error"}
        /\ pc[0] \notin {"read", "finalize"}
    BY <1>8 DEF Split, SendDims, RecvEcho, SendArray, RecvAck, At, Running, Send, Recv, masterVars, mpiVars
  <2>2. pc'[0] \notin {"read", "finalize"}
    <3>1. DOMAIN pc = Rank /\ 0 \in Rank
      BY RankFacts DEF ProtocolInv, TypeOK
    <3>2. \/ pc' = pc
          \/ \E label \in {"sendDims", "recvEcho", "sendArray", "recvAck", "gather"} :
               pc' = [pc EXCEPT ![0] = label]
      BY <1>8 DEF Split, SendDims, RecvEcho, SendArray, RecvAck, Goto
    <3>3. QED
      BY <2>1, <3>1, <3>2
  <2>3. QED
    BY <1>1, <2>1, <2>2
<1>9. ASSUME NEW s \in Slaves, SlaveStep(s) PROVE UNCHANGED <<height, Output, Phase>>
  <2>1. /\ UNCHANGED <<height, Output, saved>> /\ job = "running" /\ job' \in {"running", "mpi_error"}
    BY <1>9 DEF SlaveStep, RecvDims, SendEcho, RecvArray, SendAck, Filter, SendResult, At, Running,
                Send, Recv, masterVars, mpiVars
  <2>2. pc'[0] = pc[0]
    BY <1>9, RankFacts DEF SlaveStep, RecvDims, SendEcho, RecvArray, SendAck, Filter, SendResult, Goto,
                           ProtocolInv, TypeOK
  <2>3. QED
    BY <1>1, <2>1, <2>2
<1>10. CASE UNCHANGED vars
  BY <1>10 DEF vars, masterVars, mpiVars
<1>11. QED
  BY <1>3, <1>4, <1>5, <1>6, <1>7, <1>8, <1>9, <1>10 DEF Next, MasterStep

\* The image read is one of those that exist.
HeightRead == height # 0 => height \in Heights

\* No image is read initially.
LEMMA HeightReadInit == Init => HeightRead
BY DEF Init, HeightRead

\* Only ReadImage sets the height.
LEMMA HeightReadStep == HeightRead /\ [Next]_vars => HeightRead'
<1>1. (\E h \in Heights : height' = h) \/ height' = height \/ ~ [Next]_vars
  BY DEF Next, MasterStep, SlaveStep, ReadImage, ReadFails, Split, SendDims, RecvEcho, SendArray,
         RecvAck, Gather, WriteImage, MasterDies, RecvDims, SendEcho, RecvArray, SendAck, Filter,
         SendResult, vars, masterVars
<1>2. QED
  BY <1>1 DEF HeightRead

\* Cutting the image, sending the strips around, filtering them in parallel and
\* putting them together again implements filtering the image as a whole, row by
\* row for images of which every slave owns more than Radius rows, and with all
\* rows there for every image.
THEOREM Refinement == Spec => ImplementsRowFilter
<1>1. ProtocolInv /\ ProtocolInv' /\ DataInv /\ HeightRead /\ [Next]_vars
        => [Filtered!Next]_Filtered!rfVars
  BY RefinedStep DEF HeightRead, Filtered!rfVars
<1>2. Spec => []HeightRead
  BY HeightReadInit, HeightReadStep, PTL DEF Spec
<1>3. QED
  BY <1>1, <1>2, RefinedInit, ProtocolSafe, DataSafe, PTL DEF Spec, ImplementsRowFilter, Filtered!Spec
=============================================================================
