-------------------------------- MODULE MPI --------------------------------
(***************************************************************************)
(* The part of MPI that Prac3.cpp uses: blocking standard-mode MPI_Send    *)
(* and MPI_Recv between named ranks on one communicator with one tag.      *)
(* The library is not in the repository; it is modelled from the calls.    *)
(*                                                                         *)
(* Messages between two ranks are delivered once and in order.  A send may *)
(* be buffered (the caller goes on) or not (the caller stays in MPI_Send   *)
(* until its message is taken): MPI leaves the choice to the library, so   *)
(* it is free here.  A message that does not fit the posted receive is     *)
(* fatal: MPI_ERRORS_ARE_FATAL is the default handler.                     *)
(***************************************************************************)
EXTENDS Integers, Sequences

CONSTANT Rank      \* the ranks of MPI_COMM_WORLD

VARIABLES
  chan,      \* chan[<<p, q>>]: messages sent by p to q and not yet received
  blocked,   \* the pairs <<p, q>> such that p is inside an unbuffered MPI_Send to q
  job        \* "running", or why mpirun took the whole job down

MPIInit ==
  /\ chan = [pq \in Rank \X Rank |-> <<>>]
  /\ blocked = {}
  /\ job = "running"

\* Rank p can execute its next statement.
Running(p) ==
  /\ job = "running"
  /\ \A q \in Rank : <<p, q>> \notin blocked

\* MPI_Send(data, count, type, q, TAG, MPI_COMM_WORLD) by p.
Send(p, q, type, count, data) ==
  /\ chan' = [chan EXCEPT ![<<p, q>>] = Append(@, [type |-> type, count |-> count, data |-> data])]
  /\ blocked' \in {blocked, blocked \union {<<p, q>>}}
  /\ UNCHANGED job

\* The message fits a receive posted for count elements of the type.
Matches(msg, type, count) == msg.type = type /\ msg.count <= count

\* MPI_Recv(buf, count, type, p, TAG, MPI_COMM_WORLD, &stat) by q.
Recv(p, q, type, count) ==
  /\ chan[<<p, q>>] # <<>>
  /\ chan' = [chan EXCEPT ![<<p, q>>] = Tail(@)]
  /\ blocked' = IF Tail(chan[<<p, q>>]) = <<>> THEN blocked \ {<<p, q>>} ELSE blocked
  /\ job' = IF Matches(Head(chan[<<p, q>>]), type, count) THEN job ELSE "mpi_error"

\* What that receive puts into the buffer of q.
Received(p, q) == Head(chan[<<p, q>>]).data
=============================================================================
