------------------------------- MODULE MCStreams -------------------------------
(***************************************************************************)
(* Two of the streams below the server: a behaviour is one of the embedded *)
(* serial stream (this module extends it) and its interrupts, or of the    *)
(* TCP stream and its threads.                                             *)
(***************************************************************************)
EXTENDS EmbeddedSerial

CONSTANTS Clients, NoClient, MaxFailures

VARIABLES
  stream,  \* what the behaviour is one of
  keepListening, listening, clientSocket, polling, newClient, clientThread, reader,
  owner, closer, quitter, undefined, host, failures

tcpVars == <<keepListening, listening, clientSocket, polling, newClient, clientThread, reader,
             owner, closer, quitter, undefined, host, failures>>

Tcp == INSTANCE StreamTcp

ASSUME InputAssumption == Tcp!ClientsAssumption

allVars == <<vars, stream, tcpVars>>

MCInit ==
  /\ Init /\ Tcp!Init
  /\ stream \in {"serial", "tcp"}

MCNext ==
  /\ UNCHANGED stream
  /\ \/ stream = "serial" /\ Next /\ UNCHANGED tcpVars
     \/ stream = "tcp" /\ Tcp!Next /\ UNCHANGED vars

\* The fairness of each stream, while it is the one that runs.
MCSpec ==
  /\ MCInit /\ [][MCNext]_allVars
  /\ WF_vars(stream = "serial" /\ FinishWrite) /\ WF_vars(stream = "serial" /\ Read)
  /\ WF_vars(stream = "serial" /\ UdreInterrupt) /\ WF_vars(stream = "serial" /\ Transmit)
  /\ WF_tcpVars(stream = "tcp" /\ Tcp!Poll) /\ WF_tcpVars(stream = "tcp" /\ Tcp!Join)
  /\ WF_tcpVars(stream = "tcp" /\ Tcp!Close)
  /\ \A c \in Clients :
       /\ WF_tcpVars(stream = "tcp" /\ Tcp!Read(c))
       /\ WF_tcpVars(stream = "tcp" /\ host[c] = "finished" /\ Tcp!Disconnect(c))

-----------------------------------------------------------------------------
\* The types of both streams.
TypesOK == TypeOK /\ Tcp!TypeOK

\* Serial: what is buffered moves on (sq_stream_embedded_serial.c:138-182).
BufferedMovesOn == stream = "serial" => BuffersDrain

\* TCP: one reader at a time, and nobody is refused (sq_stream_tcp.c:158-181).
OneAtATime == Tcp!OneAtATime

\* TCP: a freed stream has no thread left (sq_stream_tcp.c:177-181, 199-215).
FreedIsUnused == Tcp!FreedIsUnused

\* TCP: a client that waits is served (sq_stream_tcp.c:156-182).
WaitingIsServed == Tcp!WaitingIsServed

\* TCP: closing a stream ends (sq_stream_tcp.c:199-215).
CloseEnds == Tcp!CloseEnds

=============================================================================
