----------------------------- MODULE StreamOutput -----------------------------
(***************************************************************************)
(* What reaches a TCP client: the output buffer and the write lock of      *)
(* server/c/src/sq_stream_tcp.c, under the reader thread that answers      *)
(* requests (sq_protocol.c, automation_functions.c) and the application    *)
(* threads that call the generated update functions of a monitor.          *)
(*                                                                         *)
(* A message is its bytes <<writer, number, i>>; the last one is the       *)
(* newline.  The reader's requests are ENABLE and DISABLE of the monitor,  *)
(* and any other.                                                          *)
(***************************************************************************)
EXTENDS Naturals, Sequences, SequencesExt

CONSTANTS
  BufferSize,      \* SQ_STREAM_OUTPUT_BUFFER_SIZE
  Padding,         \* bytes between m_outputBuffer and m_outputBufferPosition
  Apps,            \* the application threads
  Reader,          \* the reader thread
  MaxClients,      \* bound: the clients that connect, one after the other
  ResponseLength,  \* bytes of a response
  UpdateLength,    \* bytes of an update
  MaxMessages      \* bound: messages of one writer

Clients  == 1 .. MaxClients
NoClient == 0
NoWriter == "nobody"
Writers  == Apps \cup {Reader}

ASSUME OutputAssumption ==
  /\ BufferSize \in Nat \ {0} /\ Padding \in Nat
  /\ IsFiniteSet(Apps) /\ Reader \notin Apps /\ NoWriter \notin Writers
  /\ MaxClients \in Nat
  /\ ResponseLength \in Nat \ {0} /\ UpdateLength \in Nat \ {0}
  /\ MaxMessages \in Nat

VARIABLES
  client,        \* m_clientSocket
  last,          \* the client that connected last
  connected,     \* its connection is up
  wire,          \* the bytes each client has been sent
  buffer,        \* m_outputBuffer up to m_outputBufferPosition
  lock,          \* who holds m_writeLock
  pc,            \* where each writer is
  message,       \* the number of each writer's current or last message
  next,          \* the byte of it each writer stores next
  request,       \* the request the reader is answering
  monitorState,  \* monitor_state of the one monitor
  intended,      \* history: the bytes of the messages begun for each client, in
                 \* the order the lock was taken
  spoiled,       \* history: clients that connected in the middle of a message
  failed,        \* history: clients for which a send has failed or taken a part
  enabled,       \* history: the response to an ENABLE has been written
  late           \* history: updates begun since the monitor was disabled

netVars == <<client, last, connected, spoiled>>
bufferVars == <<buffer, wire, failed>>
writerVars == <<lock, message, next, intended>>
monitorVars == <<request, monitorState, enabled, late>>
vars == <<netVars, bufferVars, writerVars, monitorVars, pc>>

Length(w) == IF w = Reader THEN ResponseLength ELSE UpdateLength
Bytes(w, n) == [i \in 1 .. Length(w) |-> <<w, n, i>>]
AnyByte == Writers \X (1 .. MaxMessages) \X (1 .. ResponseLength + UpdateLength)
Requests == {"none", "enable", "disable", "other"}

\* The type of the variables; until a send fails the buffer is not overrun.
TypeOK ==
  /\ client \in Clients \cup {NoClient}
  /\ last \in Clients \cup {NoClient}
  /\ connected \in BOOLEAN
  /\ wire \in [Clients -> Seq(AnyByte)]
  /\ buffer \in Seq(AnyByte) /\ Len(buffer) <= BufferSize + Padding
  /\ lock \in Writers \cup {NoWriter}
  /\ pc \in [Writers -> {"idle", "enter", "write", "flushFull", "exit", "setState"}]
  /\ message \in [Writers -> 0 .. MaxMessages]
  /\ next \in [Writers -> 1 .. ResponseLength + UpdateLength + 1]
  /\ request \in Requests
  /\ monitorState \in BOOLEAN
  /\ intended \in [Clients -> Seq(AnyByte)]
  /\ spoiled \subseteq Clients
  /\ failed \subseteq Clients \cup {NoClient}
  /\ enabled \in BOOLEAN
  /\ late \in Nat
  /\ failed = {} => Len(buffer) <= BufferSize

Init ==
  /\ client = NoClient
  /\ last = NoClient
  /\ connected = FALSE
  /\ wire = [c \in Clients |-> << >>]
  /\ buffer = << >>
  /\ lock = NoWriter
  /\ pc = [w \in Writers |-> "idle"]
  /\ message = [w \in Writers |-> 0]
  /\ next = [w \in Writers |-> 1]
  /\ request = "none"
  /\ monitorState = FALSE
  /\ intended = [c \in Clients |-> << >>]
  /\ spoiled = {}
  /\ failed = {}
  /\ enabled = FALSE
  /\ late = 0

Goes(w, from, to) == pc[w] = from /\ pc' = [pc EXCEPT ![w] = to]

-----------------------------------------------------------------------------
(* The connection: StreamTcp has the threads behind these two steps.        *)

\* The reader of the last client has ended before the next one is accepted.
Connect ==
  /\ client = NoClient /\ last < MaxClients
  /\ last' = last + 1
  /\ client' = last'
  /\ connected' = TRUE
  /\ spoiled' = IF buffer # << >> \/ lock # NoWriter THEN spoiled \cup {last'} ELSE spoiled
  /\ UNCHANGED <<bufferVars, writerVars, monitorVars, pc>>

\* The host goes away at any time, and the server does not know yet.
HangUp ==
  /\ connected
  /\ connected' = FALSE
  /\ UNCHANGED <<client, last, spoiled, bufferVars, writerVars, monitorVars, pc>>

\* The reader, back in recv, notices and sets m_clientSocket to SOCKET_ERROR.
ClearSocket ==
  /\ client # NoClient /\ ~connected
  /\ pc[Reader] = "idle"
  /\ client' = NoClient
  /\ UNCHANGED <<last, connected, spoiled, bufferVars, writerVars, monitorVars, pc>>

-----------------------------------------------------------------------------
(* One message: sq_stream_enter_write, the bytes, sq_stream_exit_write.     *)

\* Mutant of StartResponse: the state is set before the response is written.
StartResponseEarly(r) ==
  /\ connected
  /\ message[Reader] < MaxMessages
  /\ Goes(Reader, "idle", "enter")
  /\ request' = r
  /\ monitorState' = IF r = "enable" THEN TRUE ELSE monitorState
  /\ UNCHANGED <<netVars, bufferVars, writerVars, enabled, late>>

\* A request comes in and the reader goes on to write its response.
StartResponse(r) ==
  /\ connected
  /\ message[Reader] < MaxMessages
  /\ Goes(Reader, "idle", "enter")
  /\ request' = r
  /\ UNCHANGED <<netVars, bufferVars, writerVars, monitorState, enabled, late>>

\* The update function looks at monitor_state before it takes the lock.
StartUpdate(w) ==
  /\ monitorState
  /\ message[w] < MaxMessages
  /\ Goes(w, "idle", "enter")
  /\ UNCHANGED <<netVars, bufferVars, writerVars, monitorVars>>

\* Mutant of EnterWrite: the lock is not waited for.
EnterWriteAtOnce(w) ==
  /\ Goes(w, "enter", "write")
  /\ lock' = w
  /\ message' = [message EXCEPT ![w] = @ + 1]
  /\ next' = [next EXCEPT ![w] = 1]
  /\ intended' = [c \in Clients |->
                    IF c = client THEN intended[c] \o Bytes(w, message'[w]) ELSE intended[c]]
  /\ late' = IF w \in Apps /\ ~monitorState THEN late + 1 ELSE late
  /\ UNCHANGED <<netVars, bufferVars, request, monitorState, enabled>>

EnterWrite(w) ==
  /\ Goes(w, "enter", "write")
  /\ lock = NoWriter
  /\ lock' = w
  /\ message' = [message EXCEPT ![w] = @ + 1]
  /\ next' = [next EXCEPT ![w] = 1]
  /\ intended' = [c \in Clients |->
                    IF c = client THEN intended[c] \o Bytes(w, message'[w]) ELSE intended[c]]
  /\ late' = IF w \in Apps /\ ~monitorState THEN late + 1 ELSE late
  /\ UNCHANGED <<netVars, bufferVars, request, monitorState, enabled>>

\* Mutant of WriteByte: the buffer is flushed one byte late.
WriteByteLate(w) ==
  /\ next[w] <= Length(w)
  /\ next' = [next EXCEPT ![w] = @ + 1]
  /\ IF client # NoClient
     THEN /\ Len(buffer) < BufferSize + Padding
          /\ buffer' = Append(buffer, <<w, message[w], next[w]>>)
     ELSE UNCHANGED buffer
  /\ Goes(w, "write", IF client # NoClient /\ Len(buffer') > BufferSize
                      THEN "flushFull" ELSE "write")
  /\ UNCHANGED <<netVars, wire, failed, lock, message, intended, monitorVars>>

\* sq_stream_write_byte: without a client the byte is dropped; at exactly the
\* buffer's size the buffer is flushed.  A byte that would be stored on the
\* position itself is not followed further.
WriteByte(w) ==
  /\ next[w] <= Length(w)
  /\ next' = [next EXCEPT ![w] = @ + 1]
  /\ IF client # NoClient
     THEN /\ Len(buffer) < BufferSize + Padding
          /\ buffer' = Append(buffer, <<w, message[w], next[w]>>)
     ELSE UNCHANGED buffer
  /\ Goes(w, "write", IF client # NoClient /\ Len(buffer') = BufferSize
                      THEN "flushFull" ELSE "write")
  /\ UNCHANGED <<netVars, wire, failed, lock, message, intended, monitorVars>>

WriteEnds(w) ==
  /\ next[w] > Length(w)
  /\ Goes(w, "write", "exit")
  /\ UNCHANGED <<netVars, bufferVars, writerVars, monitorVars>>

\* Mutant of AfterFlush: the lock is not left.
AfterFlushLocked(w) ==
  /\ pc' = [pc EXCEPT ![w] =
       IF pc[w] = "flushFull" THEN "write"
       ELSE IF w = Reader THEN "setState" ELSE "idle"]
  /\ enabled' = (enabled \/ (pc[w] = "exit" /\ w = Reader /\ request = "enable"))
  /\ UNCHANGED <<netVars, lock, message, next, intended, request, monitorState, late>>

\* What follows a flush: back to the message, or the lock is left.  The reader
\* still has to store the monitor's state.
AfterFlush(w) ==
  /\ pc' = [pc EXCEPT ![w] =
       IF pc[w] = "flushFull" THEN "write"
       ELSE IF w = Reader THEN "setState" ELSE "idle"]
  /\ lock' = IF pc[w] = "exit" THEN NoWriter ELSE lock
  /\ enabled' = (enabled \/ (pc[w] = "exit" /\ w = Reader /\ request = "enable"))
  /\ UNCHANGED <<netVars, message, next, intended, request, monitorState, late>>

\* Sending to a client that is not there any more fails and keeps the buffer.
FlushFails(w) ==
  /\ pc[w] \in {"flushFull", "exit"}
  /\ buffer # << >> /\ ~connected
  /\ failed' = failed \cup {last}
  /\ AfterFlush(w)
  /\ UNCHANGED <<buffer, wire>>

FlushSends(w) ==
  /\ pc[w] \in {"flushFull", "exit"}
  /\ buffer = << >> \/ connected
  /\ wire' = [c \in Clients |-> IF c = client THEN wire[c] \o buffer ELSE wire[c]]
  /\ buffer' = << >>
  /\ AfterFlush(w)
  /\ UNCHANGED failed

\* A part is sent and the loop goes round with the whole buffer again, or gives
\* up after SQ_SOCKET_TIMEOUT and drops it.
FlushSendsPart(w) ==
  /\ client \notin failed
  /\ pc[w] \in {"flushFull", "exit"}
  /\ connected
  /\ \E k \in 1 .. Len(buffer) - 1 :
       wire' = [wire EXCEPT ![client] = @ \o SubSeq(buffer, 1, k)]
  /\ failed' = failed \cup {client}
  /\ \/ UNCHANGED <<buffer, netVars, writerVars, monitorVars, pc>>
     \/ buffer' = << >> /\ AfterFlush(w)

\* sq_automation_monitor_enable writes its response before it sets the state.
SetState ==
  /\ Goes(Reader, "setState", "idle")
  /\ monitorState' = IF request = "other" THEN monitorState ELSE request = "enable"
  /\ late' = IF request = "disable" THEN 0 ELSE late
  /\ request' = "none"
  /\ UNCHANGED <<netVars, bufferVars, writerVars, enabled>>

-----------------------------------------------------------------------------
Network ==
  \/ Connect
  \/ HangUp
  \/ ClearSocket

Write(w) ==
  \/ EnterWrite(w)
  \/ WriteByte(w)
  \/ WriteEnds(w)
  \/ FlushFails(w)
  \/ FlushSends(w)
  \/ FlushSendsPart(w)

Next ==
  \/ Network
  \/ \E r \in Requests \ {"none"} : StartResponse(r)
  \/ \E w \in Apps : StartUpdate(w)
  \/ \E w \in Writers : Write(w)
  \/ SetState

Spec == Init /\ [][Next]_vars

\* Every writer runs and send returns: the hosts read what they are sent.
FairSpec ==
  /\ Spec
  /\ \A w \in Writers : WF_vars(Write(w))
  /\ WF_vars(SetState)

-----------------------------------------------------------------------------
\* A client for which no send failed or took a part gets every message written
\* for it, whole, in the order the lock was taken and never mixed, although the
\* buffer is smaller than a message and writers come in between; only what the
\* last client left unsent can come first, and nothing does when the client
\* connects between two messages (sq_stream_tcp.c:217-268, 323-333).
MessagesAreWhole ==
  \A c \in Clients \ failed :
    /\ client = c /\ lock = NoWriter => IsSuffix(intended[c], wire[c])
    /\ c \notin spoiled => IsPrefix(wire[c], intended[c])

\* No update is begun before an ENABLE has been answered, so no client meets an
\* update before the response to the request that asked for it; and once the
\* state is FALSE only updates that had already looked at it are still written,
\* one for each thread: the unlocked test lets no more through
\* (automation_functions.c:254-261, generate_automation_defines.py:997-1038).
UpdatesAreAsked ==
  /\ \A w \in Apps : message[w] > 0 => enabled
  /\ late <= Cardinality(Apps)

\* Whoever wants to write gets the lock and gives it back, whatever becomes of
\* the client, unless the buffer has been overrun (sq_stream_tcp.c:217-268).
WritersFinish ==
  \A w \in Writers :
    (pc[w] = "enter") ~> (pc[w] = "idle" \/ Len(buffer) = BufferSize + Padding)

=============================================================================
