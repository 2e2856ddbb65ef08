------------------------------ MODULE StreamTcp ------------------------------
(***************************************************************************)
(* The threads and sockets of server/c/src/sq_stream_tcp.c on the pthread  *)
(* build: the polling thread accepts a client and starts a reader for it,  *)
(* the reader hands requests to the parser until the client is gone, and   *)
(* the stream is closed by its owner or, by a request of the client        *)
(* (/server/quit of machine_automation), on the reader itself.             *)
(* What is written to the client is the subject of StreamOutput.           *)
(***************************************************************************)
EXTENDS Naturals, FiniteSets

CONSTANTS
  Clients,       \* the hosts that may connect, each served at most once
  NoClient,      \* SOCKET_ERROR, or a NULL thread
  MaxFailures    \* bound: calls of accept that fail on an open listener

\* What is taken of them.
ClientsAssumption ==
  /\ IsFiniteSet(Clients) /\ NoClient \notin Clients
  /\ MaxFailures \in Nat

VARIABLES
  keepListening,   \* m_keepListening
  listening,       \* m_listenerSocket is open
  clientSocket,    \* m_clientSocket: the client it leads to, or NoClient
  polling,         \* where the polling thread is
  newClient,       \* its newClient, the result of accept
  clientThread,    \* its clientThread, named by the client it was made for
  reader,          \* where each client's reader thread is
  owner,           \* where the thread that opened the stream is
  closer,          \* how far sq_stream_close has come
  quitter,         \* the client whose reader runs sq_stream_close, if any
  undefined,       \* the undefined behaviour the program has run into
  host,            \* the hosts: what each has done or seen
  failures         \* how many calls of accept have failed

sockets == <<listening, clientSocket, host>>
pollVars == <<polling, newClient, clientThread, failures>>
closeVars == <<keepListening, owner, closer, quitter>>
vars == <<sockets, pollVars, closeVars, reader, undefined>>

\* The type of the variables.
TypeOK ==
  /\ keepListening \in BOOLEAN
  /\ listening \in BOOLEAN
  /\ clientSocket \in Clients \cup {NoClient}
  /\ polling \in {"notStarted", "test", "accept", "accepted", "join", "done"}
  /\ newClient \in Clients \cup {NoClient}
  /\ clientThread \in Clients \cup {NoClient}
  /\ reader \in [Clients -> {"none", "receive", "handle", "closing", "closeSocket",
                             "clearSocket", "done", "destroyed"}]
  /\ owner \in {"opened", "polled", "joining", "joined", "closing", "closed"}
  /\ closer \in {"none", "shutListener", "shutClient", "join", "free", "freed"}
  /\ quitter \in Clients \cup {NoClient}
  /\ undefined \in {"no", "joinNull", "joinDestroyed", "joinTwice"}
  /\ host \in [Clients -> {"away", "waiting", "connected", "finished", "refused", "gone"}]
  /\ failures \in 0 .. MaxFailures

\* sq_stream_open has bound the port and listens.
Init ==
  /\ keepListening = TRUE
  /\ listening = TRUE
  /\ clientSocket = NoClient
  /\ polling = "notStarted"
  /\ newClient = NoClient
  /\ clientThread = NoClient
  /\ reader = [c \in Clients |-> "none"]
  /\ owner = "opened"
  /\ closer = "none"
  /\ quitter = NoClient
  /\ undefined = "no"
  /\ host = [c \in Clients |-> "away"]
  /\ failures = 0

\* The program has not been ended by undefined behaviour.
Alive == undefined = "no"

Live(c) == reader[c] \notin {"none", "done", "destroyed"}

-----------------------------------------------------------------------------
(* The hosts.  One is finished when the server has shut its side down.      *)

Connect(c) ==
  /\ host[c] = "away" /\ listening
  /\ host' = [host EXCEPT ![c] = "waiting"]
  /\ UNCHANGED <<listening, clientSocket, pollVars, closeVars, reader, undefined>>

Disconnect(c) ==
  /\ host[c] \in {"waiting", "connected", "finished"}
  /\ host' = [host EXCEPT ![c] = IF host[c] = "waiting" THEN "away" ELSE "gone"]
  /\ UNCHANGED <<listening, clientSocket, pollVars, closeVars, reader, undefined>>

-----------------------------------------------------------------------------
(* sq_stream_internal_polling_thread.                                       *)

PollTest ==
  /\ Alive /\ polling = "test"
  /\ polling' = IF keepListening THEN "accept" ELSE "done"
  /\ UNCHANGED <<sockets, newClient, clientThread, failures, closeVars, reader, undefined>>

Accept(c) ==
  /\ Alive /\ polling = "accept"
  /\ listening /\ host[c] = "waiting"
  /\ polling' = "accepted"
  /\ newClient' = c
  /\ host' = [host EXCEPT ![c] = "connected"]
  /\ UNCHANGED <<listening, clientSocket, clientThread, failures, closeVars, reader, undefined>>

AcceptFails ==
  /\ Alive /\ polling = "accept"
  /\ IF listening
     THEN failures < MaxFailures /\ failures' = failures + 1
     ELSE UNCHANGED failures
  /\ polling' = "accepted"
  /\ newClient' = NoClient
  /\ UNCHANGED <<sockets, clientThread, closeVars, reader, undefined>>

\* Start a reader for the new client, or close its socket when there is another.
Serve ==
  /\ Alive /\ polling = "accepted"
  /\ IF clientSocket = NoClient /\ newClient # NoClient
     THEN /\ clientSocket' = newClient
          /\ clientThread' = newClient
          /\ reader' = [reader EXCEPT ![newClient] = "receive"]
          /\ UNCHANGED host
     ELSE /\ host' = [c \in Clients |-> IF c = newClient THEN "refused" ELSE host[c]]
          /\ UNCHANGED <<clientSocket, clientThread, reader>>
  /\ polling' = IF clientThread' # NoClient THEN "join" ELSE "test"
  /\ UNCHANGED <<listening, newClient, failures, closeVars, undefined>>

\* Mutant of JoinReader: the polling thread ends with its first client.
JoinReaderAndStop ==
  /\ Alive /\ polling = "join"
  /\ reader[clientThread] = "done"
  /\ reader' = [reader EXCEPT ![clientThread] = "destroyed"]
  /\ polling' = "done"
  /\ UNCHANGED <<sockets, newClient, clientThread, failures, closeVars, undefined>>

\* clientThread keeps its value after the thread is destroyed.
JoinReader ==
  /\ Alive /\ polling = "join"
  /\ reader[clientThread] = "done"
  /\ reader' = [reader EXCEPT ![clientThread] = "destroyed"]
  /\ polling' = "test"
  /\ UNCHANGED <<sockets, newClient, clientThread, failures, closeVars, undefined>>

JoinDestroyed ==
  /\ Alive /\ polling = "join"
  /\ reader[clientThread] = "destroyed"
  /\ undefined' = "joinDestroyed"
  /\ UNCHANGED <<sockets, pollVars, closeVars, reader>>

Poll ==
  \/ PollTest
  \/ \E c \in Clients : Accept(c)
  \/ AcceptFails
  \/ Serve
  \/ JoinReader
  \/ JoinDestroyed

-----------------------------------------------------------------------------
(* sq_stream_internal_reader.                                               *)

ReaderGoes(c, from, to) ==
  /\ Alive /\ reader[c] = from
  /\ reader' = [reader EXCEPT ![c] = to]

Receive(c) ==
  /\ ReaderGoes(c, "receive", "handle")
  /\ host[clientSocket] \in {"connected", "finished"}
  /\ UNCHANGED <<sockets, pollVars, closeVars, undefined>>

ReceiveEnds(c) ==
  /\ ReaderGoes(c, "receive", "closeSocket")
  /\ host[clientSocket] = "gone"
  /\ UNCHANGED <<sockets, pollVars, closeVars, undefined>>

Handle(c) ==
  /\ ReaderGoes(c, "handle", "receive")
  /\ UNCHANGED <<sockets, pollVars, closeVars, undefined>>

\* The request is a call of /server/quit: sq_server_destroy on the reader.
HandleQuit(c) ==
  /\ closer = "none"
  /\ ReaderGoes(c, "handle", "closing")
  /\ closer' = "shutListener"
  /\ keepListening' = FALSE
  /\ quitter' = c
  /\ UNCHANGED <<sockets, pollVars, owner, undefined>>

\* Mutant of CloseSocket: the socket is forgotten before it is closed.
CloseSocketCleared(c) ==
  /\ ReaderGoes(c, "closeSocket", "clearSocket")
  /\ clientSocket' = NoClient
  /\ UNCHANGED <<listening, host, pollVars, closeVars, undefined>>

CloseSocket(c) ==
  /\ ReaderGoes(c, "closeSocket", "clearSocket")
  /\ UNCHANGED <<sockets, pollVars, closeVars, undefined>>

\* Mutant of ClearSocket: 0 is stored, a descriptor and not SOCKET_ERROR.
ClearSocketToZero(c) ==
  /\ ReaderGoes(c, "clearSocket", "done")
  /\ clientSocket' = 0
  /\ UNCHANGED <<listening, host, pollVars, closeVars, undefined>>

ClearSocket(c) ==
  /\ ReaderGoes(c, "clearSocket", "done")
  /\ clientSocket' = NoClient
  /\ UNCHANGED <<listening, host, pollVars, closeVars, undefined>>

Read(c) ==
  \/ Receive(c)
  \/ ReceiveEnds(c)
  \/ Handle(c)
  \/ HandleQuit(c)
  \/ CloseSocket(c)
  \/ ClearSocket(c)

-----------------------------------------------------------------------------
(* The owner: sq_stream_poll, then sq_stream_join or sq_stream_close.       *)

StartPolling ==
  /\ Alive /\ owner = "opened"
  /\ owner' = "polled"
  /\ polling' = "test"
  /\ UNCHANGED <<sockets, newClient, clientThread, failures, keepListening, closer, quitter,
                 reader, undefined>>

StartJoin ==
  /\ Alive /\ owner = "polled"
  /\ owner' = "joining"
  /\ UNCHANGED <<sockets, pollVars, keepListening, closer, quitter, reader, undefined>>

Join ==
  /\ Alive /\ owner = "joining"
  /\ polling = "done"
  /\ owner' = "joined"
  /\ UNCHANGED <<sockets, pollVars, keepListening, closer, quitter, reader, undefined>>

\* Mutant of StartClose: the polling thread is not told.
StartCloseUntold ==
  /\ Alive /\ owner \in {"opened", "polled"}
  /\ closer = "none"
  /\ owner' = "closing"
  /\ closer' = "shutListener"
  /\ UNCHANGED <<sockets, pollVars, keepListening, quitter, reader, undefined>>

StartClose ==
  /\ Alive /\ owner \in {"opened", "polled"}
  /\ closer = "none"
  /\ owner' = "closing"
  /\ closer' = "shutListener"
  /\ keepListening' = FALSE
  /\ UNCHANGED <<sockets, pollVars, quitter, reader, undefined>>

\* Another thread calls sq_server_destroy while the owner is in sq_server_join.
OtherCloses ==
  /\ Alive /\ owner = "joining"
  /\ closer = "none"
  /\ closer' = "shutListener"
  /\ keepListening' = FALSE
  /\ UNCHANGED <<sockets, pollVars, owner, quitter, reader, undefined>>

\* Shutting the listener down makes a blocked accept fail.
ShutListener ==
  /\ Alive /\ closer = "shutListener"
  /\ closer' = "shutClient"
  /\ listening' = FALSE
  /\ host' = [c \in Clients |-> IF host[c] = "waiting" THEN "refused" ELSE host[c]]
  /\ UNCHANGED <<clientSocket, pollVars, keepListening, owner, quitter, reader, undefined>>

ShutClient ==
  /\ Alive /\ closer = "shutClient"
  /\ closer' = "join"
  /\ host' = [c \in Clients |->
                IF c = clientSocket /\ host[c] = "connected" THEN "finished" ELSE host[c]]
  /\ UNCHANGED <<listening, clientSocket, pollVars, keepListening, owner, quitter, reader,
                 undefined>>

\* Mutant of CloseJoins: nobody is waited for.
CloseWithoutJoin ==
  /\ Alive /\ closer = "join"
  /\ owner \notin {"joining", "joined"}
  /\ closer' = "free"
  /\ UNCHANGED <<sockets, pollVars, keepListening, owner, quitter, reader, undefined>>

\* m_pollingThread is NULL when the stream was never polled.
CloseJoins ==
  /\ Alive /\ closer = "join"
  /\ owner \notin {"joining", "joined"}
  /\ IF polling = "notStarted"
     THEN undefined' = "joinNull" /\ UNCHANGED closer
     ELSE polling = "done" /\ closer' = "free" /\ UNCHANGED undefined
  /\ UNCHANGED <<sockets, pollVars, keepListening, owner, quitter, reader>>

\* Two joins of one pthread are undefined, at once or one after the other.
JoinTwice ==
  /\ Alive /\ closer = "join"
  /\ owner \in {"joining", "joined"}
  /\ undefined' = "joinTwice"
  /\ UNCHANGED <<sockets, pollVars, closeVars, reader>>

Free ==
  /\ Alive /\ closer = "free"
  /\ closer' = "freed"
  /\ owner' = IF quitter = NoClient THEN "closed" ELSE owner
  /\ reader' = [c \in Clients |-> IF c = quitter THEN "receive" ELSE reader[c]]
  /\ UNCHANGED <<sockets, pollVars, keepListening, quitter, undefined>>

Close ==
  \/ ShutListener
  \/ ShutClient
  \/ CloseJoins
  \/ JoinTwice
  \/ Free

Own ==
  \/ StartPolling
  \/ StartJoin
  \/ Join
  \/ StartClose
  \/ OtherCloses

Next ==
  \/ \E c \in Clients : Connect(c) \/ Disconnect(c) \/ Read(c)
  \/ Poll
  \/ Own
  \/ Close

Spec == Init /\ [][Next]_vars

\* Every thread runs; a host hangs up when it sees the end of the stream.  No
\* host has to connect or to leave on its own, and nobody has to close.
FairSpec ==
  /\ Spec
  /\ WF_vars(Poll) /\ WF_vars(Join) /\ WF_vars(Close)
  /\ \A c \in Clients :
       /\ WF_vars(Read(c))
       /\ WF_vars(host[c] = "finished" /\ Disconnect(c))

-----------------------------------------------------------------------------
\* Clients are served one at a time: there is never more than one reader, and
\* the client socket stays its own until it has closed it, because the polling
\* thread waits for the reader before it accepts again; and no client is refused
\* while the stream is open, so the branch that closes a second client's socket
\* is never taken (sq_stream_tcp.c:158-181).
OneAtATime ==
  \A c \in Clients :
    /\ Live(c) => /\ clientSocket = c
                  /\ \A d \in Clients \ {c} : ~Live(d)
    /\ host[c] = "refused" => ~keepListening

\* Once the stream has been freed no thread that uses it is left: the polling
\* thread has ended, and before it the reader that it waits for
\* (sq_stream_tcp.c:177-181, 199-215).
FreedIsUnused ==
  closer = "freed" => /\ polling = "done"
                      /\ \A c \in Clients : ~Live(c)

\* A client that waits is served as soon as nobody else is connected, unless it
\* goes away or the stream is closed (sq_stream_tcp.c:156-182).
WaitingIsServed ==
  \A c \in Clients :
    (polling # "notStarted" /\ host[c] = "waiting") ~>
      \/ host[c] # "waiting"
      \/ \E d \in Clients : host[d] = "connected"
      \/ ~Alive

\* Closing a stream from outside its reader ends, unless a client that was
\* accepted while the sockets were shut down stays connected, or the program
\* dies on a thread that is no longer there (sq_stream_tcp.c:199-215).
CloseEnds ==
  (closer = "shutListener" /\ quitter = NoClient) ~>
    (closer = "freed" \/ ~Alive \/ \E c \in Clients : host[c] = "connected")

\* "Make the current thead wait for the server to be destroyed by a call to
\* sq_server_destroy. Useful in main() when implementing a server which does
\* nothing but react to requests" (server.h:99-101): a thread that waits so and
\* the call that it waits for do not both join the polling thread.
JoinedOnce == undefined # "joinTwice"

\* "Destroy the server, release all resources held by it (connection, memory,
\* etc.)." (server.h:65): this is also so when a request of the client asks for
\* it, unless the program has run into undefined behaviour.
QuitEnds == (quitter # NoClient) ~> (closer = "freed" \/ ~Alive)

\* "Destroy the server, release all resources held by it" (server.h:65): after a
\* client has come and gone, closing the stream does not join and destroy its
\* thread again.
ReleasedOnce == undefined # "joinDestroyed"

=============================================================================
