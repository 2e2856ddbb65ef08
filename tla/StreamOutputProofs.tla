-------------------------- MODULE StreamOutputProofs --------------------------
(***************************************************************************)
(* What reaches a TCP client, for any number of application threads and    *)
(* clients and buffers and messages of any length: the types, who may use  *)
(* the buffer, and which updates are written.                              *)
(***************************************************************************)
EXTENDS StreamOutput, FiniteSetTheorems, SequenceTheorems, TLAPS

-----------------------------------------------------------------------------
(* The inductive invariant.                                                 *)

States == {"idle", "enter", "write", "flushFull", "exit", "setState"}
Writing == {"write", "flushFull", "exit"}
Numbers == 1 .. ResponseLength + UpdateLength + 1

Types ==
  /\ client \in Clients \cup {NoClient} /\ last \in Clients \cup {NoClient}
  /\ connected \in BOOLEAN /\ monitorState \in BOOLEAN /\ enabled \in BOOLEAN
  /\ lock \in Writers \cup {NoWriter}
  /\ pc \in [Writers -> States]
  /\ message \in [Writers -> 0 .. MaxMessages]
  /\ next \in [Writers -> Numbers]
  /\ request \in Requests
  /\ spoiled \subseteq Clients /\ failed \subseteq Clients \cup {NoClient}
  /\ late \in Nat

\* What is written is made of bytes.
Lists ==
  /\ wire \in [Clients -> Seq(AnyByte)]
  /\ buffer \in Seq(AnyByte)
  /\ intended \in [Clients -> Seq(AnyByte)]

\* Whoever writes has the lock, and a message of its own.
Locked ==
  \A w \in Writers :
    /\ lock = w <=> pc[w] \in Writing
    /\ pc[w] = "enter" => message[w] < MaxMessages
    /\ pc[w] \in Writing => message[w] > 0

\* A full buffer is about to be flushed; only a failed send leaves it full.
Flushed ==
  /\ connected => client # NoClient
  /\ Len(buffer) <= BufferSize + Padding
  /\ failed = {} => /\ Len(buffer) <= BufferSize
                    /\ Len(buffer) = BufferSize => \E w \in Writers : pc[w] = "flushFull"

\* Nobody has come past the unlocked test before an ENABLE was answered.
AskedFirst ==
  /\ monitorState => enabled
  /\ pc[Reader] # "idle" => request # "none"
  /\ pc[Reader] = "setState" /\ request = "enable" => enabled
  /\ \A w \in Apps : pc[w] # "idle" \/ message[w] > 0 => enabled

\* The threads that have come past it and have not begun their update.
Entering == {w \in Apps : pc[w] = "enter"}

LateOnes ==
  /\ late <= Cardinality(Apps)
  /\ ~monitorState => late + Cardinality(Entering) <= Cardinality(Apps)

IInv == Types /\ Lists /\ Locked /\ Flushed /\ AskedFirst /\ LateOnes

-----------------------------------------------------------------------------
LEMMA Sizes ==
  /\ Cardinality(Apps) \in Nat
  /\ Cardinality(Entering) \in Nat /\ Cardinality(Entering) <= Cardinality(Apps)
<1>1. Entering \subseteq Apps
  BY DEF Entering
<1> QED
  BY <1>1, OutputAssumption, FS_CardinalityType, FS_Subset

LEMMA ReaderWrites == Reader \in Writers /\ Apps \subseteq Writers /\ NoWriter \notin Writers
BY OutputAssumption DEF Writers

LEMMA ClientsAre == Clients \subseteq Nat /\ NoClient \notin Clients /\ NoClient \in Nat
BY OutputAssumption DEF Clients, NoClient

LEMMA Appended == ASSUME NEW M, NEW s \in Seq(M), NEW m \in M PROVE Append(s, m) \in Seq(M)
OBVIOUS

LEMMA Concatenated == ASSUME NEW M, NEW s \in Seq(M), NEW t \in Seq(M) PROVE s \o t \in Seq(M)
OBVIOUS

LEMMA BytesTyped ==
  ASSUME NEW w \in Writers, NEW n \in 1 .. MaxMessages
  PROVE  Bytes(w, n) \in Seq(AnyByte) /\ Len(Bytes(w, n)) = Length(w) /\ Length(w) \in Nat \ {0}
<1>1. Length(w) \in Nat \ {0} /\ Length(w) <= ResponseLength + UpdateLength
  BY OutputAssumption DEF Length
<1>2. \A i \in 1 .. Length(w) : <<w, n, i>> \in AnyByte
  BY <1>1, OutputAssumption DEF AnyByte
<1> QED
  BY <1>1, <1>2 DEF Bytes

LEMMA InitHolds == Init => IInv
<1> SUFFICES ASSUME Init PROVE IInv
  OBVIOUS
<1>1. Types
  <2>1. 1 \in Numbers /\ 0 \in 0 .. MaxMessages /\ 0 \in Nat
    BY OutputAssumption DEF Numbers
  <2> QED
    BY <2>1 DEF Init, Types, States, Requests
<1>2. Lists
  BY DEF Init, Lists
<1>3. Locked
  BY ReaderWrites DEF Init, Locked, Writing
<1>4. Flushed
  BY OutputAssumption DEF Init, Flushed
<1>5. AskedFirst
  BY ReaderWrites DEF Init, AskedFirst
<1>6. LateOnes
  <2>1. late = 0
    BY DEF Init
  <2> QED
    BY <2>1, Sizes DEF LateOnes
<1> QED
  BY <1>1, <1>2, <1>3, <1>4, <1>5, <1>6 DEF IInv

-----------------------------------------------------------------------------
(* The connection.                                                          *)

LEMMA ConnectKeeps == ASSUME IInv, Connect PROVE IInv'
<1> USE DEF IInv
<1>0. /\ client = NoClient /\ last < MaxClients /\ last' = last + 1 /\ client' = last'
      /\ connected' = TRUE
      /\ spoiled' = IF buffer # << >> \/ lock # NoWriter THEN spoiled \cup {last'} ELSE spoiled
      /\ UNCHANGED <<wire, buffer, failed, lock, message, next, intended, request, monitorState,
                     enabled, late, pc>>
  BY DEF Connect, bufferVars, writerVars, monitorVars
<1>1. last' \in Clients
  BY <1>0, OutputAssumption DEF Types, Clients, NoClient
<1>2. client' # NoClient
  BY <1>0, <1>1, ClientsAre
<1>3. Types'
  BY <1>0, <1>1 DEF Types
<1>4. Lists' /\ Locked' /\ Flushed'
  BY <1>0, <1>2 DEF Lists, Locked, Flushed
<1>5. AskedFirst' /\ LateOnes'
  BY <1>0 DEF AskedFirst, LateOnes, Entering
<1> QED
  BY <1>3, <1>4, <1>5

LEMMA GoneKeeps == ASSUME IInv, HangUp \/ ClearSocket PROVE IInv'
<1> USE DEF IInv
<1>0. /\ UNCHANGED <<last, spoiled, wire, buffer, failed, lock, message, next, intended, request,
                     monitorState, enabled, late, pc>>
      /\ connected' = FALSE /\ client' \in {client, NoClient}
  BY DEF HangUp, ClearSocket, bufferVars, writerVars, monitorVars, Types
<1>1. Types'
  BY <1>0 DEF Types
<1>2. Lists' /\ Locked' /\ Flushed'
  BY <1>0 DEF Lists, Locked, Flushed
<1>3. AskedFirst' /\ LateOnes'
  BY <1>0 DEF AskedFirst, LateOnes, Entering
<1> QED
  BY <1>1, <1>2, <1>3

-----------------------------------------------------------------------------
(* The messages.                                                            *)

LEMMA StartResponseKeeps ==
  ASSUME IInv, NEW r \in Requests \ {"none"}, StartResponse(r)
  PROVE  IInv'
<1> USE DEF IInv
<1>0. /\ UNCHANGED <<client, last, connected, spoiled, wire, buffer, failed, lock, message, next,
                     intended, monitorState, enabled, late>>
      /\ message[Reader] < MaxMessages
      /\ pc[Reader] = "idle" /\ pc' = [pc EXCEPT ![Reader] = "enter"]
      /\ request' \in Requests /\ request' # "none"
  BY DEF StartResponse, Goes, netVars, bufferVars, writerVars
<1>1. \A w \in Writers : pc'[w] = IF w = Reader THEN "enter" ELSE pc[w]
  BY <1>0 DEF Types
<1>2. Types'
  BY <1>0 DEF Types, States
<1>3. Lists' /\ Locked' /\ Flushed'
  BY <1>0, <1>1, ReaderWrites DEF Lists, Locked, Flushed, Writing
<1>4. \A w \in Apps : pc'[w] = pc[w]
  BY <1>1, OutputAssumption, ReaderWrites
<1>5. AskedFirst'
  BY <1>0, <1>1, <1>4, ReaderWrites DEF AskedFirst
<1>6. LateOnes'
  <2>1. Entering' = Entering
    BY <1>4 DEF Entering
  <2> QED
    BY <1>0, <2>1 DEF LateOnes
<1> QED
  BY <1>2, <1>3, <1>5, <1>6

LEMMA StartUpdateKeeps ==
  ASSUME IInv, NEW a \in Apps, StartUpdate(a)
  PROVE  IInv'
<1> USE DEF IInv
<1>0. /\ UNCHANGED <<client, last, connected, spoiled, wire, buffer, failed, lock, message, next,
                     intended, request, monitorState, enabled, late>>
      /\ monitorState /\ message[a] < MaxMessages
      /\ pc[a] = "idle" /\ pc' = [pc EXCEPT ![a] = "enter"]
  BY DEF StartUpdate, Goes, netVars, bufferVars, writerVars, monitorVars
<1>1. a \in Writers /\ a # Reader
  BY ReaderWrites, OutputAssumption
<1>2. \A w \in Writers : pc'[w] = IF w = a THEN "enter" ELSE pc[w]
  BY <1>0 DEF Types
<1>3. Types'
  BY <1>0 DEF Types, States
<1>4. Lists' /\ Locked' /\ Flushed'
  BY <1>0, <1>1, <1>2 DEF Lists, Locked, Flushed, Writing
<1>5. AskedFirst'
  BY <1>0, <1>1, <1>2, ReaderWrites DEF AskedFirst
<1>6. LateOnes'
  BY <1>0 DEF LateOnes
<1> QED
  BY <1>3, <1>4, <1>5, <1>6

LEMMA EnterWriteKeeps ==
  ASSUME IInv, NEW w \in Writers, EnterWrite(w)
  PROVE  IInv'
<1> USE DEF IInv
<1>0. /\ UNCHANGED <<client, last, connected, spoiled, wire, buffer, failed, request,
                     monitorState, enabled>>
      /\ pc[w] = "enter" /\ pc' = [pc EXCEPT ![w] = "write"]
      /\ lock = NoWriter /\ lock' = w
      /\ message' = [message EXCEPT ![w] = @ + 1]
      /\ next' = [next EXCEPT ![w] = 1]
      /\ intended' = [c \in Clients |->
                        IF c = client THEN intended[c] \o Bytes(w, message'[w]) ELSE intended[c]]
      /\ late' = IF w \in Apps /\ ~monitorState THEN late + 1 ELSE late
  BY DEF EnterWrite, Goes, netVars, bufferVars
<1>1. /\ \A v \in Writers : pc'[v] = IF v = w THEN "write" ELSE pc[v]
      /\ \A v \in Writers \ {w} : message'[v] = message[v]
      /\ message'[w] = message[w] + 1 /\ message[w] \in Nat /\ message[w] < MaxMessages
  BY <1>0, OutputAssumption DEF Types, Locked
<1>2. message'[w] \in 1 .. MaxMessages
  BY <1>1, OutputAssumption
<1>3. message' \in [Writers -> 0 .. MaxMessages] /\ next' \in [Writers -> Numbers]
  <2>1. 1 \in Numbers
    BY OutputAssumption DEF Numbers
  <2>2. message[w] + 1 \in 0 .. MaxMessages
    BY <1>1, OutputAssumption
  <2> QED
    BY <1>0, <2>1, <2>2 DEF Types
<1>4. Types'
  BY <1>0, <1>3 DEF Types, States
<1>5. Lists'
  <2>1. Bytes(w, message'[w]) \in Seq(AnyByte)
    BY <1>2, BytesTyped
  <2>2. \A c \in Clients : intended[c] \o Bytes(w, message'[w]) \in Seq(AnyByte)
    BY <2>1, Concatenated DEF Lists
  <2>3. intended' \in [Clients -> Seq(AnyByte)]
    BY <1>0, <2>2 DEF Lists
  <2> QED
    BY <1>0, <2>3 DEF Lists
<1>6. Locked'
  <2>1. \A v \in Writers : pc[v] \notin Writing
    BY <1>0, ReaderWrites DEF Locked
  <2> QED
    BY <1>0, <1>1, <2>1 DEF Locked, Writing
<1>7. Flushed'
  BY <1>0, <1>1 DEF Flushed
<1>8. AskedFirst'
  BY <1>0, <1>1, ReaderWrites DEF AskedFirst
<1>9. LateOnes'
  <2>1. CASE w \in Apps /\ ~monitorState
    <3>1. w \in Entering /\ Entering' = Entering \ {w} /\ IsFiniteSet(Entering)
      <4>1. Entering \subseteq Apps
        BY DEF Entering
      <4> QED
        BY <1>0, <1>1, <2>1, <4>1, ReaderWrites, OutputAssumption, FS_Subset DEF Entering
    <3>2. Cardinality(Entering') = Cardinality(Entering) - 1 /\ Cardinality(Entering') \in Nat
      BY <3>1, FS_RemoveElement, FS_CardinalityType
    <3>3. late' = late + 1 /\ late \in Nat /\ monitorState' = monitorState
      BY <1>0, <2>1 DEF Types
    <3> QED
      BY <2>1, <3>2, <3>3, Sizes DEF LateOnes
  <2>2. CASE w \notin Apps
    <3>1. Entering' = Entering
      BY <1>1, <2>2, ReaderWrites DEF Entering
    <3> QED
      BY <1>0, <2>2, <3>1 DEF LateOnes
  <2>3. CASE monitorState
    BY <1>0, <2>3 DEF LateOnes
  <2> QED
    BY <2>1, <2>2, <2>3
<1> QED
  BY <1>4, <1>5, <1>6, <1>7, <1>8, <1>9

LEMMA WriteByteKeeps ==
  ASSUME IInv, NEW w \in Writers, WriteByte(w)
  PROVE  IInv'
<1> USE DEF IInv
<1> DEFINE byte == <<w, message[w], next[w]>>
           full == client # NoClient /\ Len(buffer') = BufferSize
<1>0. /\ UNCHANGED <<client, last, connected, spoiled, wire, failed, lock, message, intended,
                     request, monitorState, enabled, late>>
      /\ next[w] <= Length(w) /\ next' = [next EXCEPT ![w] = @ + 1]
      /\ IF client # NoClient
         THEN Len(buffer) < BufferSize + Padding /\ buffer' = Append(buffer, byte)
         ELSE buffer' = buffer
      /\ pc[w] = "write" /\ pc' = [pc EXCEPT ![w] = IF full THEN "flushFull" ELSE "write"]
  BY DEF WriteByte, Goes, netVars, monitorVars
<1>1. /\ \A v \in Writers \ {w} : pc'[v] = pc[v]
      /\ pc'[w] = IF full THEN "flushFull" ELSE "write"
      /\ lock = w /\ message[w] \in 1 .. MaxMessages
  BY <1>0, OutputAssumption DEF Types, Locked, Writing
<1>2. /\ next[w] \in Nat \ {0} /\ next[w] <= ResponseLength + UpdateLength
  BY <1>0, OutputAssumption DEF Types, Numbers, Length
<1>3. byte \in AnyByte
  BY <1>1, <1>2, OutputAssumption DEF AnyByte
<1>4. next' \in [Writers -> Numbers]
  <2>1. next[w] + 1 \in Numbers
    BY <1>2, OutputAssumption DEF Numbers
  <2> QED
    BY <1>0, <2>1 DEF Types
<1> HIDE DEF byte
<1>5. buffer \in Seq(AnyByte) /\ buffer' \in Seq(AnyByte) /\ Len(buffer) \in Nat
  <2>1. buffer \in Seq(AnyByte)
    BY DEF Lists
  <2>2. Append(buffer, byte) \in Seq(AnyByte)
    BY <1>3, <2>1, Appended
  <2> QED
    BY <1>0, <2>1, <2>2
<1>6. Len(buffer') = IF client # NoClient THEN Len(buffer) + 1 ELSE Len(buffer)
  BY <1>0, <1>3, <1>5
<1>7. Types'
  BY <1>0, <1>4 DEF Types, States
<1>8. Lists'
  BY <1>0, <1>5 DEF Lists
<1>9. Locked'
  BY <1>0, <1>1 DEF Locked, Writing
<1>10. Flushed'
  <2>1. Len(buffer') <= BufferSize + Padding
    BY <1>0, <1>5, <1>6, OutputAssumption DEF Flushed
  <2>2. ASSUME failed = {}
        PROVE  Len(buffer') <= BufferSize /\ (Len(buffer') = BufferSize => pc'[w] = "flushFull")
    <3>1. \A v \in Writers : pc[v] # "flushFull"
      BY <1>0, <1>1 DEF Locked, Writing
    <3>2. Len(buffer) <= BufferSize /\ Len(buffer) # BufferSize
      BY <2>2, <3>1 DEF Flushed
    <3> QED
      BY <1>1, <1>5, <1>6, <3>2, OutputAssumption
  <2> QED
    BY <1>0, <2>1, <2>2 DEF Flushed
<1>11. AskedFirst'
  BY <1>0, <1>1, ReaderWrites DEF AskedFirst
<1>12. LateOnes'
  <2>1. Entering' = Entering
    BY <1>0, <1>1, ReaderWrites DEF Entering
  <2> QED
    BY <1>0, <2>1 DEF LateOnes
<1> QED
  BY <1>7, <1>8, <1>9, <1>10, <1>11, <1>12

LEMMA WriteEndsKeeps ==
  ASSUME IInv, NEW w \in Writers, WriteEnds(w)
  PROVE  IInv'
<1> USE DEF IInv
<1>0. /\ UNCHANGED <<client, last, connected, spoiled, wire, buffer, failed, lock, message, next,
                     intended, request, monitorState, enabled, late>>
      /\ pc[w] = "write" /\ pc' = [pc EXCEPT ![w] = "exit"]
  BY DEF WriteEnds, Goes, netVars, bufferVars, writerVars, monitorVars
<1>1. \A v \in Writers : pc'[v] = IF v = w THEN "exit" ELSE pc[v]
  BY <1>0 DEF Types
<1>2. Types'
  BY <1>0 DEF Types, States
<1>3. Lists' /\ Locked' /\ Flushed'
  BY <1>0, <1>1 DEF Lists, Locked, Flushed, Writing
<1>4. AskedFirst'
  BY <1>0, <1>1, ReaderWrites DEF AskedFirst
<1>5. LateOnes'
  <2>1. Entering' = Entering
    BY <1>0, <1>1, ReaderWrites DEF Entering
  <2> QED
    BY <1>0, <2>1 DEF LateOnes
<1> QED
  BY <1>2, <1>3, <1>4, <1>5

\* What comes after a flush disturbs nothing but who has the lock.
LEMMA AfterFlushKeeps ==
  ASSUME IInv, NEW w \in Writers, pc[w] \in {"flushFull", "exit"}, AfterFlush(w)
  PROVE  /\ (failed' \subseteq Clients \cup {NoClient} => Types')
         /\ Locked' /\ AskedFirst' /\ LateOnes'
         /\ UNCHANGED <<client, last, connected, intended>>
<1> USE DEF IInv
<1> DEFINE to == IF pc[w] = "flushFull" THEN "write" ELSE IF w = Reader THEN "setState" ELSE "idle"
<1>0. /\ UNCHANGED <<client, last, connected, spoiled, message, next, intended, request,
                     monitorState, late>>
      /\ pc' = [pc EXCEPT ![w] = to]
      /\ lock' = IF pc[w] = "exit" THEN NoWriter ELSE lock
      /\ enabled' = (enabled \/ (pc[w] = "exit" /\ w = Reader /\ request = "enable"))
  BY DEF AfterFlush, netVars
<1>1. \A v \in Writers : pc'[v] = IF v = w THEN to ELSE pc[v]
  BY <1>0 DEF Types
<1>2. failed' \subseteq Clients \cup {NoClient} => Types'
  <2>1. enabled' \in BOOLEAN
    BY <1>0
  <2>2. pc' \in [Writers -> States] /\ lock' \in Writers \cup {NoWriter}
    BY <1>0 DEF Types, States
  <2> QED
    BY <1>0, <2>1, <2>2 DEF Types
<1>3. Locked'
  <2> SUFFICES ASSUME NEW v \in Writers
               PROVE  /\ lock' = v <=> pc'[v] \in Writing
                      /\ pc'[v] = "enter" => message'[v] < MaxMessages
                      /\ pc'[v] \in Writing => message'[v] > 0
    BY DEF Locked
  <2>1. lock = w
    BY DEF Locked, Writing
  <2> QED
    BY <1>0, <1>1, <2>1, ReaderWrites DEF Locked, Writing
<1>4. (enabled => enabled') /\ (pc[w] = "exit" /\ w = Reader /\ request = "enable" => enabled')
  BY <1>0
<1>5. AskedFirst'
  <2>1. monitorState' => enabled'
    BY <1>0, <1>4 DEF AskedFirst
  <2>2. /\ pc'[Reader] = "setState" /\ request' = "enable" => enabled'
        /\ pc'[Reader] # "idle" => request' # "none"
    <3>1. CASE w = Reader
      BY <1>0, <1>1, <1>4, <3>1, ReaderWrites DEF AskedFirst
    <3>2. CASE w # Reader
      BY <1>0, <1>1, <1>4, <3>2, ReaderWrites DEF AskedFirst
    <3> QED
      BY <3>1, <3>2
  <2>3. \A v \in Apps : pc'[v] # "idle" \/ message'[v] > 0 => enabled'
    BY <1>0, <1>1, <1>4, ReaderWrites DEF AskedFirst
  <2> QED
    BY <2>1, <2>2, <2>3 DEF AskedFirst
<1>6. LateOnes'
  <2>1. Entering' = Entering
    BY <1>1, ReaderWrites DEF Entering
  <2> QED
    BY <1>0, <2>1 DEF LateOnes
<1> QED
  BY <1>0, <1>2, <1>3, <1>5, <1>6

LEMMA FlushFailsKeeps ==
  ASSUME IInv, NEW w \in Writers, FlushFails(w)
  PROVE  IInv'
<1> USE DEF IInv
<1>0. /\ pc[w] \in {"flushFull", "exit"} /\ AfterFlush(w)
      /\ failed' = failed \cup {last} /\ UNCHANGED <<buffer, wire>>
  BY DEF FlushFails
<1>1. /\ failed' \subseteq Clients \cup {NoClient} => Types'
      /\ Locked' /\ AskedFirst' /\ LateOnes'
      /\ UNCHANGED <<client, last, connected, intended>>
  BY <1>0, AfterFlushKeeps
<1>2. Types'
  BY <1>0, <1>1 DEF Types
<1>3. Lists' /\ Flushed'
  BY <1>0, <1>1 DEF Lists, Flushed
<1> QED
  BY <1>1, <1>2, <1>3

LEMMA FlushSendsKeeps ==
  ASSUME IInv, NEW w \in Writers, FlushSends(w)
  PROVE  IInv'
<1> USE DEF IInv
<1>0. /\ pc[w] \in {"flushFull", "exit"} /\ AfterFlush(w)
      /\ wire' = [c \in Clients |-> IF c = client THEN wire[c] \o buffer ELSE wire[c]]
      /\ buffer' = << >> /\ failed' = failed
  BY DEF FlushSends
<1>1. /\ failed' \subseteq Clients \cup {NoClient} => Types'
      /\ Locked' /\ AskedFirst' /\ LateOnes'
      /\ UNCHANGED <<client, last, connected, intended>>
  BY <1>0, AfterFlushKeeps
<1>2. Types'
  BY <1>0, <1>1 DEF Types
<1>3. Lists'
  <2>1. \A c \in Clients : wire[c] \o buffer \in Seq(AnyByte)
    BY Concatenated DEF Lists
  <2>2. wire' \in [Clients -> Seq(AnyByte)]
    BY <1>0, <2>1 DEF Lists
  <2> QED
    BY <1>0, <1>1, <2>2 DEF Lists
<1>4. Flushed'
  BY <1>0, <1>1, OutputAssumption DEF Flushed
<1> QED
  BY <1>1, <1>2, <1>3, <1>4

LEMMA FlushSendsPartKeeps ==
  ASSUME IInv, NEW w \in Writers, FlushSendsPart(w)
  PROVE  IInv'
<1> USE DEF IInv
<1>0. /\ pc[w] \in {"flushFull", "exit"} /\ connected
      /\ \E k \in 1 .. Len(buffer) - 1 :
           wire' = [wire EXCEPT ![client] = @ \o SubSeq(buffer, 1, k)]
      /\ failed' = failed \cup {client}
      /\ \/ UNCHANGED <<buffer, netVars, writerVars, monitorVars, pc>>
         \/ buffer' = << >> /\ AfterFlush(w)
  BY DEF FlushSendsPart
<1>1. client \in Clients
  BY <1>0 DEF Flushed, Types
<1>2. wire' \in [Clients -> Seq(AnyByte)]
  <2>1. PICK k \in 1 .. Len(buffer) - 1 :
          wire' = [wire EXCEPT ![client] = @ \o SubSeq(buffer, 1, k)]
    BY <1>0
  <2>2. SubSeq(buffer, 1, k) \in Seq(AnyByte)
    BY DEF Lists
  <2>3. wire[client] \o SubSeq(buffer, 1, k) \in Seq(AnyByte)
    BY <1>1, <2>2, Concatenated DEF Lists
  <2> QED
    BY <2>1, <2>3 DEF Lists
<1>3. failed' \subseteq Clients \cup {NoClient} /\ failed' # {}
  BY <1>0, <1>1 DEF Types
<1>4. CASE UNCHANGED <<buffer, netVars, writerVars, monitorVars, pc>>
  <2>1. UNCHANGED <<client, last, connected, spoiled, buffer, lock, message, next, intended,
                    request, monitorState, enabled, late, pc>>
    BY <1>4 DEF netVars, writerVars, monitorVars
  <2>2. Types' /\ Lists' /\ Locked' /\ Flushed'
    BY <1>2, <1>3, <2>1 DEF Types, Lists, Locked, Flushed
  <2>3. AskedFirst' /\ LateOnes'
    BY <2>1 DEF AskedFirst, LateOnes, Entering
  <2> QED
    BY <2>2, <2>3
<1>5. CASE buffer' = << >> /\ AfterFlush(w)
  <2>1. /\ Types' /\ Locked' /\ AskedFirst' /\ LateOnes'
        /\ UNCHANGED <<client, last, connected, intended>>
    BY <1>0, <1>3, <1>5, AfterFlushKeeps
  <2>2. Lists' /\ Flushed'
    BY <1>2, <1>3, <1>5, <2>1, OutputAssumption DEF Lists, Flushed
  <2> QED
    BY <2>1, <2>2
<1> QED
  BY <1>0, <1>4, <1>5

LEMMA SetStateKeeps == ASSUME IInv, SetState PROVE IInv'
<1> USE DEF IInv
<1>0. /\ UNCHANGED <<client, last, connected, spoiled, wire, buffer, failed, lock, message, next,
                     intended, enabled>>
      /\ pc[Reader] = "setState" /\ pc' = [pc EXCEPT ![Reader] = "idle"]
      /\ monitorState' = IF request = "other" THEN monitorState ELSE request = "enable"
      /\ late' = IF request = "disable" THEN 0 ELSE late
      /\ request' = "none"
  BY DEF SetState, Goes, netVars, bufferVars, writerVars
<1>1. \A v \in Writers : pc'[v] = IF v = Reader THEN "idle" ELSE pc[v]
  BY <1>0 DEF Types
<1>2. Types'
  <2>1. monitorState' \in BOOLEAN
    BY <1>0 DEF Types
  <2> QED
    BY <1>0, <2>1 DEF Types, States, Requests
<1>3. Lists' /\ Locked' /\ Flushed'
  BY <1>0, <1>1, ReaderWrites DEF Lists, Locked, Flushed, Writing
<1>4. AskedFirst'
  <2>1. monitorState' => enabled'
    BY <1>0 DEF AskedFirst
  <2>2. \A v \in Apps : pc'[v] = pc[v]
    BY <1>1, ReaderWrites, OutputAssumption
  <2> QED
    BY <1>0, <1>1, <2>1, <2>2, ReaderWrites DEF AskedFirst
<1>5. LateOnes'
  <2>1. Entering' = Entering
    BY <1>1, ReaderWrites, OutputAssumption DEF Entering
  <2>2. CASE request = "disable"
    <3>1. late' = 0
      BY <1>0, <2>2
    <3> QED
      BY <2>1, <3>1, Sizes DEF LateOnes
  <2>3. CASE request # "disable"
    <3>1. late' = late /\ (~monitorState' => ~monitorState)
      BY <1>0, <2>3, ReaderWrites DEF Types, Requests, AskedFirst
    <3> QED
      BY <2>1, <3>1 DEF LateOnes
  <2> QED
    BY <2>2, <2>3
<1> QED
  BY <1>2, <1>3, <1>4, <1>5

LEMMA StutterKeeps == ASSUME IInv, UNCHANGED vars PROVE IInv'
BY DEF IInv, Types, Lists, Locked, Flushed, AskedFirst, LateOnes, Entering, vars, netVars,
       bufferVars, writerVars, monitorVars

LEMMA StepHolds == IInv /\ [Next]_vars => IInv'
<1> SUFFICES ASSUME IInv, [Next]_vars PROVE IInv'
  OBVIOUS
<1>1. CASE Network
  BY <1>1, ConnectKeeps, GoneKeeps DEF Network
<1>2. CASE \E r \in Requests \ {"none"} : StartResponse(r)
  BY <1>2, StartResponseKeeps
<1>3. CASE \E w \in Apps : StartUpdate(w)
  BY <1>3, StartUpdateKeeps
<1>4. CASE \E w \in Writers : Write(w)
  BY <1>4, EnterWriteKeeps, WriteByteKeeps, WriteEndsKeeps, FlushFailsKeeps, FlushSendsKeeps,
     FlushSendsPartKeeps DEF Write
<1>5. CASE SetState
  BY <1>5, SetStateKeeps
<1>6. CASE UNCHANGED vars
  BY <1>6, StutterKeeps
<1> QED
  BY <1>1, <1>2, <1>3, <1>4, <1>5, <1>6 DEF Next

LEMMA Always == Spec => []IInv
BY InitHolds, StepHolds, PTL DEF Spec

-----------------------------------------------------------------------------
(* What each client gets.                                                   *)

\* What the writer that has the lock has still to store of its message.
Rest ==
  IF lock = NoWriter THEN << >>
  ELSE SubSeq(Bytes(lock, message[lock]), next[lock], Length(lock))

\* What client c has been sent and will be, unless a send fails.
Coming(c) == wire[c] \o (buffer \o Rest)

\* A client gets what is intended for it, after what the last client left when it
\* has connected in the middle of a message; what is left is sent before anything
\* intended, and what a client has been sent stays a part of what was intended.
Served(c) ==
  /\ client = c => \E lead \in Seq(AnyByte) :
                     /\ Coming(c) = lead \o intended[c]
                     /\ c \notin spoiled => lead = << >>
  /\ client = c /\ lock = NoWriter /\ buffer # << >> => intended[c] = << >>
  /\ client # c /\ c \notin spoiled => IsPrefix(wire[c], intended[c])
  /\ c > last => wire[c] = << >> /\ intended[c] = << >>

\* The client is the last one; a writer leaves the lock when its message is stored.
Orderly ==
  /\ client # NoClient => client = last
  /\ \A w \in Writers : pc[w] = "exit" => next[w] > Length(w)

Whole == Orderly /\ \A c \in Clients \ failed : Served(c)

LEMMA PrefixOf ==
  ASSUME NEW S, NEW s \in Seq(S), NEW t \in Seq(S)
  PROVE  IsPrefix(s, s \o t)
<1>1. Len(s) <= Len(s \o t)
  BY ConcatProperties, LenProperties
<1>2. SubSeq(s, 1, Len(s)) = SubSeq(s \o t, 1, Len(s))
  <2>1. \A i \in 1 .. Len(s) : (s \o t)[i] = s[i]
    BY ConcatProperties, LenProperties
  <2> QED
    BY <2>1, LenProperties
<1> QED
  BY <1>1, <1>2 DEF IsPrefix

LEMMA SuffixOf ==
  ASSUME NEW S, NEW s \in Seq(S), NEW t \in Seq(S)
  PROVE  IsSuffix(t, s \o t)
<1> DEFINE u == s \o t
<1>1. /\ Len(u) = Len(s) + Len(t) /\ Len(s) \in Nat /\ Len(t) \in Nat
      /\ \A i \in 1 .. Len(s) + Len(t) : u[i] = IF i <= Len(s) THEN s[i] ELSE t[i - Len(s)]
  BY ConcatProperties, LenProperties
<1>2. /\ Len(Reverse(t)) = Len(t) /\ Len(Reverse(u)) = Len(u)
      /\ \A i \in 1 .. Len(t) : Reverse(t)[i] = t[Len(t) - i + 1]
      /\ \A i \in 1 .. Len(u) : Reverse(u)[i] = u[Len(u) - i + 1]
  BY <1>1 DEF Reverse
<1> HIDE DEF u
<1>3. ASSUME NEW i \in 1 .. Len(t)
      PROVE  Reverse(u)[i] = Reverse(t)[i]
  <2>1. i \in 1 .. Len(u) /\ Len(u) - i + 1 \in 1 .. Len(s) + Len(t)
    BY <1>1
  <2>2. Reverse(u)[i] = u[Len(u) - i + 1]
    BY <1>2, <2>1
  <2>3. u[Len(u) - i + 1] = t[Len(u) - i + 1 - Len(s)]
    BY <1>1, <2>1
  <2>4. Len(u) - i + 1 - Len(s) = Len(t) - i + 1
    BY <1>1
  <2> QED
    BY <1>2, <2>2, <2>3, <2>4
<1>4. SubSeq(Reverse(t), 1, Len(t)) = SubSeq(Reverse(u), 1, Len(t))
  <2>1. \A r : SubSeq(r, 1, Len(t)) = [i \in 1 .. Len(t) |-> r[i]]
    BY <1>1
  <2>2. [i \in 1 .. Len(t) |-> Reverse(t)[i]] = [i \in 1 .. Len(t) |-> Reverse(u)[i]]
    BY <1>3
  <2> QED
    BY <2>1, <2>2
<1>5. IsSuffix(t, u)
  BY <1>1, <1>2, <1>4 DEF IsSuffix, IsPrefix
<1> QED
  BY <1>5 DEF u

LEMMA RestTyped ==
  ASSUME IInv
  PROVE  Rest \in Seq(AnyByte)
<1>1. CASE lock = NoWriter
  BY <1>1 DEF Rest
<1>2. CASE lock # NoWriter
  <2>1. lock \in Writers /\ message[lock] \in 1 .. MaxMessages
    BY <1>2, OutputAssumption DEF IInv, Types, Locked
  <2>2. /\ Bytes(lock, message[lock]) \in Seq(AnyByte)
        /\ Len(Bytes(lock, message[lock])) = Length(lock) /\ Length(lock) \in Nat
    BY <2>1, BytesTyped
  <2>3. next[lock] \in Int /\ next[lock] >= 1
    BY <2>1, OutputAssumption DEF IInv, Types, Numbers
  <2>4. \A i \in next[lock] .. Length(lock) : Bytes(lock, message[lock])[i] \in AnyByte
    BY <2>2, <2>3, ElementOfSeq
  <2> QED
    BY <1>2, <2>2, <2>3, <2>4, SubSeqProperties DEF Rest
<1> QED
  BY <1>1, <1>2

LEMMA InitWhole == Init => Whole
<1> SUFFICES ASSUME Init PROVE Whole
  OBVIOUS
<1>1. Orderly
  BY DEF Init, Orderly
<1>2. ASSUME NEW c \in Clients PROVE Served(c)
  <2>1. client # c /\ wire[c] = << >> /\ intended[c] = << >>
    BY ClientsAre DEF Init
  <2>2. IsPrefix(wire[c], intended[c])
    BY <2>1 DEF IsPrefix
  <2> QED
    BY <2>1, <2>2 DEF Served
<1> QED
  BY <1>1, <1>2 DEF Whole

\* A client that is not served keeps what it has been sent.
LEMMA Unserved ==
  ASSUME NEW c \in Clients, Served(c), client # c, UNCHANGED <<client, last, spoiled>>,
         wire'[c] = wire[c], intended'[c] = intended[c]
  PROVE  Served(c)'
BY DEF Served

\* What is stored and sent on its way to the client is the same altogether.
LEMMA OnItsWay ==
  ASSUME NEW c \in Clients, Served(c), client = c, Orderly, UNCHANGED <<client, last, spoiled>>,
         intended'[c] = intended[c], Coming(c)' = Coming(c),
         lock' = NoWriter => buffer' = << >>
  PROVE  Served(c)'
<1>1. ~(c > last)
  BY ClientsAre DEF Orderly
<1> QED
  BY <1>1 DEF Served

LEMMA ConnectWhole ==
  ASSUME IInv, Whole, Connect
  PROVE  Whole'
<1>0. /\ client = NoClient /\ last < MaxClients /\ last' = last + 1 /\ client' = last'
      /\ spoiled' = IF buffer # << >> \/ lock # NoWriter THEN spoiled \cup {last'} ELSE spoiled
      /\ UNCHANGED <<wire, buffer, failed, lock, message, next, intended, pc>>
  BY DEF Connect, bufferVars, writerVars, monitorVars
<1>1. last \in Nat /\ last' \in Nat
  BY <1>0, ClientsAre DEF IInv, Types
<1>2. Orderly'
  BY <1>0 DEF Whole, Orderly
<1>3. ASSUME NEW c \in Clients \ failed
      PROVE  Served(c)'
  <2>1. Served(c) /\ client # c /\ c \in Nat
    BY <1>0, ClientsAre DEF Whole
  <2>2. CASE c = last'
    <3>1. wire[c] = << >> /\ intended[c] = << >>
      BY <1>0, <1>1, <2>1, <2>2 DEF Served
    <3>2. buffer \o Rest \in Seq(AnyByte) /\ Rest' = Rest
      BY <1>0, RestTyped, Concatenated DEF IInv, Lists, Rest
    <3>3. Coming(c)' = (buffer \o Rest) \o intended'[c]
      BY <1>0, <3>1, <3>2, ConcatEmptySeq DEF Coming
    <3>4. c \notin spoiled' => buffer \o Rest = << >>
      BY <1>0, <2>2 DEF Rest
    <3> QED
      BY <1>0, <1>1, <2>2, <3>1, <3>2, <3>3, <3>4 DEF Served
  <2>3. CASE c # last'
    <3>1. client' # c /\ (c > last' => c > last) /\ (c \notin spoiled' => c \notin spoiled)
      BY <1>0, <1>1, <2>1, <2>3
    <3> QED
      BY <1>0, <2>1, <3>1 DEF Served
  <2> QED
    BY <2>2, <2>3
<1> QED
  BY <1>0, <1>2, <1>3 DEF Whole

\* What a client that goes has been sent stays a part of what was intended.
LEMMA GoneWhole ==
  ASSUME IInv, Whole, HangUp \/ ClearSocket
  PROVE  Whole'
<1>0. /\ UNCHANGED <<last, spoiled, wire, buffer, failed, lock, message, next, intended, pc>>
      /\ client' = client \/ client' = NoClient
  BY Zenon DEF HangUp, ClearSocket, bufferVars, writerVars, monitorVars
<1>1. Orderly'
  BY <1>0 DEF Whole, Orderly
<1>2. ASSUME NEW c \in Clients \ failed
      PROVE  Served(c)'
  <2>1. Served(c)
    BY DEF Whole
  <2>2. Coming(c)' = Coming(c)
    BY <1>0 DEF Coming, Rest
  <2>3. CASE client' = client
    BY <1>0, <2>1, <2>2, <2>3 DEF Served
  <2>4. CASE client' = NoClient /\ client = c
    <3>1. c \notin spoiled => IsPrefix(wire[c], intended[c])
      <4> SUFFICES ASSUME c \notin spoiled PROVE IsPrefix(wire[c], intended[c])
        OBVIOUS
      <4>1. Coming(c) = << >> \o intended[c] /\ intended[c] \in Seq(AnyByte)
        BY <2>1, <2>4 DEF Served, IInv, Lists
      <4>2. wire[c] \in Seq(AnyByte) /\ buffer \o Rest \in Seq(AnyByte)
        BY RestTyped, Concatenated DEF IInv, Lists
      <4>3. IsPrefix(wire[c], Coming(c))
        BY <4>2, PrefixOf DEF Coming
      <4>4. Coming(c) = intended[c]
        BY <4>1, ConcatEmptySeq
      <4> QED
        BY <4>3, <4>4
    <3>2. client' # c
      BY <2>4, ClientsAre
    <3> QED
      BY <1>0, <2>1, <3>1, <3>2 DEF Served
  <2>5. CASE client' = NoClient /\ client # c
    <3>1. client' # c
      BY <2>5, ClientsAre
    <3> QED
      BY <1>0, <2>1, <2>5, <3>1 DEF Served
  <2> QED
    BY <1>0, <2>3, <2>4, <2>5
<1> QED
  BY <1>0, <1>1, <1>2 DEF Whole

\* Steps that neither store nor send leave every client as it is.
LEMMA AsideWhole ==
  ASSUME IInv, Whole,
         UNCHANGED <<client, last, spoiled, wire, buffer, failed, lock, message, next, intended>>,
         \A w \in Writers : pc'[w] = "exit" => pc[w] = "exit" \/ next[w] > Length(w)
  PROVE  Whole'
<1>1. Orderly'
  BY DEF Whole, Orderly
<1>2. ASSUME NEW c \in Clients, Served(c)
      PROVE  Served(c)'
  BY <1>2 DEF Served, Coming, Rest
<1> QED
  BY <1>1, <1>2 DEF Whole

LEMMA OthersWhole ==
  ASSUME IInv, Whole,
         \/ \E r \in Requests \ {"none"} : StartResponse(r)
         \/ \E w \in Apps : StartUpdate(w)
         \/ \E w \in Writers : WriteEnds(w)
         \/ SetState
         \/ UNCHANGED vars
  PROVE  Whole'
<1>1. UNCHANGED <<client, last, spoiled, wire, buffer, failed, lock, message, next, intended>>
  BY DEF StartResponse, StartUpdate, WriteEnds, SetState, vars, netVars, bufferVars, writerVars
<1>2. ASSUME NEW v \in Writers, pc'[v] = "exit"
      PROVE  pc[v] = "exit" \/ next[v] > Length(v)
  <2>1. CASE \E w \in Writers : WriteEnds(w)
    BY <1>2, <2>1 DEF WriteEnds, Goes, IInv, Types
  <2>2. CASE ~\E w \in Writers : WriteEnds(w)
    BY <1>2, <2>2 DEF StartResponse, StartUpdate, SetState, Goes, vars, IInv, Types
  <2> QED
    BY <2>1, <2>2
<1> QED
  BY <1>1, <1>2, AsideWhole

\* Concatenation under a name the provers do not look behind.
Joined(s, t) == s \o t

LEMMA Associative ==
  ASSUME NEW S, NEW s \in Seq(S), NEW t \in Seq(S), NEW end \in Seq(S)
  PROVE  Joined(Joined(s, t), end) = Joined(s, Joined(t, end))
BY ConcatAssociative DEF Joined

LEMMA BothLonger ==
  ASSUME NEW S, NEW s \in Seq(S), NEW t \in Seq(S), NEW u \in Seq(S), NEW v \in Seq(S),
         NEW end \in Seq(S), Joined(s, t) = Joined(u, v)
  PROVE  Joined(s, Joined(t, end)) = Joined(u, Joined(v, end))
<1>1. Joined(Joined(s, t), end) = Joined(s, Joined(t, end))
  BY Associative
<1>2. Joined(Joined(u, v), end) = Joined(u, Joined(v, end))
  BY Associative
<1> QED
  BY <1>1, <1>2

\* A message is intended for the client that is there when the lock is taken.
LEMMA EnterWriteWhole ==
  ASSUME IInv, Whole, NEW w \in Writers, EnterWrite(w)
  PROVE  Whole'
<1> DEFINE bytes == Bytes(w, message'[w])
<1>0. /\ UNCHANGED <<client, last, spoiled, wire, buffer, failed>>
      /\ pc[w] = "enter" /\ pc' = [pc EXCEPT ![w] = "write"]
      /\ lock = NoWriter /\ lock' = w
      /\ message' = [message EXCEPT ![w] = @ + 1]
      /\ next' = [next EXCEPT ![w] = 1]
      /\ intended' = [c \in Clients |->
                        IF c = client THEN intended[c] \o bytes ELSE intended[c]]
  BY DEF EnterWrite, Goes, netVars, bufferVars
<1>1. bytes \in Seq(AnyByte) /\ Len(bytes) = Length(w)
  <2>1. message'[w] \in 1 .. MaxMessages
    BY <1>0, OutputAssumption DEF IInv, Types, Locked
  <2> QED
    BY <2>1, BytesTyped
<1>2. Rest = << >> /\ Rest' = bytes
  <2>1. next'[w] = 1 /\ w # NoWriter
    BY <1>0, ReaderWrites DEF IInv, Types
  <2>2. SubSeq(bytes, 1, Length(w)) = bytes
    BY <1>1, SubSeqFull
  <2>3. Rest' = SubSeq(Bytes(lock', message'[lock']), next'[lock'], Length(lock'))
    BY <1>0, <2>1 DEF Rest, Bytes, Length
  <2> QED
    BY <1>0, <2>1, <2>2, <2>3 DEF Rest
<1> HIDE DEF bytes
<1>3. Orderly'
  BY <1>0 DEF Whole, Orderly, IInv, Types
<1>4. ASSUME NEW c \in Clients \ failed
      PROVE  Served(c)'
  <2>1. Served(c)
    BY DEF Whole
  <2>2. CASE client # c
    BY <1>0, <2>1, <2>2, Unserved
  <2>3. CASE client = c
    <3>1. PICK lead \in Seq(AnyByte) : /\ Coming(c) = lead \o intended[c]
                                       /\ c \notin spoiled => lead = << >>
      BY <2>1, <2>3 DEF Served
    <3>2. wire[c] \in Seq(AnyByte) /\ buffer \in Seq(AnyByte) /\ intended[c] \in Seq(AnyByte)
      BY DEF IInv, Lists
    <3>3. PICK sent \in Seq(AnyByte), stored \in Seq(AnyByte), new \in Seq(AnyByte),
               before \in Seq(AnyByte) :
            sent = wire[c] /\ stored = buffer /\ new = bytes /\ before = intended[c]
      BY <1>1, <3>2
    <3>4. Coming(c) = sent \o stored /\ Coming(c)' = sent \o (stored \o new)
      BY <1>0, <1>2, <3>2, <3>3, ConcatEmptySeq DEF Coming
    <3>5. Coming(c)' = lead \o (intended[c] \o bytes)
      <4>1. Joined(sent, stored) = Joined(lead, before)
        BY <3>1, <3>3, <3>4 DEF Joined
      <4>2. Joined(sent, Joined(stored, new)) = Joined(lead, Joined(before, new))
        BY <4>1, BothLonger
      <4> QED
        BY <3>3, <3>4, <4>2 DEF Joined
    <3>6. intended'[c] = intended[c] \o bytes
      BY <1>0, <2>3
    <3>7. lock' # NoWriter /\ ~(c > last)
      BY <1>0, <2>3, ReaderWrites, ClientsAre DEF Whole, Orderly
    <3> QED
      BY <1>0, <2>3, <3>1, <3>5, <3>6, <3>7 DEF Served
  <2> QED
    BY <2>2, <2>3
<1> QED
  BY <1>0, <1>3, <1>4 DEF Whole

LEMMA AppendAndConcat ==
  ASSUME NEW S, NEW b \in Seq(S), NEW e \in S, NEW d \in Seq(S)
  PROVE  Append(b, e) \o d = b \o (<<e>> \o d)
<1>1. Append(b, e) = b \o <<e>> /\ <<e>> \in Seq(S)
  OBVIOUS
<1>2. PICK c \in Seq(S) : c = <<e>>
  BY <1>1
<1>3. (b \o c) \o d = b \o (c \o d)
  BY ConcatAssociative
<1> QED
  BY <1>1, <1>2, <1>3

LEMMA StoredAndRest ==
  ASSUME NEW S, NEW s \in Seq(S), NEW b \in Seq(S), NEW k \in 1 .. Len(s)
  PROVE  Append(b, s[k]) \o SubSeq(s, k + 1, Len(s)) = b \o SubSeq(s, k, Len(s))
<1>1. Len(s) \in Nat /\ \A i \in 1 .. Len(s) : s[i] \in S
  BY ElementOfSeq, LenProperties
<1>2. PICK e \in S : e = s[k]
  BY <1>1
<1>3. SubSeq(s, k + 1, Len(s)) \in Seq(S)
  BY <1>1, SubSeqProperties
<1>4. PICK d \in Seq(S) : d = SubSeq(s, k + 1, Len(s))
  BY <1>3
<1>5. Append(b, e) \o d = b \o (<<e>> \o d)
  BY AppendAndConcat
<1>6. SubSeq(s, k, Len(s)) = <<e>> \o d
  BY <1>1, <1>2, <1>4, SubSeqRecursiveFirst
<1> QED
  BY <1>2, <1>4, <1>5, <1>6

\* A byte moves from the rest of the message to the buffer.
LEMMA WriteByteWhole ==
  ASSUME IInv, Whole, NEW w \in Writers, WriteByte(w)
  PROVE  Whole'
<1> DEFINE bytes == Bytes(w, message[w])
<1>0. /\ UNCHANGED <<client, last, spoiled, wire, failed, lock, message, intended>>
      /\ next[w] <= Length(w) /\ next' = [next EXCEPT ![w] = @ + 1]
      /\ client # NoClient => buffer' = Append(buffer, <<w, message[w], next[w]>>)
      /\ pc[w] = "write"
      /\ pc' = [pc EXCEPT ![w] = IF client # NoClient /\ Len(buffer') = BufferSize
                                 THEN "flushFull" ELSE "write"]
  BY DEF WriteByte, Goes, netVars, monitorVars
<1>1. lock = w /\ w # NoWriter /\ message[w] \in 1 .. MaxMessages
  BY <1>0, ReaderWrites, OutputAssumption DEF IInv, Types, Locked, Writing
<1>2. /\ bytes \in Seq(AnyByte) /\ Len(bytes) = Length(w)
      /\ bytes[next[w]] = <<w, message[w], next[w]>> /\ next[w] \in 1 .. Len(bytes)
  <2>1. bytes \in Seq(AnyByte) /\ Len(bytes) = Length(w) /\ Length(w) \in Nat
    BY <1>1, BytesTyped
  <2>2. next[w] \in 1 .. Length(w)
    BY <1>0, <2>1, OutputAssumption DEF IInv, Types, Numbers
  <2> QED
    BY <2>1, <2>2 DEF Bytes
<1>3. /\ Rest = SubSeq(bytes, next[w], Len(bytes))
      /\ Rest' = SubSeq(bytes, next[w] + 1, Len(bytes))
  <2>1. next'[w] = next[w] + 1
    BY <1>0 DEF IInv, Types
  <2> QED
    BY <1>0, <1>1, <1>2, <2>1 DEF Rest, Bytes, Length
<1> HIDE DEF bytes
<1>4. Orderly'
  <2>1. \A v \in Writers : pc'[v] = "exit" => v # w /\ pc[v] = "exit" /\ next'[v] = next[v]
    BY <1>0 DEF IInv, Types
  <2> QED
    BY <1>0, <2>1 DEF Whole, Orderly, Length
<1>5. ASSUME NEW c \in Clients \ failed
      PROVE  Served(c)'
  <2>1. Served(c) /\ Orderly
    BY DEF Whole
  <2>2. CASE client # c
    BY <1>0, <2>1, <2>2, Unserved
  <2>3. CASE client = c
    <3>1. buffer' = Append(buffer, bytes[next[w]])
      BY <1>0, <1>2, <2>3, ClientsAre
    <3>2. buffer \in Seq(AnyByte)
      BY DEF IInv, Lists
    <3>3. buffer' \o Rest' = buffer \o Rest
      BY <1>2, <1>3, <3>1, <3>2, StoredAndRest
    <3>4. Coming(c)' = Coming(c)
      BY <1>0, <3>3 DEF Coming
    <3>5. lock' # NoWriter
      BY <1>0, <1>1
    <3> QED
      BY <1>0, <2>1, <2>3, <3>4, <3>5, OnItsWay
  <2> QED
    BY <2>2, <2>3
<1> QED
  BY <1>0, <1>4, <1>5 DEF Whole

\* Leaving the lock, or going on after a flush, leaves the rest as it is.
LEMMA AfterFlushRest ==
  ASSUME IInv, Orderly, NEW w \in Writers, pc[w] \in {"flushFull", "exit"}, AfterFlush(w)
  PROVE  /\ Rest' = Rest /\ Orderly'
         /\ UNCHANGED <<client, last, spoiled, intended>>
<1>0. /\ UNCHANGED <<client, last, spoiled, intended, message, next>>
      /\ pc' = [pc EXCEPT ![w] = IF pc[w] = "flushFull" THEN "write"
                                 ELSE IF w = Reader THEN "setState" ELSE "idle"]
      /\ lock' = IF pc[w] = "exit" THEN NoWriter ELSE lock
  BY DEF AfterFlush, netVars
<1>1. lock = w /\ w # NoWriter
  BY ReaderWrites DEF IInv, Locked, Writing
<1>2. Orderly'
  BY <1>0 DEF Orderly, IInv, Types, Length
<1>3. CASE pc[w] = "exit"
  <2>1. next[w] > Length(w) /\ next[w] \in Int /\ Length(w) \in Int
    BY <1>3, OutputAssumption DEF Orderly, IInv, Types, Numbers, Length
  <2>2. Rest = << >>
    BY <1>1, <2>1, SubSeqEmpty DEF Rest
  <2> QED
    BY <1>0, <1>2, <1>3, <2>2 DEF Rest
<1>4. CASE pc[w] # "exit"
  BY <1>0, <1>2, <1>4 DEF Rest
<1> QED
  BY <1>3, <1>4

LEMMA FlushFailsWhole ==
  ASSUME IInv, Whole, NEW w \in Writers, FlushFails(w)
  PROVE  Whole'
<1>0. /\ pc[w] \in {"flushFull", "exit"} /\ AfterFlush(w)
      /\ failed' = failed \cup {last} /\ UNCHANGED <<buffer, wire>>
  BY DEF FlushFails
<1>1. Orderly' /\ UNCHANGED <<client, last, spoiled, intended>>
  BY <1>0, AfterFlushRest DEF Whole
<1>2. ASSUME NEW c \in Clients \ failed'
      PROVE  Served(c)'
  <2>1. Served(c) /\ client # c
    BY <1>0, ClientsAre DEF Whole, Orderly
  <2> QED
    BY <1>0, <1>1, <2>1, Unserved
<1> QED
  BY <1>1, <1>2 DEF Whole

LEMMA FlushSendsPartWhole ==
  ASSUME IInv, Whole, NEW w \in Writers, FlushSendsPart(w)
  PROVE  Whole'
<1>0. /\ pc[w] \in {"flushFull", "exit"}
      /\ \E k \in 1 .. Len(buffer) - 1 :
           wire' = [wire EXCEPT ![client] = @ \o SubSeq(buffer, 1, k)]
      /\ failed' = failed \cup {client}
      /\ \/ UNCHANGED <<buffer, netVars, writerVars, monitorVars, pc>>
         \/ buffer' = << >> /\ AfterFlush(w)
  BY DEF FlushSendsPart
<1>1. Orderly' /\ UNCHANGED <<client, last, spoiled, intended>>
  <2>1. CASE UNCHANGED <<buffer, netVars, writerVars, monitorVars, pc>>
    BY <2>1 DEF netVars, writerVars, Whole, Orderly, Length
  <2>2. CASE AfterFlush(w)
    BY <1>0, <2>2, AfterFlushRest DEF Whole
  <2> QED
    BY <1>0, <2>1, <2>2
<1>2. ASSUME NEW c \in Clients \ failed'
      PROVE  Served(c)'
  <2>1. Served(c) /\ client # c
    BY <1>0 DEF Whole
  <2>2. wire'[c] = wire[c]
    BY <1>0, <2>1 DEF IInv, Lists
  <2> QED
    BY <1>1, <2>1, <2>2, Unserved
<1> QED
  BY <1>1, <1>2 DEF Whole

\* The buffer moves to what has been sent.
LEMMA FlushSendsWhole ==
  ASSUME IInv, Whole, NEW w \in Writers, FlushSends(w)
  PROVE  Whole'
<1>0. /\ pc[w] \in {"flushFull", "exit"} /\ AfterFlush(w)
      /\ wire' = [c \in Clients |-> IF c = client THEN wire[c] \o buffer ELSE wire[c]]
      /\ buffer' = << >> /\ failed' = failed
  BY DEF FlushSends
<1>1. Rest' = Rest /\ Orderly' /\ UNCHANGED <<client, last, spoiled, intended>>
  BY <1>0, AfterFlushRest DEF Whole
<1>2. ASSUME NEW c \in Clients \ failed
      PROVE  Served(c)'
  <2>1. Served(c) /\ Orderly
    BY DEF Whole
  <2>2. CASE client # c
    BY <1>0, <1>1, <2>1, <2>2, Unserved
  <2>3. CASE client = c
    <3>1. wire[c] \in Seq(AnyByte) /\ buffer \in Seq(AnyByte) /\ Rest \in Seq(AnyByte)
      BY RestTyped DEF IInv, Lists
    <3>2. Coming(c)' = (wire[c] \o buffer) \o Rest
      BY <1>0, <1>1, <2>3, <3>1, ConcatEmptySeq DEF Coming
    <3>3. Coming(c)' = Coming(c)
      <4>1. PICK sent \in Seq(AnyByte), stored \in Seq(AnyByte), rest \in Seq(AnyByte) :
              sent = wire[c] /\ stored = buffer /\ rest = Rest
        BY <3>1
      <4>2. (sent \o stored) \o rest = sent \o (stored \o rest)
        BY ConcatAssociative
      <4> QED
        BY <3>2, <4>1, <4>2 DEF Coming
    <3> QED
      BY <1>0, <1>1, <2>1, <2>3, <3>3, OnItsWay
  <2> QED
    BY <2>2, <2>3
<1> QED
  BY <1>0, <1>1, <1>2 DEF Whole

LEMMA AlwaysWhole == Spec => [](IInv /\ Whole)
<1>1. Init => IInv /\ Whole
  BY InitHolds, InitWhole
<1>2. IInv /\ Whole /\ [Next]_vars => (IInv /\ Whole)'
  BY StepHolds, ConnectWhole, GoneWhole, OthersWhole, EnterWriteWhole, WriteByteWhole,
     FlushFailsWhole, FlushSendsWhole, FlushSendsPartWhole DEF Next, Network, Write
<1> QED
  BY <1>1, <1>2, PTL DEF Spec

-----------------------------------------------------------------------------
(* The theorems.                                                            *)

\* Every variable keeps its type, and the buffer is not overrun until a send
\* fails or takes a part (sq_stream_tcp.c:217-268).
THEOREM AlwaysTyped == Spec => []TypeOK
<1>1. IInv => TypeOK
  <2> SUFFICES ASSUME IInv PROVE TypeOK
    OBVIOUS
  <2>1. Types /\ Lists /\ Flushed
    BY DEF IInv
  <2> QED
    BY <2>1 DEF Types, Lists, Flushed, States, Numbers, TypeOK
<1> QED
  BY <1>1, Always, PTL

\* Whoever was connected gets every message written for it whole and in the order
\* of the lock, after what the last client left at most; a client that connects
\* between two messages gets nothing else (sq_stream_tcp.c:217-268, 323-333).
THEOREM MessagesAlwaysWhole == Spec => []MessagesAreWhole
<1>1. IInv /\ Whole => MessagesAreWhole
  <2> SUFFICES ASSUME IInv, Whole, NEW c \in Clients \ failed
               PROVE  /\ client = c /\ lock = NoWriter => IsSuffix(intended[c], wire[c])
                      /\ c \notin spoiled => IsPrefix(wire[c], intended[c])
    BY DEF MessagesAreWhole
  <2>1. /\ Served(c) /\ wire[c] \in Seq(AnyByte) /\ intended[c] \in Seq(AnyByte)
        /\ buffer \in Seq(AnyByte) /\ Rest \in Seq(AnyByte) /\ buffer \o Rest \in Seq(AnyByte)
    BY RestTyped, Concatenated DEF IInv, Lists, Whole
  <2>2. ASSUME client = c, c \notin spoiled
        PROVE  IsPrefix(wire[c], intended[c])
    <3>1. Coming(c) = << >> \o intended[c]
      BY <2>1, <2>2 DEF Served
    <3>2. Coming(c) = intended[c]
      BY <2>1, <3>1, ConcatEmptySeq
    <3> QED
      BY <2>1, <3>2, PrefixOf DEF Coming
  <2>3. ASSUME client = c, lock = NoWriter
        PROVE  IsSuffix(intended[c], wire[c])
    <3>1. CASE buffer = << >>
      <4>1. PICK lead \in Seq(AnyByte) : Coming(c) = lead \o intended[c]
        BY <2>1, <2>3 DEF Served
      <4>2. buffer \o Rest = << >>
        BY <2>3, <3>1 DEF Rest
      <4>3. Coming(c) = wire[c]
        BY <2>1, <4>2, ConcatEmptySeq DEF Coming
      <4> QED
        BY <2>1, <4>1, <4>3, SuffixOf
    <3>2. CASE buffer # << >>
      <4>1. intended[c] = << >>
        BY <2>1, <2>3, <3>2 DEF Served
      <4>2. wire[c] = wire[c] \o intended[c]
        BY <2>1, <4>1, ConcatEmptySeq
      <4>3. IsSuffix(intended[c], wire[c] \o intended[c])
        BY <2>1, SuffixOf
      <4> QED
        BY <4>2, <4>3
    <3> QED
      BY <3>1, <3>2
  <2>4. client # c /\ c \notin spoiled => IsPrefix(wire[c], intended[c])
    BY <2>1 DEF Served
  <2> QED
    BY <2>2, <2>3, <2>4
<1> QED
  BY <1>1, AlwaysWhole, PTL

\* No update is written before an ENABLE has been answered, and after a DISABLE
\* one at most of each thread (automation_functions.c:254-261,
\* generate_automation_defines.py:997-1038).
THEOREM UpdatesAlwaysAsked == Spec => []UpdatesAreAsked
<1>1. IInv => UpdatesAreAsked
  BY DEF IInv, AskedFirst, LateOnes, UpdatesAreAsked
<1> QED
  BY <1>1, Always, PTL

\* Two writers never use the buffer at once (sq_stream_tcp.c:323-333).
THEOREM OneWriter ==
  Spec => [](\A v, w \in Writers : pc[v] \in Writing /\ pc[w] \in Writing => v = w)
<1>1. IInv => \A v, w \in Writers : pc[v] \in Writing /\ pc[w] \in Writing => v = w
  BY DEF IInv, Locked
<1> QED
  BY <1>1, Always, PTL

=============================================================================
