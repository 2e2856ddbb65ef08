------------------------------- MODULE QtWindows -------------------------------
(***************************************************************************)
(* machine_automation inside a Qt application: the reader of the server    *)
(* asks about widgets, which only the UI thread may touch.  It posts an    *)
(* event to the application and waits for it; an event filter on the UI    *)
(* thread answers (QtAutomationEventWithSynchronization.h,                 *)
(* QtApplicationMachineAutomationEventFilter.cxx, windows_qt.cxx).         *)
(* qt_automation closes and opens the connection while this goes on: the   *)
(* first on a thread of its own, so that both may happen at once.          *)
(*                                                                         *)
(* An object of the host is the address of a widget, then a row and a      *)
(* column of a table, as characters.  The model has the desktop, a window  *)
(* and a child of it, each at an address that may hold another widget      *)
(* later.  Streams are numbered; what StreamTcp tells of their threads is  *)
(* left out, and of all streams one at a time has a reader.                *)
(***************************************************************************)
EXTENDS Integers, Sequences, FiniteSets

CONSTANTS
  RowCount, ColumnCount,  \* the size of a table
  CharLimit,              \* CHAR_MAX + 1
  Actions,                \* the number of actions that a widget has
  Asked,                  \* the commands of the requests
  Clicked,                \* the buttons of the main window that somebody clicks
  MaxStreams              \* bound: the streams at a time

ASSUME QtAssumption ==
  /\ RowCount \in Nat /\ ColumnCount \in Nat /\ Actions \in Nat
  /\ CharLimit \in Nat \ {0} /\ MaxStreams \in Nat \ {0}
  /\ Asked \subseteq {"DESKTOP0", "CAPTURE_SCREEN", "NAME", "ROLE", "TEXT", "X", "Y", "WIDTH",
                     "HEIGHT", "CHILDREN", "CHILD", "ACTIONS", "ACTION_NAME", "ACTION_DO"}
  /\ Clicked \subseteq {"close", "open"}

VARIABLES
  kind,      \* what is at each address: a "plain" widget, a "table" or "none"
  visible,   \* the addresses of visible widgets
  rows,      \* the rows of a table that are not hidden
  columns,   \* the columns that are not hidden
  filter,    \* is the event filter installed?
  buttons,   \* the buttons that are enabled
  closer,    \* close_connection: "none", "started", "removed", "shut" or "freed"
  closing,   \* the stream that it closes
  opener,    \* the stream that open_connection has opened and not yet polled
  streams,   \* the streams that have been opened and not freed
  current,   \* m_stream of the server
  port,      \* the stream that listens on the port
  reader,    \* "gone", "idle", "posted", "waiting", "woken" or "returning"
  served,    \* the stream that it is the reader of
  via,       \* the stream that it will write the answer to
  event,     \* its event: the command, the object and the index
  queued,    \* is the event in the queue of the application?
  alive,     \* is the event not deleted?
  lock,      \* m_lock: "reader" or "none" (the UI thread takes it in one step)
  result,    \* m_result
  ui,        \* the UI thread: "free", or with an event: "trigger", "done",
             \* "leave" (it waits for m_doneLock) or "left"
  value,     \* what the UI thread gives to done
  fault      \* what the program has died of: "none", "stream" or "index"

treeVars == <<kind, visible, rows, columns>>
closeVars == <<filter, buttons, closer, closing>>
serverVars == <<opener, streams, current, port>>
readerVars == <<reader, served, via>>
eventVars == <<event, queued, alive, lock, result>>
uiVars == <<ui, value>>
vars == <<treeVars, closeVars, serverVars, readerVars, eventVars, uiVars, fault>>

Widgets == {"desktop", "window", "child"}
Inside(parent) ==
  CASE parent = "desktop" -> {"window"} [] parent = "window" -> {"child"} [] OTHER -> {}

\* (char) i
Char(i) == ((i + CharLimit) % (2 * CharLimit)) - CharLimit

Texts == {"NAME", "ROLE", "TEXT"}
Places == {"X", "Y"}
Sizes == {"WIDTH", "HEIGHT"}

\* The objects that a host may have been given, and what it may ask of them.
Objects ==
  LET items == {<<"child", Char(r)>> : r \in 0 .. RowCount - 1}
      cells == {o \o <<Char(c)>> : o \in items, c \in 0 .. ColumnCount - 1}
  IN  {<<>>, <<"desktop">>, <<"window">>, <<"child">>} \cup items \cup cells

IndicesOf(command) ==
  CASE command = "CHILD" -> -1 .. RowCount
    [] command \in {"ACTION_NAME", "ACTION_DO"} -> -1 .. Actions
    [] OTHER -> {-1}

Questions ==
  {e \in [command : Asked, object : Objects, index : -1 .. RowCount + Actions] :
     /\ e.command \in {"DESKTOP0", "CAPTURE_SCREEN"} => e.object = <<>>
     /\ e.index \in IndicesOf(e.command)}

NoEvent == [command |-> "none", object |-> <<>>, index |-> -1]

Streams == 1 .. MaxStreams
NoStream == 0

\* The program has not died.
Sound == fault = "none"

Init ==
  /\ kind = [w \in Widgets |-> IF w = "child" THEN "table" ELSE "plain"]
  /\ visible = Widgets
  /\ rows = 0 .. RowCount - 1 /\ columns = 0 .. ColumnCount - 1
  /\ filter = TRUE /\ buttons = {"close", "open"}
  /\ closer = "none" /\ closing = NoStream
  /\ opener = NoStream /\ streams = {1} /\ current = 1 /\ port = 1
  /\ reader = "gone" /\ served = NoStream /\ via = NoStream
  /\ event = NoEvent /\ queued = FALSE /\ alive = FALSE /\ lock = "none" /\ result = <<>>
  /\ ui = "free" /\ value = <<>>
  /\ fault = "none"

-----------------------------------------------------------------------------
(* What the event filter answers.  Null is a QVariant without a value;      *)
(* Silence stands for a branch that does not call done.                     *)

Null == <<"null">>
Silence == <<"silence">>
Text == <<"text">>
Number(n) == <<"number", n>>
Object(object) == <<"object", object>>

Normal(object) == Len(object) = 1
Extra(object) == Tail(object)

\* widget(): only what is a widget now is touched.
Exists(object) == object # <<>> /\ kind[object[1]] # "none"

Table(object) == kind[object[1]] = "table"

\* get_qtablewidget_rect finds the item that the extra characters name.
HasItem(extra) ==
  /\ Len(extra) \in {1, 2}
  /\ extra[1] \in 0 .. RowCount - 1
  /\ IF Len(extra) = 2 THEN extra[2] \in 0 .. ColumnCount - 1 ELSE ColumnCount > 0

\* Those of a table that are not hidden: rows, and columns of a row.
Items(object) == CASE Len(object) = 1 -> rows [] Len(object) = 2 -> columns [] OTHER -> {}

\* The element of a set of numbers with n smaller ones.
Nth(set, n) == CHOOSE i \in set : Cardinality({j \in set : j < i}) = n

\* Mutant of TableChild: the hidden ones are counted as well.
TableChildOfAll(object, index) ==
  IF index \in Items(object) THEN Object(Append(object, Char(index))) ELSE Null

TableChild(object, index) ==
  IF index \in 0 .. Cardinality(Items(object)) - 1
  THEN Object(Append(object, Char(Nth(Items(object), index))))
  ELSE Null

Shown(parent) == {w \in Inside(parent) : kind[w] # "none" /\ w \in visible}

\* An index of -1 finds no child, and ends as if it had found one.
WidgetChild(parent, index) ==
  CASE index \in 0 .. Cardinality(Shown(parent)) - 1 ->
         Object(<<CHOOSE w \in Shown(parent) : TRUE>>)
    [] index = -1 -> Silence
    [] OTHER -> Null

Children(object) ==
  Cardinality(IF Table(object) THEN Items(object) ELSE Shown(object[1]))

Child(object, index) ==
  IF Table(object) THEN TableChild(object, index) ELSE WidgetChild(object[1], index)

\* The name of a row or column is its number.
Describe(command, object) ==
  IF command = "NAME" /\ ~Normal(object) THEN Number(object[Len(object)]) ELSE Text

Place(object) ==
  IF Normal(object) \/ (Table(object) /\ HasItem(Extra(object))) THEN <<"place">> ELSE Number(-1)

Size(object) ==
  CASE Normal(object) -> <<"size">>
    [] ~Normal(object) /\ Table(object) -> IF HasItem(Extra(object)) THEN <<"size">> ELSE Number(0)
    [] OTHER -> Silence

ActionName(index) == IF index < Actions THEN Text ELSE Null

Filtered(e) ==
  CASE e.command = "DESKTOP0" -> Object(<<"desktop">>)
    [] e.command = "CAPTURE_SCREEN" -> <<"picture">>
    [] e.command \notin {"DESKTOP0", "CAPTURE_SCREEN"} /\ ~Exists(e.object) -> Null
    [] OTHER ->
         CASE e.command \in Texts -> Describe(e.command, e.object)
           [] e.command \in Places -> Place(e.object)
           [] e.command \in Sizes -> Size(e.object)
           [] e.command = "CHILDREN" -> Number(Children(e.object))
           [] e.command = "CHILD" -> Child(e.object, e.index)
           [] e.command = "ACTIONS" -> Number(Actions)
           [] e.command = "ACTION_NAME" -> ActionName(e.index)
           [] e.command = "ACTION_DO" -> Null

\* Mutant of Converted: a result without a value is not looked for.
ConvertedUnchecked(command, r) == r

\* What windows_... makes of the result; windows_desktop does not look at it.
Converted(command, r) ==
  CASE r = Null /\ command \in Texts \cup {"ACTION_NAME"} -> <<"empty text">>
    [] r = Null /\ command \in Places \cup Sizes \cup {"ACTIONS"} -> Number(-1)
    [] r = Null /\ command = "CHILDREN" -> Number(0)
    [] r = Null /\ command = "CHILD" -> Object(<<>>)
    [] OTHER -> r

-----------------------------------------------------------------------------
(* The reader, and wait.                                                    *)

\* The host of a stream that is polled; bound: no second one meanwhile.
Connect ==
  /\ reader = "gone" /\ reader' = "idle"
  /\ port \notin {NoStream, opener} /\ served' = port
  /\ UNCHANGED <<treeVars, closeVars, serverVars, via, eventVars, uiVars, fault>>

\* The reader ends when the host has hung up, and only then.
HangUp ==
  /\ reader = "idle" /\ reader' = "gone"
  /\ served' = NoStream
  /\ UNCHANGED <<treeVars, closeVars, serverVars, via, eventVars, uiVars, fault>>

\* A new event: both locks are free, and taken before it is posted.  The request
\* may still come when the stream has been shut, which ends writing only, and is
\* answered on the stream that the server has now.
Post(question) ==
  /\ reader = "idle" /\ reader' = "posted"
  /\ via' = current
  /\ event' = question /\ queued' = TRUE /\ alive' = TRUE
  /\ lock' = "reader"
  /\ UNCHANGED <<treeVars, closeVars, serverVars, served, result, uiVars, fault>>

\* To wait is to give the lock back.
Wait ==
  /\ reader = "posted" /\ reader' = "waiting"
  /\ lock' = "none"
  /\ UNCHANGED <<treeVars, closeVars, serverVars, served, via, event, queued, alive, result,
                 uiVars, fault>>

Wake ==
  /\ reader = "woken" /\ reader' = "returning"
  /\ lock = "none" /\ lock' = "reader"
  /\ UNCHANGED <<treeVars, closeVars, serverVars, served, via, event, queued, alive, result,
                 uiVars, fault>>

\* What comes of the use of a stream: there may be none, or it may be freed.
AfterUse(stream) ==
  CASE stream = NoStream -> {"stream"}
    [] stream \in streams -> {"none"}
    [] OTHER -> {"none", "stream"}

\* Both locks are free again, the UI thread may leave done, and the result is
\* converted and written.
Return ==
  /\ reader = "returning" /\ reader' = "idle"
  /\ lock' = "none"
  /\ ui' = IF ui = "leave" THEN "left" ELSE ui
  /\ event' = NoEvent /\ result' = <<>>
  /\ via' = NoStream /\ fault' \in AfterUse(via)
  /\ UNCHANGED <<treeVars, closeVars, serverVars, served, queued, alive, value>>

-----------------------------------------------------------------------------
(* The UI thread.                                                           *)

Idle == reader \in {"gone", "idle"}

\* An event that the filter has not answered, or that no filter has seen, is
\* deleted while the reader waits on its condition.  An action before the first
\* is whatever is found there, or the end of the program.
Receive ==
  LET answered == IF filter THEN Filtered(event) ELSE Silence
      isAction == /\ filter /\ event.command \in {"ACTION_NAME", "ACTION_DO"}
                  /\ Exists(event.object)
      triggers == isAction /\ event.command = "ACTION_DO" /\ event.index < Actions
  IN  /\ ui = "free" /\ opener = NoStream
      /\ queued /\ queued' = FALSE
      /\ \/ triggers /\ ui' = "trigger" /\ UNCHANGED <<alive, fault>>
         \/ ~triggers /\ answered # Silence /\ ui' = "done" /\ UNCHANGED <<alive, fault>>
         \/ answered = Silence /\ alive' = FALSE /\ UNCHANGED <<ui, fault>>
         \/ isAction /\ event.index < 0 /\ fault' = "index" /\ UNCHANGED <<ui, alive>>
      /\ value' = answered
      /\ UNCHANGED <<treeVars, closeVars, serverVars, readerVars, event, lock, result>>

\* An action may run a dialog, and its event loop, before it comes back.
Triggered ==
  /\ ui = "trigger" /\ ui' = "done"
  /\ opener = NoStream
  /\ UNCHANGED <<treeVars, closeVars, serverVars, readerVars, eventVars, value, fault>>

\* Mutant of Done: the lock is not taken.
DoneUnlocked ==
  /\ ui = "done" /\ ui' = "leave"
  /\ result' = value /\ value' = <<>>
  /\ reader' = IF reader = "waiting" THEN "woken" ELSE reader
  /\ UNCHANGED <<treeVars, closeVars, serverVars, served, via, event, queued, alive, lock, fault>>

\* Mutant of Done: the UI thread does not wait for the reader.
DoneAtOnce ==
  /\ ui = "done" /\ ui' = "free"
  /\ lock = "none"
  /\ result' = value /\ value' = <<>>
  /\ reader' = IF reader = "waiting" THEN "woken" ELSE reader
  /\ alive' = FALSE
  /\ UNCHANGED <<treeVars, closeVars, serverVars, served, via, event, queued, lock, fault>>

Done ==
  /\ ui = "done" /\ ui' = "leave"
  /\ lock = "none"
  /\ result' = value /\ value' = <<>>
  /\ reader' = IF reader = "waiting" THEN "woken" ELSE reader
  /\ UNCHANGED <<treeVars, closeVars, serverVars, served, via, event, queued, alive, lock, fault>>

\* The event is deleted; the reader may have posted another by then.
Leave ==
  /\ ui = "left" /\ ui' = "free"
  /\ alive' = (alive /\ ~Idle)
  /\ UNCHANGED <<treeVars, closeVars, serverVars, readerVars, event, queued, lock, result, value,
                 fault>>

\* The application itself, also while an action is triggered.
Runs == ui \in {"free", "trigger"} /\ opener = NoStream

Create(w) ==
  /\ kind[w] = "none" /\ \E p \in Widgets : w \in Inside(p) /\ kind[p] # "none"
  /\ \E k \in {"plain"} \cup (IF w = "child" THEN {"table"} ELSE {}) : kind' = [kind EXCEPT ![w] = k]
  /\ UNCHANGED <<visible, rows, columns>>

Destroy(w) ==
  /\ kind[w] # "none"
  /\ kind' = [a \in Widgets |-> IF a \in {w} \cup Inside(w) THEN "none" ELSE kind[a]]
  /\ visible' = visible \ ({w} \cup Inside(w))
  /\ UNCHANGED <<rows, columns>>

Hide(w) ==
  /\ w \in visible
  /\ visible' = visible \ ({w} \cup Inside(w))
  /\ UNCHANGED <<kind, rows, columns>>

Show(w) ==
  /\ kind[w] # "none" /\ \E p \in visible : w \in Inside(p)
  /\ visible' = visible \cup {w}
  /\ UNCHANGED <<kind, rows, columns>>

HideOrShowItem ==
  /\ \/ rows' \in SUBSET (0 .. RowCount - 1) /\ UNCHANGED columns
     \/ columns' \in SUBSET (0 .. ColumnCount - 1) /\ UNCHANGED rows
  /\ UNCHANGED <<kind, visible>>

Application ==
  /\ Runs
  /\ \/ \E w \in Widgets \ {"desktop"} : Create(w) \/ Destroy(w) \/ Hide(w) \/ Show(w)
     \/ HideOrShowItem
  /\ UNCHANGED <<closeVars, serverVars, readerVars, eventVars, uiVars, fault>>

-----------------------------------------------------------------------------
(* The buttons: close_connection on a thread of its own, open_connection    *)
(* on the UI thread.                                                        *)

\* Bound: one thread closes at a time.
CloseClicked ==
  /\ Runs /\ "close" \in buttons \cap Clicked /\ buttons' = {"open"}
  /\ closer = "none" /\ closer' = "started"
  /\ UNCHANGED <<treeVars, filter, closing, serverVars, readerVars, eventVars, uiVars, fault>>

RemoveFilter ==
  /\ closer = "started" /\ closer' = "removed"
  /\ filter' = FALSE
  /\ UNCHANGED <<treeVars, buttons, closing, serverVars, readerVars, eventVars, uiVars, fault>>

\* sq_server_destroy takes the stream that the server has by now.  It stops
\* listening, and writing to the client.
Shut ==
  /\ closer = "removed"
  /\ IF current = NoStream
     THEN fault' = "stream" /\ UNCHANGED <<closer, closing, port>>
     ELSE /\ closer' = "shut" /\ closing' = current
          /\ port' = IF port = current THEN NoStream ELSE port
          /\ UNCHANGED fault
  /\ UNCHANGED <<treeVars, filter, buttons, opener, streams, current, readerVars, eventVars, uiVars>>

\* The polling thread, if there is one already, ends after the reader.  Then the
\* listener is closed a second time, and may be that of a stream opened since.
Join ==
  /\ closer = "shut"
  /\ IF opener = closing
     THEN fault' = "stream" /\ UNCHANGED <<closer, closing, streams, port>>
     ELSE /\ served # closing
          /\ closer' = "freed" /\ closing' = NoStream
          /\ streams' = streams \ {closing}
          /\ port' \in IF current = closing THEN {port} ELSE {port, NoStream}
          /\ UNCHANGED fault
  /\ UNCHANGED <<treeVars, filter, buttons, opener, current, readerVars, eventVars, uiVars>>

\* Whatever stream the server has by now is forgotten.
Forget ==
  /\ closer = "freed" /\ closer' = "none"
  /\ current' = NoStream
  /\ UNCHANGED <<treeVars, filter, buttons, closing, opener, streams, port, readerVars, eventVars,
                 uiVars, fault>>

\* sq_server_init, without a look at the stream that the server may have: the new
\* one is deaf when another has the port.
OpenStream ==
  /\ Runs /\ "open" \in buttons \cap Clicked
  /\ \E s \in Streams \ streams :
       /\ \A t \in Streams \ streams : s <= t
       /\ streams' = streams \cup {s} /\ current' = s /\ opener' = s
       /\ port' = IF port = NoStream THEN s ELSE port
  /\ UNCHANGED <<treeVars, closeVars, readerVars, eventVars, uiVars, fault>>

\* windows_init_if_not_already and sq_server_poll.
PollStream ==
  /\ opener # NoStream /\ opener' = NoStream
  /\ filter' = TRUE /\ buttons' = {"close"}
  /\ fault' \in AfterUse(current)
  /\ UNCHANGED <<treeVars, closer, closing, streams, current, port, readerVars, eventVars, uiVars>>

ReaderGoesOn == Sound /\ (Wait \/ Wake \/ Return)

UIGoesOn == Sound /\ (Receive \/ Done \/ Leave)

OpenerGoesOn == Sound /\ PollStream

CloserGoesOn == Sound /\ (RemoveFilter \/ Shut \/ Join \/ Forget)

HostHangsUp == Sound /\ closer = "shut" /\ served = closing /\ HangUp

Next ==
  \/ ReaderGoesOn \/ UIGoesOn \/ OpenerGoesOn \/ CloserGoesOn
  \/ /\ Sound
     /\ \/ Connect \/ HangUp
        \/ \E question \in Questions : Post(question)
        \/ Triggered
        \/ Application
        \/ CloseClicked \/ OpenStream

Spec == Init /\ [][Next]_vars

\* Threads go on, and the event loop takes what is queued in its turn; a host whose stream has been shut hangs
\* up in the end, whatever it has asked before.  Nobody has to end a dialog, to
\* send a request or to close and open the connection.
FairSpec ==
  /\ Spec
  /\ WF_vars(ReaderGoesOn) /\ WF_vars(OpenerGoesOn) /\ WF_vars(CloserGoesOn)
  /\ SF_vars(UIGoesOn) /\ SF_vars(HostHangsUp)

-----------------------------------------------------------------------------
\* What a command may answer: a text, a number, an object (or none).
TagsOf(command) ==
  CASE command \in Texts \cup {"ACTION_NAME"} -> {"text", "empty text", "number"}
    [] command \in Places -> {"place", "number"}
    [] command \in Sizes -> {"size", "number"}
    [] command \in {"CHILDREN", "ACTIONS"} -> {"number"}
    [] command \in {"CHILD", "DESKTOP0"} -> {"object"}
    [] OTHER -> {"null", "picture"}

\* The type of the variables, and of what a request is answered.
TypeOK ==
  /\ kind \in [Widgets -> {"plain", "table", "none"}]
  /\ visible \in SUBSET Widgets
  /\ rows \in SUBSET (0 .. RowCount - 1) /\ columns \in SUBSET (0 .. ColumnCount - 1)
  /\ filter \in BOOLEAN /\ buttons \in SUBSET {"close", "open"}
  /\ closer \in {"none", "started", "removed", "shut", "freed"}
  /\ streams \subseteq Streams
  /\ {closing, opener, current, port, served, via} \subseteq Streams \cup {NoStream}
  /\ reader \in {"gone", "idle", "posted", "waiting", "woken", "returning"}
  /\ event \in Questions \cup {NoEvent} /\ queued \in BOOLEAN /\ alive \in BOOLEAN
  /\ lock \in {"none", "reader"}
  /\ ui \in {"free", "trigger", "done", "leave", "left"}
  /\ fault \in {"none", "stream", "index"}
  /\ reader = "returning" => Converted(event.command, result)[1] \in TagsOf(event.command)

\* A reader inside wait whose event has been deleted.
Abandoned == ~Idle /\ ~alive

\* The event outlives the wait for it: m_doneLock keeps it until the reader is
\* out.  Only these requests are abandoned: the size of a row or cell, when the
\* address no longer holds a table; the child -1 of a widget; and any request
\* once close_connection has removed the filter
\* (QtAutomationEventWithSynchronization.h:54-86,
\* QtApplicationMachineAutomationEventFilter.cxx:373-399, 544-558,
\* qt_machine_automation.cpp:17).
FewAreAbandoned ==
  [][~Abandoned /\ Abandoned' =>
       \/ ~filter
       \/ /\ Exists(event.object) /\ ~Table(event.object)
          /\ \/ event.command \in Sizes /\ Len(event.object) > 1
             \/ event.command = "CHILD" /\ event.index = -1]_vars

\* The children that are counted can all be found: each is visible, and asked
\* for its name a row or a column has its own number, as far as numbers fit in
\* a char (QtApplicationMachineAutomationEventFilter.cxx:401-561, 92-108).
ChildrenAreFound ==
  \A object \in Objects : Exists(object) =>
    \A i \in 0 .. Children(object) - 1 :
      LET child == Child(object, i)[2]
      IN  /\ Child(object, i) # Null
          /\ Exists(child)
          /\ ~Table(object) => child[1] \in visible
          /\ Table(object) /\ Nth(Items(object), i) < CharLimit =>
               /\ child[Len(child)] \in Items(object)
               /\ \A j \in 0 .. i - 1 : Child(object, j)[2] # child

\* Unless a request is abandoned, a dialog stays open, or the program dies of an
\* action before the first or of a stream that was opened before the last one was
\* closed, every request ends, and a connection that is being closed is closed in
\* the end, also when it is asked more after it was shut
\* (qt_machine_automation.cpp:15-20, sq_stream_tcp.c:105-146, 199-215).
RequestsEnd ==
  \/ <>[]Abandoned
  \/ <>[](ui = "trigger")
  \/ <>~Sound
  \/ []<>Idle /\ (closer = "started" ~> closer = "none")

=============================================================================
