# Sequanto Automation in TLA+

Sequanto Automation lets a host drive and observe a program: the program links a small
server, the host sends one-line requests (`GET`, `SET`, `CALL`, `LIST`, `INFO`, `DUMP`,
`ENABLE`, `DISABLE`) over TCP or a serial line and receives one line in answer, and
enabled monitors send `!UPDATE` lines in between. This directory models the library, its
client, the code it generates and the programs built on it, checks the models with TLC on
small instances, and proves their invariants with TLAPS for all values of the constants.

Paths below are relative to the repository; `server/c/src` is where no directory is given.

## 1. The system

| Component | State | Operations | Hard behaviour |
|---|---|---|---|
| Circular buffer (`sq_circularbuffer.c`) | read and write position, storage, full mark in the read position | push, pop, available, empty, full | wrap-around, the full mark, push on a full buffer |
| Embedded serial stream (`sq_stream_embedded_serial.c`) | two circular buffers, `UDR0`, `UDRIE0` | `write_byte`, `read_byte`, RX and UDRE interrupts | interrupts between the steps of a push or a pop |
| Parser (`sq_parser.c`) | line buffer, position | `sq_parser_input_byte` | line length at the limit, leftovers of earlier lines |
| TCP stream (`sq_stream_tcp.c`, `sq_thread.c`, `sq_mutex.c`) | listener, client socket, threads, output buffer, write lock | open, poll, join, close, write, flush | threads that join one another, clients that come and go, failing sends |
| Server (`sq_server.c`) | singleton, stream, parser | init, poll, join, destroy | destruction by a request, monitors after destruction |
| Generated automation (`generator/generate_automation_defines.py`, `generator/code/c/automation_functions.c`) | sorted object table, property, callable and monitor tables, `monitor_state` | the request handlers, the update functions | a tree kept as a flat sorted list; unlocked monitor state |
| Values and protocol (`sq_value.c`, `sq_protocol.c`) | none | parse and write values, frame messages | numeric edges, escapes, three ways to write a fraction |
| Python client (`client/python`) | the connection, what it knows of each object | request, get, set | updates among answers, two sides that read text differently |
| Light dimmer (`server/c/applications/light_dimmer`) | interface machine, dimmer machine, display, main loop | keys, ticks, requests | a reset in the middle of a hold, levels set from outside |
| arduino_demo (`server/c/applications/arduino_demo`) | clock, temperatures, heater, what the host was told | seconds, requests, regulation | changes of several causes, each of which has to be told |
| acme_ventilator (`server/c/applications/acme_ventilator`) | clock, mode, ventilator, alarm | seconds, requests, the decision of each second | two rules that want different things |
| arduino_io (`arduino/libraries/SequantoAutomation/examples/arduino_io`) | an array for each quality of a pin, the generated tables | some hundred getters and setters, the loop that counts edges | an index that leads through two tables, a pin beyond the arrays, a counter at its limit |
| Qt backend of machine_automation (`server/c/applications/machine_automation`) | the event, its two locks and conditions, the filter, the widgets | post, wait, filter, done, close and open | a reader that waits for the UI thread, widgets that go away, a filter that is removed |
| CAN and Arduino streams | frame being filled | write, read, enter and exit write | nested writes |

How they interact:

* A **host** connects; the *polling thread* accepts it and starts a *reader*, which calls
  the server's data handler, the parser, the request handler and, at last, an application
  function, all on the reader's thread (`sq_stream_tcp.c:134`, `sq_server.c:99`).
* The request handlers write responses through `sq_stream_enter_write` and
  `sq_stream_exit_write`. **Application threads** call the generated `..._updated`
  functions, which take the same lock and write to the same stream.
* `machine_automation` exports `/server/quit`, which calls `sq_server_destroy` from within
  a request. In a **Qt application** the reader posts an event to the UI thread and waits
  for the answer, while the application may close the connection.
* On **embedded targets** there are no threads: the main loop calls `sq_server_poll`, which
  reads bytes that the receive interrupt has put in a circular buffer. The applications
  for them are loops of a clock, a poll and a tick.
* The **generator** reads an automation file, sorts the object paths and writes the tables
  that `automation_functions.c` walks.
* The **client** writes a value as text, the server parses it, and the other way round; the
  two have no code in common.

What makes each component correct is stated in its module; in a sentence each: the buffer
is a bounded queue; the serial stream loses no byte between interrupt and main loop; a
request is evaluated exactly and every line answered; one client is served at a time and a
stream is freed after its threads; messages of several threads arrive whole; the flat table
answers as the tree would; a value arrives as it was sent and an answer with the call that
asked for it; the two machines of the dimmer stay together; the host is told of every
change, and the heater does not flutter; heat is vented whatever the mode; no edge is
counted that was not there; a reader is answered, or waits only for a reason that is named.

## 2. Modules

| Module | Models | State and actions |
|---|---|---|
| `BoundedQueue` | what a circular buffer promises | a sequence; `Put`, `Take`, and `Overflow`, after which only the new byte is left |
| `CircularBufferOps` | `sq_circularbuffer.c` as operators | a record of positions and storage; `FullMark` is the -1 |
| `CircularBuffer` | a buffer of one thread | `PushByte`, `PopByte`; refines `BoundedQueue` by `Contents` |
| `Client` | `automation.py`, `sq_value.c`, the values of `sq_protocol.c` | a call of the client, the lines on the way in both directions, one property; text is a sequence of characters, and `Parse`, `Written`, `FormatValue` and `ParseValues` are the four conversions |
| `MCLibrary` | | runs the buffer, the parser or a client |
| `EmbeddedSerial` | `sq_stream_embedded_serial.c` | `pc` is the main loop inside a push or a pop; one action for each access to a position that an interrupt may come between; both interrupts and the UART |
| `Parser` | `sq_parser.c` | the buffer with all it held before, the position; one action for each branch of `sq_parser_input_byte`, evaluation included |
| `StreamTcp` | threads and sockets of `sq_stream_tcp.c` | where the polling thread, each reader, the owner and the closer are; joins and blocking calls are guards; `undefined` names the undefined behaviour that ends a run |
| `StreamOutput` | output buffer, write lock, one monitor | each writer's place in a message, byte by byte; sends that succeed, fail or take a part |
| `Device` | what the requests promise | the tree of objects by names, values, monitors, the last answer |
| `MCStreams` | | runs the serial or the TCP stream |
| `Automation` | generator and request handlers | `infoList` is the sorted table, `tables` are the three it points into; one action for each request; refines `Device` |
| `MCAutomation` | | definitions whose names extend one another, for TLC |
| `LightDimmer` | `light_dimmer` | both machines, the display and the phases of the main loop; an interface message and the dimmer messages it sends are one action |
| `Clock` | the clock of two applications | fields that are bytes; carries |
| `Climate` | `arduino_demo` | the loop (`clock`, `poll`, `tick`), every request, the regulation; `told` is what the host has last heard of each value |
| `Ventilator` | `acme_ventilator` | the loop, every request, the decision of each second |
| `MCApplications` | | runs the dimmer, arduino_demo or the ventilator |
| `ArduinoIo` | `arduino_io` and the code generated for it | an array for each quality of a pin; the two tables as the generator writes them; the scan of a pin, and each setter and getter |
| `QtWindows` | `windows_qt.cxx`, the event filter and the event with its locks, `qt_automation` | the reader's place in a request, the UI thread's place in an answer, a widget at each address; the steps of `close_connection` on its own thread and of `open_connection` on the UI thread, the streams they leave, and what the program dies of (`fault`) |

The theorems are in modules of their own: `LibraryProofs`, `StreamsProofs` and
`ApplicationsProofs` extend `MCLibrary`, `MCStreams` and `MCApplications`, and
`StreamOutputProofs`, `AutomationProofs`, `ArduinoIoProofs` and `QtWindowsProofs` the module
they are named for. `CircularBufferLemmas` has what two of them need of the operators of a
buffer.

`StreamTcp` and `StreamOutput` are two views of one file: `StreamOutput` keeps of the
connection that a client comes only after the last one's reader has ended, which
`OneAtATime` of `StreamTcp` establishes. `Parser` ends with the call of an application
function and `Automation` begins with it; one character of `Parser` stands for the text of a
whole value, and `Client` has these texts.

`MCLibrary`, `MCStreams` and `MCApplications` put programs side by side that have nothing to
do with one another: a variable, `part`, `stream` or `program`, says which of them a behaviour
is of, and the others never step. A property of each is checked in the behaviours where its own
program steps.

Variables marked *history* record what happened for the properties; no guard of an action
of the program reads them, except where a bound needs it (see below). Each operator whose
comment begins *Mutant of* is the definition below it with one plausible mistake; replacing
the definition by it violates a property, which shows that the property can fail. They are
used nowhere else.

## 3. Runs

Run TLC in this directory with `tlc -config X.cfg M`. Deadlock is checked in `Library`
and `ArduinoIo`; elsewhere the system may come to rest, because a bound on messages or clients
is reached (`MCStreams`, `StreamOutput`), because the program ends (the dimmer of
`Applications`, by a hard reset; `MCAutomation`, by a setter that is NULL; `QtWindows`, by a
`fault`) or because undefined behaviour ends it (the TCP stream).

| Run | What it shows | Bounds, and why they are enough |
|---|---|---|
| `Library` | the buffer is a bounded queue; requests are exact and short lines answered; a client's calls get their own answers, and values come through in both directions but for those that are named | a buffer of 3: both wrap-arounds, every fill level, full and overflow. A parser's buffer of 6 and lines up to 7: lines shorter than, equal to and longer than the buffer, in any order, over an alphabet with commands that take no value and up to one, and values beyond that. An int of six bits with integers at and beyond both ends; strings of up to 2 of a digit, a bracket, a quote, a backslash and a line break; fractions with and without an integer, a sign and a zero, and with one too wide for an int; a buffer for a number of 7 in place of 12 characters, so that the fractions are shorter than it, as long and longer; one update among the answers |
| `MCStreams` | serial: within the buffer no byte is lost between writer, reader and interrupts, both buffers drain. TCP: one reader, no use after free, nobody refused, waiting clients served, close ends | serial: size 3, 6 bytes written and 5 received: each buffer wraps, and fills more than once; `Byte` numbers the bytes. TCP: 3 clients: one served, one waiting, one gone; one spontaneous failure of `accept` |
| `StreamOutput` | messages arrive whole and in lock order, updates only when they are asked for | a buffer of 3 under responses of 4 and updates of 2: flushes in the middle and at the end of a message; 2 clients, 2 writers, 2 messages each |
| `MCAutomation` | the table answers as the tree; DUMP and LIST show each child once | every automation file of up to 3 of 5 objects: nested, with a dash that sorts before the slash, with a name that is another's prefix; up to 2 values of a call |
| `Applications` | dimmer: machines, light, level and display agree, dimming is smooth and complete. arduino_demo: the host is told, the heater is steady. acme_ventilator: ventilator, pin and alarm are right, lasting heat is vented | dimmer: 4 levels, and delays of 1 and 2 ticks in place of 20, 500 and 1000: the code only compares the counter with them; requests set a level inside and one outside the range. Clocks: days of four seconds, so that every carry happens, and fields set to bytes beyond their limits. Readings below, inside and above the band; hot and not |
| `ArduinoIo` | the tables lead to the right property; counts are real, answers true, a level that stays is reported | one pin that the loop scans and one beyond the arrays, one analog input: a request for each family of objects on both sides of the arrays' end. Counters up to 2, where they stop; readings whose product fits an int and whose product does not |
| `QtWindows` | each command is answered what it may be, children are found, and an event is deleted under its reader only in the named cases | a window and its child at two addresses whose widgets come, hide, turn into a table and go; 3 rows and 1 column; a limit of 2 for a character, so that two rows keep their numbers and the third wraps; 10 of the 14 commands, each way to answer among them; nobody clicks the buttons of the connection |
| `QtConnection` | the same of abandoned readers; requests end, and closing ends, while the connection is closed and opened | tables without rows, and the two commands whose requests may wait for ever or end the program; 2 streams: one that is being closed and one opened meanwhile; one host at a time |

Four runs show where the code does something else than a header or a comment says. TLC
finds the counterexample; `PROJECT.json` quotes the lines.

| Run | Shows |
|---|---|
| `EmbeddedSerialHang` | `sq_stream_write_byte` may wait for ever: the UDRE interrupt may switch itself off in the middle of a push, and a full buffer is then never emptied |
| `StreamTcpQuit` | `sq_server_destroy`, by `/server/quit` or any thread, joins the polling thread a second time when `sq_server_join` is waiting for it; POSIX leaves that undefined |
| `StreamTcpSelf` | `/server/quit` never ends: it runs on the reader, which waits in `sq_stream_close` for the polling thread, which waits for the reader; so nothing is released |
| `StreamTcpRelease` | a client's thread is destroyed twice |

Where a known weakness would hide the rest of a component, the property names the condition
instead of leaving the behaviour out: `NothingIsLost` excepts a byte sent while it was
still being pushed and a host that has more bytes unread than fit (the model keeps both
steps), `MessagesAreWhole` speaks of the clients for whom no send failed or took a part,
`CloseEnds` holds until undefined behaviour ends the program, `ValuesAgree` lists the values
that do not come through, `WalksAreExact` the names that extend one another,
`FewAreAbandoned` the requests that nobody answers, and `RequestsEnd` what may keep a request
or a close from its end.

### Bounds

* `EmbeddedSerial`: `MaxWritten`, `MaxSent`, `MaxReceived` (bytes; `MaxSent` is one more
  than is written and only shortens a record).
* `Parser`: `MaxLine`, which the proofs do not need. `StreamTcp`: `MaxFailures`. `Automation`: `MaxDefined`, `MaxValues`.
* `StreamOutput`: `MaxClients`, `MaxMessages`. Bytes are written past the buffer for
  `Padding` bytes, up to the position that they would overwrite, and the writer stops there;
  after one partial send to a client the model does not send parts again.
* `Client`: `MaxString`, `MaxUpdates`. Nothing more is set after a string with a line break,
  since each adds an answer that is never taken; the application changes the value only
  while a request is on its way, which is when it can make a difference.
* `ArduinoIo`: `MaxChanges`, the changes of a level since its counter was set.
* `QtWindows`: `MaxStreams`, the streams at a time; one stream at a time has a reader, and one
  thread closes at a time. `Clicked` are the buttons that somebody uses, which is what parts
  the two runs; the proofs do not need it.

All other constants are parameters of the code made small, or the inputs that the outside
gives.

### Fairness

* `EmbeddedSerial`, stated by `MCStreams`: weak fairness of a started write, the reads of the main loop, the UDRE
  interrupt and the transmitter: a processor that runs and hardware that raises what is
  enabled. Nothing makes the application write or the host send.
* `StreamTcp`, stated by `MCStreams`: every thread runs; a host that sees the end of the stream hangs up. No host
  has to come or to leave, and nobody has to close.
* `StreamOutput`: every writer runs, and `send` returns. The mutex need not be fair:
  `WritersFinish` holds because each writer has `MaxMessages` to send, so nobody is
  overtaken for ever.
* `LightDimmer`: the loop goes round, and strong fairness of `Tick`: milliseconds pass, and
  a loop that keeps measuring them keeps handing them out.
* `Ventilator`: the loop that brings the clock up to date ends (weak), and strong fairness
  of the second's decision, for the same reason.
* `ArduinoIo`: weak fairness of the loop, which scans pin after pin and polls in between; a
  poll takes what has arrived and ends.
* `QtWindows`, in the run `QtConnection`: weak fairness of the reader, of `open_connection` and
  `close_connection` once begun; strong fairness of the UI thread's answers, since the event
  loop takes what is queued in its turn; and strong fairness of the host that hangs up when
  the stream it is connected to has been shut, whatever it asks before, as `StreamTcp` assumes
  it too. Nobody has to end a dialog, to ask, or to close or open the connection.
* `Parser`, `CircularBuffer`, `Client`, `Automation` and `Climate` have safety properties
  only and assume nothing.

## 4. Proofs

`tlapm X.tla` in this directory checks the proofs of a module. The theorems assume the named
assumptions on the constants (`SizeAssumption`, `BoundsAssumption`, `OutputAssumption`,
`DefinitionsAssumption`, `DimmerAssumption`, `IoAssumption`, `QtAssumption`, and the
`InputAssumption` of `MCLibrary`, of `MCStreams` and of `MCApplications`, and the
`ValuesAssumption` of `MCLibrary`), which the runs evaluate on theirs. They say that sizes are
numbers above 0 (that of the text of a number at least 6, where the code has 12), that names of
threads and characters are apart, that a sensor has ten bits, that settings are numbers, and that byte arrays are sequences of bytes; nothing is assumed of
the variables.

`DefinitionsAssumption` says more, about automation files. A defined path begins with a slash
and a name: `createParents` walks a path up to that slash, and the names of the C functions
are the path without its first character (`generate_automation_defines.py:98-100`,
`450-458`). A function takes no more values than a parser holds, which the generated header
tests with an `#error` (`generate_automation_defines.py:695-696`). A client may ask for any
path at all: `Missing` is any set of sequences of characters, with or without a slash in
front. `Files` keeps to automation files in which each object has a path of its own and none
is defined inside another.

* **`LibraryProofs`**, about each part of `MCLibrary`; `LibraryInvariance` puts the parts
  together, a step of one leaving the variables of the others alone.

  The *buffer*, for every size and every set of bytes. `TypeOK` is inductive by itself.
  `ObserversAlwaysAgree` follows from it, as do the lemmas of `CircularBufferLemmas` on which
  `ImplementsQueue` rests: `AvailableRange` and `ContentsType` (the contents are a sequence of
  as many bytes as are available), `PushAppends`, `PushOverflows` and `PopTakes`, each of which
  says what one operation does to that sequence. Every step is then a step of the queue or a
  stutter.

  The *parser*, for every size of its buffer, every alphabet and any number of values.
  `ParserInv` says where the position is by the length of the line (`Placed`; a line whose
  newline was lost is a byte further on) and that a line that fits is in the buffer as it was
  sent (`Kept`), whatever earlier lines left behind it. The rest is about one scan of the
  buffer: `ScanStops` finds where it ends, `PathTaken` and `ValuesCounted` say what it has
  taken by then, and `RequestParsed` and `RequestIsExact` that this is what the line meant.
  What a scan meets first, and how many values there are, are least elements of sets and
  cardinalities (`LeastNumber`, `NthExists`).

  The *client*, for any values and any number of updates. `SessionInv` says that a call that is
  under way has one request or one answer on its way and never both (`Asked`,
  `AnswerComes`), and that between calls there are only updates (`Quiet`), as long as no
  string with a line break was set.

  Its *values*, for all integers and fractions, strings of any length over any characters, any
  byte arrays, every width of an int and every size of the buffer for a number. Two theorems are about the conversions alone.
  `AllSent`: what the client sends for a value is read by the server as that value, as none,
  or, if its integer is too wide, as any of its type. `AllReadBack`: whatever the server writes
  for the value of a property, in each of the three builds, is read by the client as
  `ReadBack` says, which is what `ValuesAgree` asks of a value that was read. They rest on a
  lemma for each kind of value in either direction (`IntegerSent`, `FloatSent`, `StringSent`,
  `WordsSent`; `IntegerBack`, `FloatBack`, `StringBack`, `QuotesTold`, `BooleanBack`,
  `BytesBack`). Below these are what a text of digits stands for (`DecimalRead`,
  `HundredthRead`), where the blocks of a text are (`Flattened`), what the loop that unescapes
  has read after each character (`UnescapedIs`), that cutting a text behind its hundredths
  leaves the number as it was (`CutBehind`), the lines that a text makes (`LinesMade`),
  and what is read from one place of a text on (`ParsedFrom`, `FromValue` and its like).

  `ValuesAlwaysAgree` then needs what the lines on the way say: `CallsFit` is that the request
  is the one of the call (`RequestFits`), that the answer to a set comes with the value that
  was meant, and that the answer to a get is a text that was written for a value of the
  property's type (`Answering`), which need no longer be the one it holds. `SessionTyped` is
  the type invariant with the lines as sequences; it needs no more than that every text makes
  one line at least.
* **`StreamsProofs`**, about both parts of `MCStreams`.

  The *serial stream*, for every size of the buffers and any number of bytes. Between an
  interrupt and the main loop no position can be relied on, so `IInv` says first where
  positions are by where the main loop is (`Positions`). `Outgoing` and `Incoming` then follow
  the bytes: what is on the line, in the register and in the buffer is what was written, with
  the buffer taken as it will be when the push or the pop has run to its end (`Pushed`,
  `Wrapped`), which is what an interrupt in the middle has to keep. `NothingIsEverLost` is that
  both hold but in the two cases that the property excepts.

  The *TCP stream*, for every finite set of clients. No safety property is inductive alone;
  the invariant adds that the polling thread is at its join exactly while a reader that has
  not been destroyed may exist, that the socket is the reader's until it clears it
  (`ReaderOwns`), that there is a thread to join (`JoinHasThread`), how far the closer is
  before anything is freed (`CloseOrder`), and that clients are refused only by a closed
  listener (`Refusals`). The theorems are its consequences.
* **`StreamOutputProofs`**, for every number of application threads, clients and messages
  and every length of buffer and messages. `IInv` says who holds the lock by where each
  writer is (`Locked`, from which `OneWriter` follows), that a full buffer is about to be
  flushed (`Flushed`, which bounds the buffer), and that nobody has come past the unlocked
  test of `monitor_state` before an ENABLE was answered (`AskedFirst`). That a DISABLE is
  followed by one update at most of each thread needs a count: the updates already late and
  the threads past the test are together no more than there are threads (`LateOnes`).
  `MessagesAlwaysWhole` needs what is still to come: what a client was sent, the buffer, and
  the rest of the message of the writer that has the lock (`Coming`) are what is intended for
  that client, after what is left of a message in the middle of which it connected (`Served`).
* **`AutomationProofs`**, for every automation file, every alphabet and all values. The main
  theorem is `MakesTheTree`, the refinement: the flat tables answer every request as the tree
  of named objects would. The only invariant it needs is that the tables are those the
  generator wrote (`Generated`); all else is about them. `InfoListIs` and `EntryPaths` show
  that `INFO_LIST` is put in order by `Before`, a strict total order of paths, and that it
  has no path twice, so a lookup finds the one entry (`FindInfoIs`, `LookupIs`). Paths and
  names tell each other apart (`WordsTell`, `NamesTell`). The entries that extend a path
  follow it without a gap, since whatever sorts between a path and an extension of it extends
  it too (`BetweenExtends`, `FollowingIs`): the loops that break at the first name that does
  not fit miss nothing. What a listing shows are the children of the object, and the lists
  above an object are entries themselves (`ChildIs`, `FrontsAreLists`). A dump is a recursive
  function; that it exists is shown from the last entry up (`DumpIs`), and that it prints
  just the objects below (`DumpReaches`) by an entry of the shortest path at which it would
  not. From these there is one lemma for each handler (`GetMaps` to `DumpMaps`), and every
  step is the tree's.

  `WalksAlwaysExact` says of the shapes of the answers what the refinement does not: it
  compares a dump with the tree as a set, and lets a listing show a name that goes on. A dump
  shows no object twice because the children of an entry have different names
  (`ChildrenDiffer`) and what is below each has no repetition, again from the last entry up
  (`DumpInjective`). Joined by slashes, the names of an entry are the part of its own path
  behind that of the object asked for (`JoinedIs`, `PathSplits`), so different entries still
  differ when read by a client (`JoinedTells`). A listing shows more than the children only
  where the name of the list goes on in a path of the table (`ListsAreExact`).
* **`ApplicationsProofs`**, about each program of `MCApplications`; `ProgramsInvariance` joins
  their invariants.

  The *dimmer*, for every number of levels, all delays and all integers that requests set.
  `IInv` joins the four invariants the run checks with two that they need: undisturbed levels
  are in range, and a light that is off is not being dimmed. There is one lemma for the
  initial state, for a grasp, a release, a tick, the requests and the loop. `LightNeverJumps`
  proves an action property, action by action, from the same invariant.

  *arduino_demo*, for every clock and all settings. `HostAlwaysTold` needs little more than the
  types, but each kind of change its own lemma. `HeaterIsSteady` needs `BandHolds`: the reading
  at which the heater was last switched is outside the band around the setpoint that is still
  in force, on the side that the heater's state tells. Two switches are then on either side of
  a band of 0.6 degrees.

  *acme_ventilator*, for every clock and all readings, modes and critical temperatures:
  `FanIsRight` is inductive as it stands.
* **`ArduinoIoProofs`**, for every number of pins and analog inputs and every width of an
  int. `TablesLead` is about the generated tables: the index of every object is the place of
  its own property, by lemmas on where an entry stays when lists are joined (`Kept`,
  `Placed`). The rest is an invariant: the arrays keep their types, a level that has not
  been read yet leaves a counter room for the edge it will count (`UnreadIsSpare`), a written
  output drives what was written (`DrivenAsWritten`), and the answer to a request has the
  type of the object that it was asked of (`AnswerFits`, by `TablesLead`).
* **`QtWindowsProofs`**, for every size of a table, every range of a character and every
  number of actions. `HandedOver` follows the event and the answer through the two threads:
  whose they are at each place, and that what is on its way is what the command may be
  answered; closing and opening the connection leave it alone (`CloseAndOpenKeep`). `OnlyTheseAreAbandoned` then shows that the three cases that `FewAreAbandoned`
  names are all there are. `ChildrenAlwaysFound` is about numbering: the children that a list
  shows are numbered by how many come before each (`NthIs`, `NthGrows`), and a request counts
  to the same one, unless the row is beyond a character (`TableChildren`, `WidgetChildren`).

A theorem about all numbers needs induction. The library states it for a predicate, which none
of the installed provers can instantiate; `LibraryProofs`, `AutomationProofs` and
`QtWindowsProofs` use that every set of numbers has a least element instead (`LeastNumber`),
which is enough to count, to put in order, and to follow a recursion. That a recursive function
exists at all is a fact to be proved as well. The library's theorem takes its definition as an
operator; `Iterates` (a step at a time) and `Recursion` (down in rank, wherever the definition
looks only there) of `LibraryProofs` take it as a function from functions, so that they can be
used for `Decimal`, `NumberOf`, `LinesOf`, `Unescaped` and `FlattenSeq`. That of `ParseValues` is
shown from the end of the text to its beginning (`ParsedFrom`).

Only model-checked: all liveness, which is beyond what the prover does. Every invariant and every
action property of the passing runs, and both refinements, are theorems.

## 5. What is not modelled

* The CAN stream: it frames what is written by eight bytes, over a driver whose queue and
  interrupts are not in the repository; an update in the middle of a response resets the
  frame. The Arduino stream is a wrapper of `Serial`.
* The Windows build, where a join waits for a pulsed event.
* The server's own state is two pointers: `StreamTcp` has what destroying and polling do to
  the stream, but not a monitor's update that reads the singleton after it was cleared.
* The operating system behind machine_automation: each request is one call of a system or of
  an accessibility service whose state is not in the program. Of the Qt backend, the
  coordinates, names and pictures themselves; `/server/quit` and the double release of a
  client's thread, which are the same there, are in `StreamTcp` only.
* Automation files with two objects of one path, which the generator accepts
  (`server/c/examples/type_tests.automation` defines `/type_tests/functions/set_bool` twice):
  a lookup finds the first entry only, so the other object is never reached. Nor those with
  an object inside another one.
* Branches, smart object paths and enums of the generator; the AVR copies of the tables in
  static buffers; the generator's parser and user interface, which keep no state.
* The menu pages of arduino_demo, which only keys reach, while `main.cpp:84` has the key
  handler commented out; the displays of both embedded applications, which decide nothing.
* Positions of a circular buffer are stored in one step. An 8 bit AVR takes two, and an
  interrupt between them reads a torn position.
* Memory beyond the parser's buffer is taken to be a NUL.
* The rounding of binary fractions; byte arrays from the client, which sends none.
* File descriptors are not numbered. Closing the listener twice has no effect in `StreamTcp`;
  in `QtWindows` it may close the listener of a stream that was opened meanwhile.
* That an object path stops at `SQ_MAX_OBJECT_LENGTH` (`sq_parser.c:41`), which is the size of
  the buffer in the headers.
* Drivers, logging, the build and the editor support.

Behaviour that a reader may stumble over and no property judges:

* When the receive interrupt fills its buffer after a pop has looked for the full mark, the
  pop goes on from position -1; when it pushes to a full buffer between the load and the
  store of a pop, both positions are equal afterwards and the buffer counts as empty
  (`sq_circularbuffer.c:88-105`).
* A line longer than the parser's buffer starts over at its front instead of being truncated
  (`sq_parser.c:242-245`), and a command without a path is completed from an earlier line
  (`sq_parser.c:60`).
* After a partial send the bytes already taken are sent again (`sq_stream_tcp.c:217-268`).
* The client does not escape line breaks, so a string with one makes the server answer
  twice, and every later call takes the answer to the one before (`automation.py:33`). It
  ends a string at the first quote, leaves escapes as they are, and reads a byte array only
  as far as its digits go. What follows the quote is read as further values: the string `"5`
  becomes the two values `\` and 5, and `"]` becomes the string `\`, since a bracket that
  closes nothing ends the line.
* The server writes the smallest integer as `0` or `-` (`sq_protocol.c`), and, where there
  is neither `snprintf` nor `dtostrf`, a fraction without its leading zeros.
* arduino_demo tells a setpoint with tenths and answers a `GET` without them; when day and
  night change over it tells nothing (`tempcontrol.cpp:86-117`).
* With `snprintf` a fraction is cut to the 10 characters that its buffer of 12 leaves
  (`sq_protocol.c:186-204`): 1e10 is sent as `1000000000`, without its point. `dtostrf`, which
  is given no length, writes on behind the buffer (210).
* A pin that the tables of arduino_io name beyond the arrays reads and writes what is next
  to them.
* In a Qt application some requests are never answered: the size of a row or a cell when the
  address no longer holds a table, the child -1 of a widget, and any request that finds the
  filter removed. `close_connection` then waits for the reader for ever. An action with an
  index below 0 is not refused (`QtApplicationMachineAutomationEventFilter.cxx:567, 578`) and
  ends the program, or does what is found there.
* Both buttons of `qt_automation` are enabled at the start, and Open while a close is still
  running (`mainwin.cpp:134-137`); `sq_server_init` does not look whether there is a stream
  already. The new stream may find the port taken and be deaf, and the thread that closes may
  close it before it is polled, which ends the program, or forget it (`sq_server.c:45-55`).
* A hold that begins while a light switched off waits to go down saves level 0 over the
  level it had (`DimmerStateMachine.cxx:154-159`); a reset clears the level after the
  display was drawn (`main.cxx:66-70`).
