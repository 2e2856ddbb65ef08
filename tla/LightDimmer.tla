------------------------------ MODULE LightDimmer ------------------------------
(***************************************************************************)
(* server/c/applications/light_dimmer: the main loop that polls the        *)
(* server, counts the milliseconds and scans the keypad, and the two state *)
(* machines it drives.  The interface machine tells a touch from a hold by *)
(* counting ticks; the dimmer machine turns the light on and off and moves *)
(* its level up and down.  Requests reach both, and set the dimmer's       *)
(* levels directly.                                                        *)
(***************************************************************************)
EXTENDS Integers

CONSTANTS
  MaxLevel,         \* MAX_LEVEL
  Epsilon,          \* EPSILON: ticks until a grasp counts
  DelayBeforeHold,  \* DELAY_BEFORE_HOLD: ticks until it is a hold
  LevelDelay,       \* LEVEL_DELAY: ticks from one level to the next
  Settable          \* the integers that requests set the levels to

ASSUME DimmerAssumption ==
  /\ MaxLevel \in Nat \ {0}
  /\ Epsilon \in Nat /\ DelayBeforeHold \in Nat /\ Epsilon < DelayBeforeHold
  /\ LevelDelay \in Nat \ {0}
  /\ Settable \subseteq Int

VARIABLES
  phase,        \* where the main loop is
  keepRunning,  \* g_keepRunning
  lastKey,      \* lastKey: "star", another key, or no key
  interface,    \* the state of Interface::instance
  ticks,        \* its m_ticksSinceGrasp
  dimmer,       \* the state of Dimmer::instance
  level,        \* its m_currentLevel
  saved,        \* its m_savedLevel
  lightOn,      \* its m_lightOn
  sendOutput,   \* its m_sendOutput
  shown,        \* the level on the LCD
  known,        \* history: the level the host last read, or made by a reset
  disturbed     \* history: levels were set, or a hold was cut off by a reset

loopVars == <<phase, keepRunning, lastKey>>
interfaceVars == <<interface, ticks>>
levelVars == <<level, sendOutput, shown>>
dimmerVars == <<dimmer, levelVars, saved, lightOn>>
historyVars == <<known, disturbed>>
vars == <<loopVars, interfaceVars, dimmerVars, historyVars>>

Levels == 0 .. MaxLevel
Active == {"up", "down"}
Passive == {"upPassive", "downPassive"}
Keys == {"none", "star", "other"}

\* The type of the variables.
TypeOK ==
  /\ phase \in {"poll", "tick", "key", "ended"}
  /\ keepRunning \in BOOLEAN
  /\ lastKey \in Keys
  /\ interface \in {"notGrasped", "ignoring", "grasped", "holding"}
  /\ ticks \in Nat
  /\ dimmer \in Active \cup Passive
  /\ level \in Int /\ saved \in Int
  /\ lightOn \in BOOLEAN /\ sendOutput \in BOOLEAN
  /\ shown \in Int /\ known \in Int
  /\ disturbed \in BOOLEAN

\* main has opened the server and called reset.
Init ==
  /\ phase = "poll" /\ keepRunning = TRUE /\ lastKey = "none"
  /\ interface = "notGrasped" /\ ticks = 0
  /\ dimmer = "upPassive"
  /\ level = 0 /\ saved = 0 /\ lightOn = FALSE /\ sendOutput = FALSE
  /\ shown = 0 /\ known = 0 /\ disturbed = FALSE

-----------------------------------------------------------------------------
(* The dimmer's messages, handled inside those of the interface.            *)

\* Mutant of SetCurrentLevel: the host is not told.
SetCurrentLevelSilently(l) == level' = l /\ shown' = l /\ UNCHANGED sendOutput

\* setCurrentLevel, which also draws the display.
SetCurrentLevel(l) == level' = l /\ sendOutput' = TRUE /\ shown' = l

\* A change of the interface's state draws the display, and with it the level.
Redraw == shown' = level /\ UNCHANGED <<level, sendOutput>>

Touch ==
  /\ IF lightOn THEN saved' = level /\ SetCurrentLevel(0)
     ELSE SetCurrentLevel(saved) /\ UNCHANGED saved
  /\ lightOn' = ~lightOn
  /\ UNCHANGED dimmer

StartHold ==
  \/ /\ dimmer = "upPassive" /\ dimmer' = "up"
     /\ SetCurrentLevel(saved) /\ lightOn' = TRUE
     /\ UNCHANGED saved
  \/ /\ dimmer = "downPassive" /\ dimmer' = "down"
     /\ saved' = level /\ lightOn' = TRUE
     /\ Redraw
  \/ /\ dimmer \in Active
     /\ Redraw
     /\ UNCHANGED <<dimmer, saved, lightOn>>

\* Mutant of Hold: the level wraps around instead of turning.
HoldWrapping ==
  /\ \/ dimmer = "up" /\ level < MaxLevel /\ SetCurrentLevel(level + 1) /\ UNCHANGED dimmer
     \/ dimmer = "up" /\ level >= MaxLevel /\ SetCurrentLevel(0) /\ UNCHANGED dimmer
     \/ dimmer = "down" /\ level > 0 /\ SetCurrentLevel(level - 1) /\ UNCHANGED dimmer
     \/ dimmer = "down" /\ level <= 0 /\ SetCurrentLevel(1) /\ dimmer' = "up"
     \/ dimmer \in Passive /\ UNCHANGED <<dimmer, levelVars>>
  /\ UNCHANGED <<saved, lightOn>>

\* Mutant of Hold: the level turns before it is 0.
HoldTurningEarly ==
  /\ \/ dimmer = "up" /\ level < MaxLevel /\ SetCurrentLevel(level + 1) /\ UNCHANGED dimmer
     \/ dimmer = "up" /\ level >= MaxLevel /\ SetCurrentLevel(MaxLevel - 1) /\ dimmer' = "down"
     \/ dimmer = "down" /\ level > 1 /\ SetCurrentLevel(level - 1) /\ UNCHANGED dimmer
     \/ dimmer = "down" /\ level <= 1 /\ SetCurrentLevel(2) /\ dimmer' = "up"
     \/ dimmer \in Passive /\ UNCHANGED <<dimmer, levelVars>>
  /\ UNCHANGED <<saved, lightOn>>

Hold ==
  /\ \/ dimmer = "up" /\ level < MaxLevel /\ SetCurrentLevel(level + 1) /\ UNCHANGED dimmer
     \/ dimmer = "up" /\ level >= MaxLevel /\ SetCurrentLevel(MaxLevel - 1) /\ dimmer' = "down"
     \/ dimmer = "down" /\ level > 0 /\ SetCurrentLevel(level - 1) /\ UNCHANGED dimmer
     \/ dimmer = "down" /\ level <= 0 /\ SetCurrentLevel(1) /\ dimmer' = "up"
     \/ dimmer \in Passive /\ UNCHANGED <<dimmer, levelVars>>
  /\ UNCHANGED <<saved, lightOn>>

\* Mutant of StopHold: the dimmer stays in a moving state.
StopHoldMoving ==
  /\ \/ dimmer = "up" /\ dimmer' = "down" /\ saved' = level
     \/ dimmer = "down" /\ dimmer' = "up" /\ saved' = level
     \/ dimmer \in Passive /\ UNCHANGED <<dimmer, saved>>
  /\ Redraw
  /\ UNCHANGED lightOn

\* Mutant of StopHold: the level is not saved.
StopHoldUnsaved ==
  /\ \/ dimmer = "up" /\ dimmer' = "downPassive"
     \/ dimmer = "down" /\ dimmer' = "upPassive"
     \/ dimmer \in Passive /\ UNCHANGED dimmer
  /\ Redraw
  /\ UNCHANGED <<saved, lightOn>>

StopHold ==
  /\ \/ dimmer = "up" /\ dimmer' = "downPassive" /\ saved' = level
     \/ dimmer = "down" /\ dimmer' = "upPassive" /\ saved' = level
     \/ dimmer \in Passive /\ UNCHANGED <<dimmer, saved>>
  /\ Redraw
  /\ UNCHANGED lightOn

-----------------------------------------------------------------------------
(* InterfaceStateMachine::handle.                                           *)

Grasp ==
  /\ IF interface = "notGrasped"
     THEN interface' = "ignoring" /\ ticks' = 0 /\ Redraw
     ELSE UNCHANGED <<interfaceVars, levelVars>>
  /\ UNCHANGED <<dimmer, saved, lightOn, historyVars>>

Release ==
  /\ interface' = "notGrasped"
  /\ \/ interface = "holding" /\ StopHold
     \/ interface = "grasped" /\ Touch
     \/ interface = "ignoring" /\ Redraw /\ UNCHANGED <<dimmer, saved, lightOn>>
     \/ interface = "notGrasped" /\ UNCHANGED dimmerVars
  /\ UNCHANGED <<ticks, historyVars>>

\* Mutant of TickIgnoring: the ticks are counted down.
TickIgnoringDown ==
  /\ interface = "ignoring"
  /\ ticks' = ticks - 1
  /\ IF ticks' > Epsilon THEN interface' = "grasped" /\ Redraw
     ELSE UNCHANGED <<interface, levelVars>>
  /\ UNCHANGED <<dimmer, saved, lightOn>>

TickIgnoring ==
  /\ interface = "ignoring"
  /\ ticks' = ticks + 1
  /\ IF ticks' > Epsilon THEN interface' = "grasped" /\ Redraw
     ELSE UNCHANGED <<interface, levelVars>>
  /\ UNCHANGED <<dimmer, saved, lightOn>>

TickGrasped ==
  /\ interface = "grasped"
  /\ IF ticks + 1 > DelayBeforeHold
     THEN interface' = "holding" /\ StartHold /\ ticks' = 0
     ELSE ticks' = ticks + 1 /\ UNCHANGED <<interface, dimmerVars>>

TickHolding ==
  /\ interface = "holding"
  /\ IF ticks + 1 >= LevelDelay THEN Hold /\ ticks' = 0
     ELSE ticks' = ticks + 1 /\ UNCHANGED dimmerVars
  /\ UNCHANGED interface

-----------------------------------------------------------------------------
(* The main loop: the requests of one poll, the milliseconds that have      *)
(* passed, then the keypad.                                                 *)

Goto(from, to) == phase = from /\ phase' = to

RemoteGrasp ==
  /\ phase = "poll"
  /\ Grasp
  /\ UNCHANGED loopVars

RemoteRelease ==
  /\ phase = "poll"
  /\ Release
  /\ UNCHANGED loopVars

\* dimmer_get_current_level: reading the level takes the notice back.
GetCurrentLevel ==
  /\ phase = "poll"
  /\ sendOutput' = FALSE
  /\ known' = level
  /\ UNCHANGED <<loopVars, interfaceVars, dimmer, level, shown, saved, lightOn, disturbed>>

RemoteSetLevel(l) ==
  /\ phase = "poll"
  /\ SetCurrentLevel(l)
  /\ disturbed' = TRUE
  /\ UNCHANGED <<loopVars, interfaceVars, dimmer, saved, lightOn, known>>

RemoteSetSaved(l) ==
  /\ phase = "poll"
  /\ saved' = l
  /\ disturbed' = TRUE
  /\ UNCHANGED <<loopVars, interfaceVars, dimmer, levelVars, lightOn, known>>

\* The display is drawn before the level is cleared; the dimmer's state stays.
Reset ==
  /\ phase = "poll"
  /\ interface' = "notGrasped" /\ ticks' = 0
  /\ shown' = level
  /\ level' = 0 /\ saved' = 0 /\ lightOn' = FALSE /\ sendOutput' = FALSE
  /\ known' = 0
  /\ disturbed' = (dimmer \in Active)
  /\ UNCHANGED <<loopVars, dimmer>>

HardReset ==
  /\ phase = "poll"
  /\ keepRunning' = FALSE
  /\ UNCHANGED <<phase, lastKey, interfaceVars, dimmerVars, historyVars>>

PollEnds ==
  /\ Goto("poll", "tick")
  /\ UNCHANGED <<keepRunning, lastKey, interfaceVars, dimmerVars, historyVars>>

Tick ==
  /\ phase = "tick"
  /\ TickIgnoring \/ TickGrasped \/ TickHolding
  /\ UNCHANGED <<loopVars, historyVars>>

TicksEnd ==
  /\ Goto("tick", "key")
  /\ UNCHANGED <<keepRunning, lastKey, interfaceVars, dimmerVars, historyVars>>

\* Only a change of the key that is pressed is a message.
ScanKey(key) ==
  /\ Goto("key", IF keepRunning THEN "poll" ELSE "ended")
  /\ lastKey' = key
  /\ \/ key = lastKey /\ UNCHANGED <<interfaceVars, dimmerVars, historyVars>>
     \/ key # lastKey /\ key = "star" /\ Grasp
     \/ key # lastKey /\ key # "star" /\ Release
  /\ UNCHANGED keepRunning

Request ==
  \/ RemoteGrasp
  \/ RemoteRelease
  \/ GetCurrentLevel
  \/ \E l \in Settable : RemoteSetLevel(l) \/ RemoteSetSaved(l)
  \/ Reset
  \/ HardReset

Loop ==
  \/ PollEnds
  \/ TicksEnd
  \/ \E key \in Keys : ScanKey(key)

Next == Request \/ Tick \/ Loop

Spec == Init /\ [][Next]_vars

\* The loop goes round and the clock does not stop: when the loop keeps coming
\* back to the tick phase, milliseconds have passed again and again.
FairSpec == Spec /\ WF_vars(Loop) /\ SF_vars(Tick)

-----------------------------------------------------------------------------
\* The dimmer moves whenever the interface holds, even after a reset has cut a
\* hold off and left the dimmer moving by itself; only after such a reset does
\* it wait in a moving state without a hold (InterfaceStateMachine.cxx:40-62,
\* DimmerStateMachine.cxx:76-82).
MachinesAgree ==
  /\ interface = "holding" => dimmer \in Active
  /\ dimmer \in Active /\ ~disturbed => interface = "holding"

\* Unless the levels were set from outside or a hold was cut off, a light that
\* is off is dark, and one that is on and not being dimmed has the level that
\* the next touch or hold will bring back (DimmerStateMachine.cxx:60-166).
LightIsSteady ==
  ~disturbed => /\ ~lightOn => level = 0
                /\ lightOn /\ dimmer \in Passive => level = saved

InRange == level \in Levels /\ saved \in Levels

\* While it stays on, the light never jumps: a hold begins at the level the
\* light has and goes on by one, also where the direction turns; and only a
\* request that sets a level out of range takes the levels out of range
\* (DimmerStateMachine.cxx:85-164).
DimmingIsSmooth ==
  [][/\ ~disturbed /\ ~disturbed' /\ lightOn /\ lightOn' => level' \in level - 1 .. level + 1
     /\ InRange /\ ~InRange' => level' \in Settable \ Levels \/ saved' \in Settable \ Levels]_vars

\* A host that is not told of new output knows the level: whatever changes it,
\* but for a reset that the host asks for itself, sets m_sendOutput; and the
\* display shows the level, except for one cleared by a reset after the display
\* was drawn and not drawn again (InterfaceStateMachine.cxx:112-116,
\* DimmerStateMachine.cxx:32-46, 76-82).
LevelIsShown ==
  /\ ~sendOutput => known = level
  /\ shown = level \/ (level = 0 /\ ~lightOn /\ ~sendOutput)

\* A hold that lasts comes through every level, down and up again
\* (InterfaceStateMachine.cxx:30-38, DimmerStateMachine.cxx:87-139).
HoldReachesEveryLevel ==
  \A l \in Levels :
    (interface = "holding" /\ ~disturbed) ~>
      (level = l \/ interface # "holding" \/ disturbed \/ phase = "ended")

=============================================================================
