--------------------------- MODULE ApplicationsProofs --------------------------
(***************************************************************************)
(* Theorems about the applications, each for every value of its constants: *)
(* the light dimmer whatever its levels and delays, arduino_demo and       *)
(* acme_ventilator whatever their clocks and whatever requests set.        *)
(***************************************************************************)
EXTENDS MCApplications, TLAPS

-----------------------------------------------------------------------------
(* The light dimmer.                                                        *)

\* Undisturbed levels stay in range: DimmingIsSmooth needs it where they turn.
UndisturbedInRange == ~disturbed => InRange

\* A light that is off is not being dimmed: LightIsSteady needs it when the
\* level moves.
DarkIsStill == ~disturbed /\ ~lightOn => dimmer \in Passive

IInv ==
  /\ TypeOK
  /\ UndisturbedInRange
  /\ DarkIsStill
  /\ MachinesAgree
  /\ LightIsSteady
  /\ LevelIsShown

\* The part of TypeOK about the main loop, which no message disturbs.
LoopOK ==
  /\ phase \in {"poll", "tick", "key", "ended"}
  /\ keepRunning \in BOOLEAN
  /\ lastKey \in Keys

\* The part of TypeOK about the flags of the two machines.
FlagsOK == lightOn \in BOOLEAN /\ sendOutput \in BOOLEAN /\ disturbed \in BOOLEAN

\* The invariant holds once main has called reset.
LEMMA InitInv == Init => IInv
<1> SUFFICES ASSUME Init PROVE IInv
  OBVIOUS
<1> USE DimmerAssumption DEF Init
<1>1. TypeOK
  <2>1. LoopOK
    BY DEF LoopOK, Keys
  <2>2. FlagsOK
    BY DEF FlagsOK
  <2> QED
    BY <2>1, <2>2 DEF LoopOK, FlagsOK, TypeOK, Active, Passive
<1>2. UndisturbedInRange
  BY DEF UndisturbedInRange, InRange, Levels
<1>3. DarkIsStill /\ MachinesAgree
  BY DEF DarkIsStill, MachinesAgree, Active, Passive
<1>4. LightIsSteady
  BY DEF LightIsSteady
<1>5. LevelIsShown
  BY DEF LevelIsShown
<1> QED
  BY <1>1, <1>2, <1>3, <1>4, <1>5 DEF IInv

\* A grasp preserves it.
LEMMA GraspInv == ASSUME IInv, Grasp, LoopOK' PROVE IInv'
BY DimmerAssumption
  DEF Grasp, Redraw, LoopOK, interfaceVars, levelVars, historyVars,
      IInv, TypeOK, UndisturbedInRange, DarkIsStill, MachinesAgree, LightIsSteady,
      LevelIsShown, InRange, Levels, Active, Passive, Keys

\* A release preserves it, whichever state of the interface it ends.
LEMMA ReleaseInv == ASSUME IInv, Release, LoopOK' PROVE IInv'
<1> USE DimmerAssumption
    DEF Release, LoopOK, Redraw, dimmerVars, levelVars, historyVars,
        IInv, TypeOK, UndisturbedInRange, DarkIsStill, MachinesAgree, LightIsSteady,
        LevelIsShown, InRange, Levels, Active, Passive, Keys
<1>1. CASE interface = "holding"
  <2>1. StopHold
    BY <1>1
  <2> QED
    BY <1>1, <2>1 DEF StopHold
<1>2. CASE interface = "grasped"
  <2>1. Touch
    BY <1>2
  <2> QED
    <3>1. CASE lightOn
      <4>1. saved' = level /\ level' = 0 /\ sendOutput' = TRUE /\ shown' = 0 /\ ~lightOn'
        BY <2>1, <3>1 DEF Touch, SetCurrentLevel
      <4>2. FlagsOK'
        BY <2>1, <4>1 DEF FlagsOK, Touch
      <4> QED
        BY <1>2, <2>1, <3>1, <4>1, <4>2 DEF Touch, FlagsOK
    <3>2. CASE ~lightOn
      <4>1. saved' = saved /\ level' = saved /\ sendOutput' = TRUE /\ shown' = saved /\ lightOn'
        BY <2>1, <3>2 DEF Touch, SetCurrentLevel
      <4>2. FlagsOK'
        BY <2>1, <4>1 DEF FlagsOK, Touch
      <4> QED
        BY <1>2, <2>1, <3>2, <4>1, <4>2 DEF Touch, FlagsOK
    <3> QED
      BY <3>1, <3>2
<1>3. CASE interface = "ignoring"
  BY <1>3
<1>4. CASE interface = "notGrasped"
  BY <1>4
<1> QED
  BY <1>1, <1>2, <1>3, <1>4

\* A tick preserves it.
LEMMA TickInv == ASSUME IInv, Tick PROVE IInv'
<1> USE DimmerAssumption
    DEF Redraw, SetCurrentLevel, loopVars, dimmerVars, levelVars, historyVars,
        IInv, TypeOK, UndisturbedInRange, DarkIsStill, MachinesAgree, LightIsSteady,
        LevelIsShown, InRange, Levels, Active, Passive, Keys
<1>1. UNCHANGED <<loopVars, historyVars>>
  BY DEF Tick
<1>2. CASE TickIgnoring
  BY <1>1, <1>2 DEF TickIgnoring
<1>3. CASE TickGrasped
  <2>1. CASE ticks + 1 > DelayBeforeHold
    <3>1. interface' = "holding" /\ StartHold /\ ticks' = 0 /\ interface = "grasped"
      BY <1>3, <2>1 DEF TickGrasped
    <3> QED
      BY <1>1, <3>1 DEF StartHold
  <2>2. CASE ~(ticks + 1 > DelayBeforeHold)
    BY <1>1, <1>3, <2>2 DEF TickGrasped
  <2> QED
    BY <2>1, <2>2
<1>4. CASE TickHolding
  <2>1. CASE ticks + 1 >= LevelDelay
    <3>1. interface = "holding" /\ interface' = "holding" /\ Hold /\ ticks' = 0
      BY <1>4, <2>1 DEF TickHolding
    <3>2. FlagsOK'
      BY <1>1, <3>1 DEF FlagsOK, Hold
    <3>3. CASE dimmer = "up"
      BY <1>1, <3>1, <3>2, <3>3 DEF Hold, FlagsOK
    <3>4. CASE dimmer = "down"
      BY <1>1, <3>1, <3>2, <3>4 DEF Hold, FlagsOK
    <3>5. CASE dimmer \in Passive
      BY <1>1, <3>1, <3>2, <3>5 DEF Hold, FlagsOK
    <3> QED
      BY <3>3, <3>4, <3>5
  <2>2. CASE ~(ticks + 1 >= LevelDelay)
    BY <1>1, <1>4, <2>2 DEF TickHolding
  <2> QED
    BY <2>1, <2>2
<1> QED
  BY <1>2, <1>3, <1>4 DEF Tick

\* What a reset does to the flags.
LEMMA ResetFlags ==
  ASSUME Reset
  PROVE  FlagsOK' /\ ~lightOn' /\ ~sendOutput' /\ (disturbed' <=> dimmer \in Active)
<1>1. lightOn' = FALSE /\ sendOutput' = FALSE /\ disturbed' = (dimmer \in Active)
  BY DEF Reset
<1>2. (dimmer \in Active) \in BOOLEAN
  OBVIOUS
<1>3. disturbed' \in BOOLEAN /\ (disturbed' <=> dimmer \in Active)
  BY <1>1, <1>2, Zenon
<1>4. lightOn' \in BOOLEAN /\ sendOutput' \in BOOLEAN /\ ~lightOn' /\ ~sendOutput'
  BY <1>1, Zenon
<1> QED
  BY <1>3, <1>4 DEF FlagsOK

\* A request preserves it.
LEMMA RequestInv == ASSUME IInv, Request PROVE IInv'
<1> USE DimmerAssumption
    DEF loopVars, interfaceVars, dimmerVars, levelVars, historyVars,
        IInv, TypeOK, UndisturbedInRange, DarkIsStill, MachinesAgree, LightIsSteady,
        LevelIsShown, InRange, Levels, Active, Passive, Keys
<1>1. CASE RemoteGrasp
  BY <1>1, GraspInv DEF RemoteGrasp, LoopOK
<1>2. CASE RemoteRelease
  BY <1>2, ReleaseInv DEF RemoteRelease, LoopOK
<1>3. CASE GetCurrentLevel
  BY <1>3 DEF GetCurrentLevel
<1>4. ASSUME NEW l \in Settable, RemoteSetLevel(l)
      PROVE  IInv'
  BY <1>4 DEF RemoteSetLevel, SetCurrentLevel
<1>5. ASSUME NEW l \in Settable, RemoteSetSaved(l)
      PROVE  IInv'
  BY <1>5 DEF RemoteSetSaved
<1>6. CASE Reset
  <2>1. FlagsOK' /\ ~lightOn' /\ ~sendOutput' /\ (disturbed' <=> dimmer \in Active)
    BY <1>6, ResetFlags
  <2>2. /\ interface' = "notGrasped" /\ ticks' = 0 /\ shown' = level
        /\ level' = 0 /\ saved' = 0 /\ known' = 0
        /\ UNCHANGED <<loopVars, dimmer>>
    BY <1>6 DEF Reset
  <2>3. TypeOK'
    BY <2>1, <2>2 DEF FlagsOK
  <2>4. UndisturbedInRange' /\ LightIsSteady'
    BY <2>1, <2>2
  <2>5. DarkIsStill' /\ MachinesAgree'
    BY <2>1, <2>2
  <2>6. LevelIsShown'
    BY <2>1, <2>2
  <2> QED
    BY <2>3, <2>4, <2>5, <2>6
<1>7. CASE HardReset
  BY <1>7 DEF HardReset
<1> QED
  BY <1>1, <1>2, <1>3, <1>4, <1>5, <1>6, <1>7 DEF Request

\* The steps of the main loop preserve it.
LEMMA LoopInv == ASSUME IInv, Loop PROVE IInv'
<1> USE DEF loopVars, interfaceVars, dimmerVars, levelVars, historyVars, Goto,
            IInv, TypeOK, UndisturbedInRange, DarkIsStill, MachinesAgree, LightIsSteady,
            LevelIsShown, InRange, Levels, Active, Passive, Keys
<1>1. CASE PollEnds
  BY <1>1 DEF PollEnds
<1>2. CASE TicksEnd
  BY <1>2 DEF TicksEnd
<1>3. ASSUME NEW key \in Keys, ScanKey(key)
      PROVE  IInv'
  <2>1. LoopOK'
    BY <1>3 DEF ScanKey, LoopOK
  <2>2. CASE UNCHANGED <<interfaceVars, dimmerVars, historyVars>>
    BY <2>1, <2>2 DEF LoopOK
  <2> QED
    BY <1>3, <2>1, <2>2, GraspInv, ReleaseInv DEF ScanKey
<1> QED
  BY <1>1, <1>2, <1>3 DEF Loop

\* Every step preserves it.
LEMMA StepInv == ASSUME IInv, [Next]_vars PROVE IInv'
<1>1. CASE UNCHANGED vars
  BY <1>1
     DEF vars, loopVars, interfaceVars, dimmerVars, levelVars, historyVars,
         IInv, TypeOK, UndisturbedInRange, DarkIsStill, MachinesAgree, LightIsSteady,
         LevelIsShown, InRange
<1> QED
  BY <1>1, RequestInv, TickInv, LoopInv DEF Next

\* The invariant of the dimmer holds in every state.
THEOREM Invariance == Spec => []IInv
BY InitInv, StepInv, PTL DEF Spec

\* Every variable keeps its type (the program's integers are unbounded here).
THEOREM TypeCorrect == Spec => []TypeOK
BY Invariance, PTL DEF IInv

\* The dimmer moves whenever the interface holds, and, while no reset has cut a
\* hold off, at no other time.
THEOREM MachinesStayTogether == Spec => []MachinesAgree
BY Invariance, PTL DEF IInv

\* A light that is off is dark, and one that is on and at rest will come back
\* with the level it has.
THEOREM SteadyLight == Spec => []LightIsSteady
BY Invariance, PTL DEF IInv

\* A level the host does not know is announced to it, and the display shows the
\* level but for one that a reset has just cleared.
THEOREM LevelIsPublic == Spec => []LevelIsShown
BY Invariance, PTL DEF IInv

-----------------------------------------------------------------------------
(* Dimming.  A step is smooth when a light that stays on moves by one level *)
(* at most and the levels stay in range.                                    *)

Smooth ==
  /\ ~disturbed /\ ~disturbed' /\ lightOn /\ lightOn' => level' \in level - 1 .. level + 1
  /\ InRange => InRange'

\* A message that leaves both levels alone is smooth.
LEMMA StillIsSmooth == ASSUME IInv, UNCHANGED <<level, saved>> PROVE Smooth
BY DEF IInv, TypeOK, Smooth, InRange, Levels

\* A touch turns the light on or off; the release of a hold leaves the level.
LEMMA ReleaseIsSmooth == ASSUME IInv, Release PROVE Smooth
<1> USE DEF IInv, TypeOK, InRange, Levels
<1>1. CASE interface = "grasped"
  <2>1. Touch
    BY <1>1 DEF Release
  <2>2. lightOn' = ~lightOn
    BY <2>1 DEF Touch
  <2>3. ~(lightOn /\ lightOn')
    BY <2>2
  <2>4. InRange => InRange'
    BY <2>1, DimmerAssumption DEF Touch, SetCurrentLevel
  <2> QED
    BY <2>3, <2>4 DEF Smooth
<1>2. CASE interface = "holding"
  BY <1>2 DEF Release, StopHold, Redraw, Smooth
<1>3. CASE interface \in {"ignoring", "notGrasped"}
  BY <1>3, StillIsSmooth DEF Release, Redraw, dimmerVars, levelVars
<1> QED
  BY <1>1, <1>2, <1>3 DEF Release

LEMMA GraspIsSmooth == ASSUME IInv, Grasp PROVE Smooth
BY StillIsSmooth DEF Grasp, Redraw, levelVars

\* A hold begins at the level that the light has, and goes on by one.
LEMMA TickIsSmooth == ASSUME IInv, Tick PROVE Smooth
<1> USE DEF IInv, TypeOK, InRange, Levels
<1>1. CASE TickIgnoring
  BY <1>1, StillIsSmooth DEF TickIgnoring, Redraw, levelVars
<1>2. CASE TickGrasped
  <2>1. CASE StartHold
    <3>1. CASE dimmer = "upPassive"
      <4>1. level' = saved /\ saved' = saved
        BY <2>1, <3>1 DEF StartHold, SetCurrentLevel, Active
      <4>2. ~disturbed /\ lightOn => level = saved
        BY <3>1 DEF LightIsSteady, Passive
      <4> QED
        BY <4>1, <4>2 DEF Smooth
    <3>2. CASE dimmer # "upPassive"
      BY <2>1, <3>2 DEF StartHold, Redraw, Smooth
    <3> QED
      BY <3>1, <3>2
  <2>2. CASE UNCHANGED dimmerVars
    BY <2>2, StillIsSmooth DEF dimmerVars, levelVars
  <2> QED
    BY <1>2, <2>1, <2>2 DEF TickGrasped
<1>3. CASE TickHolding
  <2>1. CASE Hold
    <3>1. saved' = saved
      BY <2>1 DEF Hold
    <3>2. InRange => level' \in level - 1 .. level + 1 /\ InRange'
      BY <2>1, <3>1, DimmerAssumption DEF Hold, SetCurrentLevel, levelVars
    <3>3. ~disturbed => InRange
      BY DEF UndisturbedInRange
    <3> QED
      BY <3>2, <3>3 DEF Smooth
  <2>2. CASE UNCHANGED dimmerVars
    BY <2>2, StillIsSmooth DEF dimmerVars, levelVars
  <2> QED
    BY <1>3, <2>1, <2>2 DEF TickHolding
<1> QED
  BY <1>1, <1>2, <1>3 DEF Tick

\* A light that stays on never jumps, and only a request that sets a level out
\* of range takes the levels out of range (DimmerStateMachine.cxx:85-164).
THEOREM LightNeverJumps == Spec => DimmingIsSmooth
<1> DEFINE Step ==
      /\ ~disturbed /\ ~disturbed' /\ lightOn /\ lightOn' => level' \in level - 1 .. level + 1
      /\ InRange /\ ~InRange' => level' \in Settable \ Levels \/ saved' \in Settable \ Levels
<1>1. IInv /\ [Next]_vars => [Step]_vars
  <2> SUFFICES ASSUME IInv, Next PROVE Step
    OBVIOUS
  <2>1. Smooth => Step
    BY DEF Smooth
  <2>2. CASE RemoteGrasp \/ RemoteRelease
    BY <2>1, <2>2, GraspIsSmooth, ReleaseIsSmooth DEF RemoteGrasp, RemoteRelease
  <2>3. CASE GetCurrentLevel \/ HardReset
    BY <2>1, <2>3, StillIsSmooth DEF GetCurrentLevel, HardReset, dimmerVars, levelVars
  <2>4. ASSUME NEW l \in Settable, RemoteSetLevel(l) \/ RemoteSetSaved(l)
        PROVE  Step
    <3>1. disturbed' = TRUE
      BY <2>4 DEF RemoteSetLevel, RemoteSetSaved
    <3>2. \/ level' = l /\ saved' = saved
          \/ level' = level /\ saved' = l
      BY <2>4 DEF RemoteSetLevel, RemoteSetSaved, SetCurrentLevel, levelVars
    <3> QED
      BY <3>1, <3>2 DEF InRange
  <2>5. CASE Reset
    <3>1. lightOn' = FALSE /\ level' = 0 /\ saved' = 0
      BY <2>5 DEF Reset
    <3>2. InRange'
      BY <3>1, DimmerAssumption DEF InRange, Levels
    <3> QED
      BY <3>1, <3>2
  <2>6. CASE Tick
    BY <2>1, <2>6, TickIsSmooth
  <2>7. CASE PollEnds \/ TicksEnd
    BY <2>1, <2>7, StillIsSmooth DEF PollEnds, TicksEnd, dimmerVars, levelVars
  <2>8. ASSUME NEW key \in Keys, ScanKey(key)
        PROVE  Step
    <3>1. CASE UNCHANGED dimmerVars
      BY <2>1, <3>1, StillIsSmooth DEF dimmerVars, levelVars
    <3> QED
      BY <2>1, <2>8, <3>1, GraspIsSmooth, ReleaseIsSmooth DEF ScanKey
  <2> QED
    BY <2>2, <2>3, <2>4, <2>5, <2>6, <2>7, <2>8 DEF Next, Request, Loop
<1> QED
  BY <1>1, Invariance, PTL DEF Spec, DimmingIsSmooth

-----------------------------------------------------------------------------
(* The clocks.                                                              *)

\* What both clocks are made of.
ClockTypes == [weekday : 0 .. 255, hour : 0 .. 255, minute : 0 .. 255, second : 0 .. 255]

LEMMA ByteInRange ==
  ASSUME NEW n \in Int
  PROVE  Climate!Byte(n) \in 0 .. 255 /\ Fan!Byte(n) = Climate!Byte(n)
BY DEF Climate!Byte, Fan!Byte

LEMMA UpInRange ==
  ASSUME NEW n \in 0 .. 255, NEW limit
  PROVE  Climate!Up(n, limit) \in 0 .. 255
BY ByteInRange DEF Climate!Up

\* A second keeps every field a byte, whatever the limits and whatever a
\* request has set.
LEMMA SecondKeepsClock ==
  ASSUME NEW clock \in ClockTypes
  PROVE  Climate!AfterSecond(clock) \in ClockTypes
<1> DEFINE after == Climate!AfterSecond(clock)
<1>1. DOMAIN clock = {"weekday", "hour", "minute", "second"}
  BY DEF ClockTypes
<1>2. ASSUME NEW field \in DOMAIN clock
      PROVE  after[field] \in 0 .. 255
  <2>1. clock[field] \in 0 .. 255
    BY <1>1 DEF ClockTypes
  <2>2. after[field] = IF Climate!Carries(clock, field)
                       THEN Climate!Up(clock[field], Climate!Limit(field)) ELSE clock[field]
    BY DEF Climate!AfterSecond
  <2> QED
    BY <2>1, <2>2, UpInRange
<1>3. after = [weekday |-> after.weekday, hour |-> after.hour,
               minute |-> after.minute, second |-> after.second]
  BY <1>1 DEF Climate!AfterSecond
<1> HIDE DEF after
<1>4. after \in ClockTypes
  BY <1>1, <1>2, <1>3 DEF ClockTypes
<1> QED
  BY <1>4 DEF after

LEMMA SetKeepsClock ==
  ASSUME NEW clock \in ClockTypes, NEW field \in DOMAIN clock, NEW value \in Int
  PROVE  [clock EXCEPT ![field] = Climate!Byte(value)] \in ClockTypes
BY ByteInRange DEF ClockTypes

\* Both programs count in the same way.
LEMMA SameCount ==
  ASSUME NEW clock
  PROVE  Fan!AfterSecond(clock) = Climate!AfterSecond(clock)
BY DEF Fan!AfterSecond, Climate!AfterSecond, Fan!Carries, Climate!Carries, Fan!Up,
       Climate!Up, Fan!Limit, Climate!Limit, Fan!Byte, Climate!Byte

-----------------------------------------------------------------------------
(* arduino_demo: the types.                                                 *)

LEMMA ToldFields ==
  DOMAIN Climate!InitialTold = {"weekday", "hour", "minute", "heater", "dayTemp",
                                "nightTemp", "current", "setpoint"}
BY DEF Climate!InitialTold

\* The rounded temperature is a number.
LEMMA TenthsTyped ==
  ASSUME NEW reading \in TempReadings
  PROVE  /\ Climate!Temperature(reading) \in Int
         /\ Climate!ToInt10(Climate!Temperature(reading)) \in Int
BY InputAssumption DEF Climate!Temperature, Climate!ToInt10

\* The parts of Climate!TypeOK: where the loop and the clock are, the settings,
\* what is read, switched and told, and the history.
TimeTyped == climatePhase \in {"clock", "poll", "tick"} /\ climateClock \in ClockTypes

SettingsTyped ==
  /\ dayClock \in Nat /\ nightClock \in Nat
  /\ dayTemp \in Int /\ nightTemp \in Int /\ nightUsed \in BOOLEAN

HeatTyped == current \in Int /\ heater \in BOOLEAN /\ DOMAIN told = DOMAIN Climate!InitialTold

HistoryTyped == moved \in BOOLEAN /\ switched \in {-1} \cup TempReadings

ClimateTyped == TimeTyped /\ SettingsTyped /\ HeatTyped /\ HistoryTyped

LEMMA TypesOfClimate == Climate!TypeOK <=> ClimateTyped
BY DEF Climate!TypeOK, Climate!Clocks, ClockTypes, ClimateTyped, TimeTyped, SettingsTyped,
       HeatTyped, HistoryTyped

\* Day and night changing over, or not, keeps the history's types.
LEMMA NoteKeepsTypes ==
  ASSUME HistoryTyped, Climate!NoteMove
  PROVE  HistoryTyped'
<1>1. CASE UNCHANGED <<moved, switched>>
  BY <1>1 DEF HistoryTyped
<1>2. CASE moved' = TRUE /\ switched' = -1
  BY <1>2 DEF HistoryTyped
<1> QED
  BY <1>1, <1>2, Zenon DEF Climate!NoteMove

LEMMA TimeKeepsTypes ==
  ASSUME ClimateTyped,
         \/ Climate!Second
         \/ \E field \in DOMAIN climateClock, value \in TempClockFields :
              Climate!SetClock(field, value)
  PROVE  ClimateTyped'
<1> USE ToldFields DEF ClimateTyped
<1>1. CASE Climate!Second
  <2>1. UNCHANGED <<climatePhase, Climate!settings, current, heater>> /\ Climate!NoteMove
    BY <1>1, Zenon DEF Climate!Second
  <2>2. climateClock' \in ClockTypes
    BY <1>1, SecondKeepsClock DEF Climate!Second, TimeTyped
  <2>3. DOMAIN told' = DOMAIN told
    BY <1>1 DEF Climate!Second
  <2> QED
    BY <2>1, <2>2, <2>3, NoteKeepsTypes
       DEF TimeTyped, SettingsTyped, HeatTyped, Climate!settings
<1>2. ASSUME NEW field \in DOMAIN climateClock, NEW value \in TempClockFields,
             Climate!SetClock(field, value)
      PROVE  ClimateTyped'
  <2>1. UNCHANGED <<climatePhase, Climate!settings, current, heater>> /\ Climate!NoteMove
    BY <1>2, Zenon DEF Climate!SetClock
  <2>2. climateClock' \in ClockTypes
    <3>1. value \in Int /\ climateClock \in ClockTypes
      BY InputAssumption DEF TimeTyped
    <3>2. climateClock' = [climateClock EXCEPT ![field] = Climate!Byte(value)]
      BY <1>2, Zenon DEF Climate!SetClock
    <3> QED
      BY <1>2, <3>1, <3>2, SetKeepsClock
  <2>3. DOMAIN told' = DOMAIN told
    BY <1>2 DEF Climate!SetClock
  <2> QED
    BY <2>1, <2>2, <2>3, NoteKeepsTypes
       DEF TimeTyped, SettingsTyped, HeatTyped, Climate!settings
<1> QED
  BY <1>1, <1>2

\* A setting is told and ends what the history compares.
LEMMA SettingKeepsTypes ==
  ASSUME ClimateTyped, NEW temp \in Settings,
         Climate!SetSetpoint(temp) \/ Climate!SetDayTemp(temp) \/ Climate!SetNightTemp(temp)
  PROVE  ClimateTyped'
<1>1. /\ UNCHANGED <<climatePhase, climateClock, dayClock, nightClock, nightUsed, current, heater>>
      /\ switched' = -1
  BY Zenon DEF Climate!SetSetpoint, Climate!SetDayTemp, Climate!SetNightTemp
<1>2. dayTemp' \in {temp, dayTemp} /\ nightTemp' \in {temp, nightTemp}
  BY DEF Climate!SetSetpoint, Climate!SetDayTemp, Climate!SetNightTemp
<1>3. DOMAIN told' = DOMAIN told
  BY DEF Climate!SetSetpoint, Climate!SetDayTemp, Climate!SetNightTemp
<1>4. moved' \in BOOLEAN
  <2>1. CASE Climate!SetSetpoint(temp)
    BY <2>1, Zenon DEF Climate!SetSetpoint
  <2>2. CASE Climate!SetDayTemp(temp)
    BY <2>2, Zenon DEF Climate!SetDayTemp
  <2>3. CASE Climate!SetNightTemp(temp)
    BY <2>3, Zenon DEF Climate!SetNightTemp
  <2> QED
    BY <2>1, <2>2, <2>3
<1> QED
  BY <1>1, <1>2, <1>3, <1>4, InputAssumption
     DEF ClimateTyped, TimeTyped, SettingsTyped, HeatTyped, HistoryTyped

\* A reading beyond the band, by the setpoint in force.
Hot(reading) ==
  10 * Climate!Temperature(reading) > (10 * Climate!SetpointDegrees + 3) * Climate!Degree
Cold(reading) ==
  10 * Climate!Temperature(reading) < (10 * Climate!SetpointDegrees - 3) * Climate!Degree

\* A heater that is on stays on until it is hot, one that is off stays off until
\* it is cold.
LEMMA WhatHeats ==
  ASSUME NEW reading, Climate!Regulate(reading)
  PROVE  /\ heater' = (IF heater THEN ~Hot(reading) ELSE Cold(reading))
         /\ heater' \in BOOLEAN
         /\ Hot(reading) \in BOOLEAN /\ Cold(reading) \in BOOLEAN
<1>1. heater' = (IF heater THEN ~Hot(reading) ELSE Cold(reading))
  BY DEF Climate!Regulate, Hot, Cold
<1>2. Hot(reading) \in BOOLEAN /\ Cold(reading) \in BOOLEAN
  BY DEF Hot, Cold
<1> QED
  BY <1>1, <1>2, Zenon

LEMMA HeatKeepsTypes ==
  ASSUME ClimateTyped,
         \/ \E on \in BOOLEAN : Climate!RequestHeater(on)
         \/ \E reading \in TempReadings :
              Climate!ReadTemperature(reading) \/ Climate!Regulate(reading)
  PROVE  ClimateTyped'
<1> USE DEF ClimateTyped, TimeTyped, SettingsTyped, HeatTyped, HistoryTyped, Climate!settings
<1>1. ASSUME NEW on \in BOOLEAN, Climate!RequestHeater(on) PROVE ClimateTyped'
  <2>1. UNCHANGED <<climatePhase, climateClock, Climate!settings, current, moved>>
        /\ heater' = on /\ switched' = -1
    BY <1>1, Zenon DEF Climate!RequestHeater, Climate!SetHeaterState
  <2>2. DOMAIN told' = DOMAIN told
    BY <1>1 DEF Climate!RequestHeater, Climate!SetHeaterState
  <2> QED
    BY <2>1, <2>2
<1>2. ASSUME NEW reading \in TempReadings, Climate!ReadTemperature(reading) PROVE ClimateTyped'
  <2>1. UNCHANGED <<climatePhase, climateClock, Climate!settings, heater, moved, switched>>
    BY <1>2, Zenon DEF Climate!ReadTemperature
  <2>2. current' \in Int /\ DOMAIN told' = DOMAIN told
    BY <1>2, TenthsTyped DEF Climate!ReadTemperature, Climate!Read
  <2> QED
    BY <2>1, <2>2
<1>3. ASSUME NEW reading \in TempReadings, Climate!Regulate(reading) PROVE ClimateTyped'
  <2>1. /\ UNCHANGED <<climateClock, Climate!settings, moved>>
        /\ climatePhase' = "clock" /\ (switched' = reading \/ switched' = switched)
    BY <1>3, Zenon DEF Climate!Regulate
  <2>2. current' \in Int /\ DOMAIN told' = DOMAIN told
    BY <1>3, TenthsTyped DEF Climate!Regulate
  <2>3. heater' \in BOOLEAN
    BY <1>3, WhatHeats, Zenon
  <2> QED
    BY <2>1, <2>2, <2>3
<1> QED
  BY <1>1, <1>2, <1>3

LEMMA ClimateKeepsTypes ==
  ASSUME ClimateTyped, [Climate!Next]_(Climate!vars)
  PROVE  ClimateTyped'
<1>1. CASE Climate!SetDayNight
  <2>1. /\ UNCHANGED <<climatePhase, climateClock, dayTemp, nightTemp, current, heater, told>>
        /\ Climate!NoteMove
    BY <1>1, Zenon DEF Climate!SetDayNight
  <2>2. dayClock' \in Nat /\ nightClock' \in Nat
    BY <1>1, InputAssumption DEF Climate!SetDayNight, ClimateTyped, SettingsTyped
  <2>3. nightUsed' \in BOOLEAN
    BY <1>1, Zenon DEF Climate!SetDayNight, ClimateTyped, SettingsTyped
  <2> QED
    BY <2>1, <2>2, <2>3, NoteKeepsTypes DEF ClimateTyped, TimeTyped, SettingsTyped, HeatTyped
<1>2. CASE Climate!ClockIsCurrent \/ Climate!PollEnds \/ UNCHANGED Climate!vars
  <2>1. /\ UNCHANGED <<climateClock, Climate!settings, current, heater, told, moved, switched>>
        /\ climatePhase' \in {"clock", "poll", "tick"}
    BY <1>2 DEF Climate!ClockIsCurrent, Climate!PollEnds, Climate!vars, ClimateTyped, TimeTyped
  <2> QED
    BY <2>1 DEF ClimateTyped, TimeTyped, SettingsTyped, HeatTyped, HistoryTyped, Climate!settings
<1> QED
  BY <1>1, <1>2, TimeKeepsTypes, SettingKeepsTypes, HeatKeepsTypes
     DEF Climate!Next, Climate!Request

-----------------------------------------------------------------------------
(* arduino_demo: what the host is told.                                     *)

\* The setpoint moves with the settings and with the time of the day only.
LEMMA SetpointKept ==
  ASSUME Climate!UsingDayTime' = Climate!UsingDayTime,
         dayTemp' = dayTemp, nightTemp' = nightTemp
  PROVE  Climate!SetpointDegrees' = Climate!SetpointDegrees
BY DEF Climate!SetpointDegrees, Climate!InDegrees

LEMMA DayTimeKept ==
  ASSUME UNCHANGED <<climateClock, dayClock, nightClock, nightUsed>>
  PROVE  Climate!UsingDayTime' = Climate!UsingDayTime
BY DEF Climate!UsingDayTime, Climate!IsInDayTime, Climate!Now

\* The setpoint, to the degree, was told since day and night changed over.
SetpointTold == ~moved => Climate!InDegrees(told.setpoint) = Climate!SetpointDegrees

\* A change of day and night leaves nothing to be said of the setpoint.
LEMMA MoveIsNoted ==
  ASSUME SetpointTold, Climate!NoteMove,
         UNCHANGED <<dayTemp, nightTemp>>, told'.setpoint = told.setpoint
  PROVE  SetpointTold'
<1>1. CASE Climate!UsingDayTime' = Climate!UsingDayTime
  BY <1>1, SetpointKept DEF Climate!NoteMove, SetpointTold, Climate!InDegrees
<1>2. CASE Climate!UsingDayTime' # Climate!UsingDayTime
  BY <1>2 DEF Climate!NoteMove, SetpointTold
<1> QED
  BY <1>1, <1>2

\* The clock is told field by field, by carries and by requests.
LEMMA TimeIsTold ==
  ASSUME ClimateTyped, Climate!HostIsTold,
         \/ Climate!Second
         \/ \E field \in DOMAIN climateClock, value \in TempClockFields :
              Climate!SetClock(field, value)
  PROVE  Climate!HostIsTold'
<1>1. climateClock \in ClockTypes /\ DOMAIN told = DOMAIN Climate!InitialTold
  BY DEF ClimateTyped, TimeTyped, HeatTyped
<1> USE <1>1, ToldFields DEF ClockTypes
<1>2. SetpointTold
  BY DEF SetpointTold, Climate!HostIsTold
<1>3. CASE Climate!Second
  <2>1. told'.setpoint = told.setpoint
    BY <1>3 DEF Climate!Second
  <2>2. SetpointTold'
    BY <1>2, <1>3, <2>1, MoveIsNoted DEF Climate!Second, Climate!settings
  <2>3. /\ told'.weekday = climateClock'.weekday
        /\ told'.hour = climateClock'.hour /\ told'.minute = climateClock'.minute
    BY <1>3 DEF Climate!Second, Climate!AfterSecond, Climate!HostIsTold
  <2> QED
    BY <1>3, <2>2, <2>3 DEF Climate!Second, Climate!settings, Climate!HostIsTold, SetpointTold
<1>4. ASSUME NEW field \in DOMAIN climateClock, NEW value \in TempClockFields,
             Climate!SetClock(field, value)
      PROVE  Climate!HostIsTold'
  <2>1. told'.setpoint = told.setpoint
    BY <1>4 DEF Climate!SetClock
  <2>2. SetpointTold'
    BY <1>2, <1>4, <2>1, MoveIsNoted DEF Climate!SetClock, Climate!settings
  <2>3. CASE value = climateClock[field]
    <3>1. Climate!Byte(value) = climateClock[field]
      BY <2>3 DEF Climate!Byte
    <3>2. told' = told /\ climateClock' = climateClock
      BY <1>4, <2>3, <3>1 DEF Climate!SetClock
    <3> QED
      BY <1>4, <2>2, <3>2
         DEF Climate!SetClock, Climate!settings, Climate!HostIsTold, SetpointTold
  <2>4. CASE value # climateClock[field]
    BY <1>4, <2>2, <2>4 DEF Climate!SetClock, Climate!settings, Climate!HostIsTold, SetpointTold
  <2> QED
    BY <2>3, <2>4
<1> QED
  BY <1>3, <1>4

\* A setting is told as it is, the one in force as the setpoint as well.
LEMMA SettingIsTold ==
  ASSUME ClimateTyped, Climate!HostIsTold, NEW temp,
         Climate!SetSetpoint(temp) \/ Climate!SetDayTemp(temp) \/ Climate!SetNightTemp(temp)
  PROVE  Climate!HostIsTold'
<1> USE ToldFields DEF ClimateTyped, HeatTyped
<1>1. Climate!UsingDayTime' = Climate!UsingDayTime
  BY DayTimeKept DEF Climate!SetSetpoint, Climate!SetDayTemp, Climate!SetNightTemp
<1>2. told'.dayTemp = dayTemp' /\ told'.nightTemp = nightTemp'
  BY DEF Climate!SetSetpoint, Climate!SetDayTemp, Climate!SetNightTemp, Climate!HostIsTold
<1>3. SetpointTold'
  <2>1. CASE Climate!UsingDayTime
    <3>1. /\ Climate!SetpointDegrees = Climate!InDegrees(dayTemp)
          /\ Climate!SetpointDegrees' = Climate!InDegrees(dayTemp')
      BY <1>1, <2>1 DEF Climate!SetpointDegrees, Climate!InDegrees
    <3> QED
      BY <2>1, <3>1 DEF Climate!SetSetpoint, Climate!SetDayTemp, Climate!SetNightTemp,
                        Climate!HostIsTold, SetpointTold
  <2>2. CASE ~Climate!UsingDayTime
    <3>1. /\ Climate!SetpointDegrees = Climate!InDegrees(nightTemp)
          /\ Climate!SetpointDegrees' = Climate!InDegrees(nightTemp')
      BY <1>1, <2>2 DEF Climate!SetpointDegrees, Climate!InDegrees
    <3> QED
      BY <2>2, <3>1 DEF Climate!SetSetpoint, Climate!SetDayTemp, Climate!SetNightTemp,
                        Climate!HostIsTold, SetpointTold
  <2> QED
    BY <2>1, <2>2
<1>4. UNCHANGED <<climateClock, heater, current>>
  BY Zenon DEF Climate!SetSetpoint, Climate!SetDayTemp, Climate!SetNightTemp
<1>5. \A field \in {"weekday", "hour", "minute", "heater", "current"} : told'[field] = told[field]
  BY DEF Climate!SetSetpoint, Climate!SetDayTemp, Climate!SetNightTemp
<1> QED
  BY <1>2, <1>3, <1>4, <1>5 DEF Climate!HostIsTold, SetpointTold

\* Neither the heater nor a reading touches what the setpoint is made of.
LEMMA HeaterIsTold ==
  ASSUME ClimateTyped, Climate!HostIsTold,
         \/ \E on \in BOOLEAN : Climate!RequestHeater(on)
         \/ \E reading \in TempReadings :
              Climate!ReadTemperature(reading) \/ Climate!Regulate(reading)
  PROVE  Climate!HostIsTold'
<1> USE ToldFields DEF ClimateTyped, HeatTyped
<1>1. UNCHANGED <<climateClock, dayClock, nightClock, nightUsed, dayTemp, nightTemp, moved>>
  BY DEF Climate!RequestHeater, Climate!ReadTemperature, Climate!Regulate, Climate!settings
<1>2. Climate!SetpointDegrees' = Climate!SetpointDegrees
  BY <1>1, DayTimeKept, SetpointKept
<1> DEFINE Others == {"weekday", "hour", "minute", "dayTemp", "nightTemp", "setpoint"}
           Rest == /\ told'.heater = heater' /\ told'.current = current'
                   /\ \A f \in Others : told'[f] = told[f]
<1>3. ASSUME NEW on \in BOOLEAN, Climate!RequestHeater(on) PROVE Rest
  BY <1>3 DEF Climate!RequestHeater, Climate!SetHeaterState, Climate!HostIsTold
<1>4. ASSUME NEW reading \in TempReadings, Climate!ReadTemperature(reading) PROVE Rest
  BY <1>4 DEF Climate!ReadTemperature, Climate!Read, Climate!HostIsTold
<1>5. ASSUME NEW reading \in TempReadings, Climate!Regulate(reading) PROVE Rest
  <2>1. told'.heater = heater' /\ told'.current = current'
    BY <1>5 DEF Climate!Regulate, Climate!HostIsTold
  <2>2. \A f \in Others : told'[f] = told[f]
    BY <1>5 DEF Climate!Regulate
  <2> QED
    BY <2>1, <2>2
<1>6. Rest
  BY <1>3, <1>4, <1>5
<1> QED
  BY <1>1, <1>2, <1>6 DEF Climate!HostIsTold

LEMMA ToldKept ==
  ASSUME ClimateTyped, Climate!HostIsTold, [Climate!Next]_(Climate!vars)
  PROVE  Climate!HostIsTold'
<1>1. CASE Climate!SetDayNight
  <2>1. UNCHANGED <<climateClock, dayTemp, nightTemp, current, heater, told>> /\ Climate!NoteMove
    BY <1>1, Zenon DEF Climate!SetDayNight
  <2>2. SetpointTold
    BY DEF SetpointTold, Climate!HostIsTold
  <2>3. SetpointTold'
    BY <2>1, <2>2, MoveIsNoted
  <2> QED
    BY <2>1, <2>3 DEF Climate!HostIsTold, SetpointTold
<1>2. CASE Climate!ClockIsCurrent \/ Climate!PollEnds \/ UNCHANGED Climate!vars
  <2>1. UNCHANGED <<climateClock, Climate!settings, current, heater, told, moved>>
    BY <1>2 DEF Climate!ClockIsCurrent, Climate!PollEnds, Climate!vars
  <2>2. Climate!SetpointDegrees' = Climate!SetpointDegrees
    BY <2>1, DayTimeKept, SetpointKept DEF Climate!settings
  <2> QED
    BY <2>1, <2>2 DEF Climate!settings, Climate!HostIsTold
<1> QED
  BY <1>1, <1>2, TimeIsTold, SettingIsTold, HeaterIsTold DEF Climate!Next, Climate!Request

-----------------------------------------------------------------------------
(* arduino_demo: the heater.                                                *)

\* While nobody has interfered, the heater is what the reading that switched it
\* asked for, by the setpoint that is still in force.
BandHolds == switched # -1 => (heater => Cold(switched)) /\ (~heater => Hot(switched))

LEMMA SetpointIsInt ==
  ASSUME SettingsTyped
  PROVE  Climate!SetpointDegrees \in Int
BY DEF SettingsTyped, Climate!SetpointDegrees, Climate!InDegrees

\* As long as the setpoint is the same, so are its bands.
LEMMA BandsKept ==
  ASSUME Climate!SetpointDegrees' = Climate!SetpointDegrees, NEW reading
  PROVE  Hot(reading)' = Hot(reading) /\ Cold(reading)' = Cold(reading)
BY DEF Hot, Cold, Climate!Temperature, Climate!Degree

\* The heater is switched by a reading on the other side of the band.
LEMMA WhatSwitches ==
  ASSUME heater \in BOOLEAN, NEW reading, Climate!Regulate(reading), heater' # heater
  PROVE  /\ switched' = reading
         /\ \/ heater /\ ~heater' /\ Hot(reading)
            \/ ~heater /\ heater' /\ Cold(reading)
<1>1. switched' = IF heater' # heater THEN reading ELSE switched
  BY Zenon DEF Climate!Regulate
<1>2. switched' = reading
  BY <1>1, Zenon
<1>3. /\ heater' = (IF heater THEN ~Hot(reading) ELSE Cold(reading))
      /\ heater' \in BOOLEAN /\ Hot(reading) \in BOOLEAN /\ Cold(reading) \in BOOLEAN
  BY WhatHeats, Zenon
<1>4. CASE heater
  <2>1. heater' = ~Hot(reading)
    BY <1>3, <1>4, Zenon
  <2>2. ~heater'
    BY <1>3, <1>4, Zenon
  <2> QED
    BY <1>2, <1>4, <2>1, <2>2, Zenon
<1>5. CASE ~heater
  <2>1. heater' = Cold(reading)
    BY <1>3, <1>5, Zenon
  <2>2. heater'
    BY <1>3, <1>5, Zenon
  <2> QED
    BY <1>2, <1>5, <2>1, <2>2, Zenon
<1> QED
  BY <1>4, <1>5

LEMMA BandAfterRegulation ==
  ASSUME ClimateTyped, BandHolds, NEW reading \in TempReadings, Climate!Regulate(reading)
  PROVE  BandHolds'
<1>1. Climate!SetpointDegrees' = Climate!SetpointDegrees
  BY DayTimeKept, SetpointKept DEF Climate!Regulate, Climate!settings
<1>2. CASE heater' = heater
  <2>1. switched' = IF heater' # heater THEN reading ELSE switched
    BY Zenon DEF Climate!Regulate
  <2>2. switched' = switched
    BY <1>2, <2>1, Zenon
  <2> QED
    BY <1>1, <1>2, <2>2 DEF BandHolds, Hot, Cold, Climate!Temperature, Climate!Degree
<1>3. CASE heater' # heater
  <2>1. heater \in BOOLEAN
    BY DEF ClimateTyped, HeatTyped
  <2>2. /\ switched' = reading
        /\ \/ heater /\ ~heater' /\ Hot(reading)
           \/ ~heater /\ heater' /\ Cold(reading)
    BY <1>3, <2>1, WhatSwitches, Zenon
  <2>3. (heater' => Cold(reading)) /\ (~heater' => Hot(reading))
    BY <2>2, Zenon
  <2> QED
    BY <1>1, <2>2, <2>3 DEF BandHolds, Hot, Cold, Climate!Temperature, Climate!Degree
<1> QED
  BY <1>2, <1>3

\* What changes the setpoint, or the heater, leaves nothing to compare with.
LEMMA BandKept ==
  ASSUME ClimateTyped, BandHolds, [Climate!Next]_(Climate!vars)
  PROVE  BandHolds'
<1>1. CASE \E reading \in TempReadings : Climate!Regulate(reading)
  BY <1>1, BandAfterRegulation
<1>2. CASE \/ Climate!Second \/ Climate!SetDayNight
           \/ \E field \in DOMAIN climateClock, value \in TempClockFields :
                Climate!SetClock(field, value)
  <2>1. Climate!NoteMove /\ UNCHANGED <<dayTemp, nightTemp, heater>>
    BY <1>2 DEF Climate!Second, Climate!SetDayNight, Climate!SetClock, Climate!settings
  <2>2. CASE Climate!UsingDayTime' = Climate!UsingDayTime
    <3>1. Climate!SetpointDegrees' = Climate!SetpointDegrees /\ switched' = switched
      BY <2>1, <2>2, SetpointKept DEF Climate!NoteMove
    <3> QED
      BY <2>1, <3>1 DEF BandHolds, Hot, Cold, Climate!Temperature, Climate!Degree
  <2>3. CASE Climate!UsingDayTime' # Climate!UsingDayTime
    BY <2>1, <2>3 DEF Climate!NoteMove, BandHolds
  <2> QED
    BY <2>2, <2>3
<1>3. CASE \/ \E on \in BOOLEAN : Climate!RequestHeater(on)
           \/ \E temp \in Settings : \/ Climate!SetSetpoint(temp) \/ Climate!SetDayTemp(temp)
                                     \/ Climate!SetNightTemp(temp)
  <2>1. switched' = -1
    BY <1>3, Zenon DEF Climate!RequestHeater, Climate!SetSetpoint, Climate!SetDayTemp,
                       Climate!SetNightTemp
  <2> QED
    BY <2>1 DEF BandHolds
<1>4. CASE \/ Climate!ClockIsCurrent \/ Climate!PollEnds \/ UNCHANGED Climate!vars
           \/ \E reading \in TempReadings : Climate!ReadTemperature(reading)
  <2>1. UNCHANGED <<climateClock, Climate!settings, heater, switched>>
    BY <1>4 DEF Climate!ClockIsCurrent, Climate!PollEnds, Climate!vars, Climate!ReadTemperature
  <2>2. Climate!SetpointDegrees' = Climate!SetpointDegrees
    BY <2>1, DayTimeKept, SetpointKept DEF Climate!settings
  <2> QED
    BY <2>1, <2>2 DEF BandHolds, Hot, Cold, Climate!Temperature, Climate!Degree
<1> QED
  BY <1>1, <1>2, <1>3, <1>4 DEF Climate!Next, Climate!Request

\* Is the temperature at one reading more than 0.6 degrees from that at another?
Far(reading, other) ==
  \/ 10 * (Climate!Temperature(reading) - Climate!Temperature(other)) > 6 * Climate!Degree
  \/ 10 * (Climate!Temperature(other) - Climate!Temperature(reading)) > 6 * Climate!Degree

LEMMA SwitchIsFar ==
  ASSUME ClimateTyped, BandHolds, [Climate!Next]_(Climate!vars),
         climatePhase = "tick", heater' # heater, switched # -1
  PROVE  Far(switched', switched)
<1>1. PICK reading \in TempReadings : Climate!Regulate(reading)
  BY DEF Climate!Next, Climate!vars, Climate!Second, Climate!ClockIsCurrent, Climate!Request,
         Climate!SetClock, Climate!RequestHeater, Climate!SetSetpoint, Climate!SetDayTemp,
         Climate!SetNightTemp, Climate!SetDayNight, Climate!ReadTemperature, Climate!PollEnds
<1>2. /\ Climate!SetpointDegrees \in Int /\ Climate!Temperature(reading) \in Int
      /\ Climate!Temperature(switched) \in Int /\ heater \in BOOLEAN
  BY SetpointIsInt, TenthsTyped DEF ClimateTyped, HistoryTyped, HeatTyped
<1>3. /\ switched' = reading
      /\ \/ heater /\ ~heater' /\ Hot(reading)
         \/ ~heater /\ heater' /\ Cold(reading)
  BY <1>1, <1>2, WhatSwitches, Zenon
<1>4. \/ Cold(switched) /\ Hot(reading)
      \/ Hot(switched) /\ Cold(reading)
  BY <1>3 DEF BandHolds
<1>5. Far(reading, switched)
  BY <1>2, <1>4 DEF Far, Hot, Cold, Climate!Degree
<1> QED
  BY <1>3, <1>5

-----------------------------------------------------------------------------
(* acme_ventilator.                                                         *)

\* Setting the ventilator keeps the pin with it.
LEMMA PinFollows ==
  ASSUME NEW on \in BOOLEAN, Fan!VentilatingSet(on), pin = ventilating
  PROVE  ventilating' = on /\ pin' = on
BY DEF Fan!VentilatingSet

\* A tick gives what is asked for, whichever branch it takes.
LEMMA TickIsRight ==
  ASSUME Fan!FanIsRight, Fan!SecondTick
  PROVE  Fan!FanIsRight'
<1> USE DEF Fan!FanIsRight
<1>1. /\ Fan!Critical' = Fan!Critical /\ alarms' = Fan!Critical
      /\ mode' = mode /\ fanClock' = fanClock
  BY DEF Fan!SecondTick, Fan!Critical
<1>2. CASE Fan!Critical /\ Fan!VentilatingSet(TRUE)
  <2>1. ventilating' = TRUE /\ pin' = TRUE
    BY <1>2, PinFollows
  <2> QED
    BY <1>1, <1>2, <2>1
<1>3. CASE ~Fan!Critical /\ \E on \in BOOLEAN : Fan!Wanted(on) /\ Fan!VentilatingSet(on)
  <2>1. PICK on \in BOOLEAN : Fan!Wanted(on) /\ Fan!VentilatingSet(on)
    BY <1>3
  <2>2. ventilating' = on /\ pin' = on
    BY <2>1, PinFollows
  <2>3. Fan!Wanted(ventilating)'
    BY <1>1, <2>1, <2>2 DEF Fan!Wanted
  <2> QED
    BY <1>1, <1>3, <2>2, <2>3
<1>4. CASE ~Fan!Critical /\ mode \notin 0 .. 4 /\ UNCHANGED <<ventilating, pin>>
  BY <1>1, <1>4
<1> QED
  BY <1>2, <1>3, <1>4 DEF Fan!SecondTick

\* Between ticks only what a decision is made from changes.
LEMMA FanStaysRight ==
  ASSUME Fan!FanIsRight, [Fan!Next]_(Fan!vars)
  PROVE  Fan!FanIsRight'
<1>1. CASE Fan!Second
  BY <1>1 DEF Fan!Second, Fan!fanVars, Fan!FanIsRight
<1>2. CASE Fan!ClockIsCurrent \/ Fan!PollEnds \/ UNCHANGED Fan!vars
  BY <1>2 DEF Fan!ClockIsCurrent, Fan!PollEnds, Fan!vars, Fan!timeVars, Fan!fanVars,
              Fan!FanIsRight, Fan!Critical, Fan!Wanted
<1>3. CASE Fan!SecondTick
  BY <1>3, TickIsRight
<1>4. CASE Fan!Request
  BY <1>4 DEF Fan!Request, Fan!SetClock, Fan!SetMode, Fan!SetCritical, Fan!fanVars,
              Fan!FanIsRight
<1>5. CASE Fan!Weather
  BY <1>5 DEF Fan!Weather, Fan!fanVars, Fan!FanIsRight
<1> QED
  BY <1>1, <1>2, <1>3, <1>4, <1>5 DEF Fan!Next

\* The parts of Fan!TypeOK: what a decision is made from, and what it sets.
AskedTyped ==
  /\ fanPhase \in {"clock", "poll"} /\ fanClock \in ClockTypes
  /\ raw \in HeatReadings /\ critical \in Int /\ mode \in Int

SetTyped ==
  ventilating \in BOOLEAN /\ pin \in BOOLEAN /\ alarms \in BOOLEAN /\ changed \in BOOLEAN

FanTyped == AskedTyped /\ SetTyped

LEMMA TypesOfFan == Fan!TypeOK <=> FanTyped
BY DEF Fan!TypeOK, Fan!Clocks, ClockTypes, FanTyped, AskedTyped, SetTyped

\* What is set stays set until a tick, which sets it to what FanIsRight allows.
LEMMA SetKeepsTypes ==
  ASSUME SetTyped, [Fan!Next]_(Fan!vars)
  PROVE  SetTyped'
<1>1. CASE Fan!SecondTick
  <2>1. alarms' \in BOOLEAN /\ changed' \in BOOLEAN
    <3>1. Fan!Critical \in BOOLEAN
      BY DEF Fan!Critical
    <3> QED
      BY <1>1, <3>1, Zenon DEF Fan!SecondTick
  <2>2. ventilating' \in BOOLEAN /\ pin' \in BOOLEAN
    <3>1. ASSUME NEW on \in BOOLEAN, Fan!VentilatingSet(on)
          PROVE  ventilating' \in BOOLEAN /\ pin' \in BOOLEAN
      BY <3>1, Zenon DEF Fan!VentilatingSet, SetTyped
    <3>2. ASSUME UNCHANGED <<ventilating, pin>>
          PROVE  ventilating' \in BOOLEAN /\ pin' \in BOOLEAN
      BY <3>2 DEF SetTyped
    <3> QED
      BY <1>1, <3>1, <3>2 DEF Fan!SecondTick
  <2> QED
    BY <2>1, <2>2 DEF SetTyped
<1>2. CASE ~Fan!SecondTick
  <2>1. UNCHANGED Fan!fanVars /\ (changed' = TRUE \/ changed' = changed)
    BY <1>2, Zenon
       DEF Fan!Next, Fan!Second, Fan!ClockIsCurrent, Fan!PollEnds, Fan!Request, Fan!SetClock,
           Fan!SetMode, Fan!SetCritical, Fan!Weather, Fan!vars, Fan!timeVars
  <2> QED
    BY <2>1 DEF SetTyped, Fan!fanVars
<1> QED
  BY <1>1, <1>2

LEMMA FanKeepsTypes ==
  ASSUME FanTyped, [Fan!Next]_(Fan!vars)
  PROVE  FanTyped'
<1>1. SetTyped'
  BY SetKeepsTypes DEF FanTyped
<1>2. fanClock' \in ClockTypes
  <2>1. CASE Fan!Second
    BY <2>1, SecondKeepsClock, SameCount DEF Fan!Second, FanTyped, AskedTyped
  <2>2. ASSUME NEW field \in DOMAIN fanClock, NEW value \in FanClockFields,
               Fan!SetClock(field, value)
        PROVE  fanClock' \in ClockTypes
    <3>1. value \in Int /\ fanClock \in ClockTypes
      BY InputAssumption DEF FanTyped, AskedTyped
    <3>2. fanClock' = [fanClock EXCEPT ![field] = Climate!Byte(value)]
      BY <2>2, <3>1, ByteInRange DEF Fan!SetClock
    <3> QED
      BY <2>2, <3>1, <3>2, SetKeepsClock
  <2>3. CASE UNCHANGED fanClock
    BY <2>3 DEF FanTyped, AskedTyped
  <2> QED
    BY <2>1, <2>2, <2>3
       DEF Fan!Next, Fan!ClockIsCurrent, Fan!PollEnds, Fan!SecondTick, Fan!Request,
           Fan!SetMode, Fan!SetCritical, Fan!Weather, Fan!vars, Fan!timeVars
<1>3. fanPhase' \in {"clock", "poll"}
  BY DEF Fan!Next, Fan!Second, Fan!ClockIsCurrent, Fan!PollEnds, Fan!SecondTick, Fan!Request,
         Fan!SetClock, Fan!SetMode, Fan!SetCritical, Fan!Weather, Fan!vars, FanTyped, AskedTyped
<1>4. /\ raw' = raw \/ raw' \in HeatReadings
      /\ critical' = critical \/ critical' \in Criticals
      /\ mode' = mode \/ mode' \in Modes
  BY Zenon
     DEF Fan!Next, Fan!Second, Fan!ClockIsCurrent, Fan!PollEnds, Fan!SecondTick, Fan!Request,
         Fan!SetClock, Fan!SetMode, Fan!SetCritical, Fan!Weather, Fan!vars, Fan!timeVars
<1>5. raw' \in HeatReadings
  BY <1>4, Zenon DEF FanTyped, AskedTyped
<1>6. Criticals \subseteq Int /\ Modes \subseteq Int
  BY InputAssumption
<1>7. critical' \in Int /\ mode' \in Int
  BY <1>4, <1>6 DEF FanTyped, AskedTyped
<1> QED
  BY <1>1, <1>2, <1>3, <1>5, <1>7 DEF FanTyped, AskedTyped

-----------------------------------------------------------------------------
(* The three programs together.                                             *)

\* A step of the composition is one of one program, and stutters in the others.
LEMMA EachRuns ==
  ASSUME [MCNext]_allVars
  PROVE  [Next]_vars /\ [Climate!Next]_(Climate!vars) /\ [Fan!Next]_(Fan!vars)
<1>1. UNCHANGED climateVars => UNCHANGED Climate!vars
  BY DEF climateVars, Climate!vars, Climate!settings
<1>2. UNCHANGED fanVars => UNCHANGED Fan!vars
  BY DEF fanVars, Fan!vars, Fan!timeVars, Fan!fanVars
<1> QED
  BY <1>1, <1>2 DEF MCNext, allVars

ProgramsInv ==
  /\ IInv
  /\ ClimateTyped /\ Climate!HostIsTold /\ BandHolds
  /\ FanTyped /\ Fan!FanIsRight

LEMMA ClimateStarts == Climate!Init => ClimateTyped /\ Climate!HostIsTold /\ BandHolds
<1> SUFFICES ASSUME Climate!Init PROVE ClimateTyped /\ Climate!HostIsTold /\ BandHolds
  OBVIOUS
<1>1. climateClock = [weekday |-> 0, hour |-> 0, minute |-> 0, second |-> 0]
  BY DEF Climate!Init, Climate!Midnight
<1>2. heater = FALSE /\ nightUsed = TRUE /\ moved = TRUE /\ switched = -1
  BY DEF Climate!Init
<1>3. ClimateTyped
  <2>1. TimeTyped
    BY <1>1 DEF Climate!Init, TimeTyped, ClockTypes
  <2>2. heater \in BOOLEAN /\ nightUsed \in BOOLEAN /\ moved \in BOOLEAN
    BY <1>2, Zenon
  <2> QED
    BY <1>2, <2>1, <2>2
       DEF Climate!Init, ClimateTyped, SettingsTyped, HeatTyped, HistoryTyped
<1>4. Climate!HostIsTold
  <2>1. /\ told.weekday = climateClock.weekday
        /\ told.hour = climateClock.hour /\ told.minute = climateClock.minute
    BY <1>1 DEF Climate!Init, Climate!InitialTold
  <2>2. told.heater = heater
    <3>1. told.heater = FALSE
      BY DEF Climate!Init, Climate!InitialTold
    <3> QED
      BY <1>2, <3>1, Zenon
  <2>3. told.current = current /\ told.dayTemp = dayTemp /\ told.nightTemp = nightTemp
    BY DEF Climate!Init, Climate!InitialTold
  <2> QED
    BY <1>2, <2>1, <2>2, <2>3 DEF Climate!HostIsTold
<1>5. BandHolds
  BY <1>2 DEF BandHolds
<1> QED
  BY <1>3, <1>4, <1>5

LEMMA FanStarts == Fan!Init => FanTyped /\ Fan!FanIsRight
<1> SUFFICES ASSUME Fan!Init PROVE FanTyped /\ Fan!FanIsRight
  OBVIOUS
<1>1. fanClock \in ClockTypes
  BY DEF Fan!Init, Fan!Midnight, ClockTypes
<1>2. ventilating = TRUE /\ pin = TRUE /\ alarms = FALSE /\ changed = TRUE
  BY DEF Fan!Init
<1>3. SetTyped
  BY <1>2, Zenon DEF SetTyped
<1> QED
  BY <1>1, <1>2, <1>3 DEF Fan!Init, FanTyped, AskedTyped, Fan!FanIsRight

\* What each program keeps, all of them keep.
THEOREM ProgramsInvariance == MCSpec => []ProgramsInv
<1>1. MCInit => ProgramsInv
  BY InitInv, ClimateStarts, FanStarts DEF MCInit, ProgramsInv
<1>2. ProgramsInv /\ [MCNext]_allVars => ProgramsInv'
  BY EachRuns, StepInv, ClimateKeepsTypes, ToldKept, BandKept, FanKeepsTypes, FanStaysRight
     DEF ProgramsInv
<1> QED
  BY <1>1, <1>2, PTL DEF MCSpec

\* The variables of the three programs keep their types: bytes of a clock stay
\* bytes whatever requests set them to (clock.cpp:86-126, clock.c).
THEOREM TypesKept == MCSpec => []TypesOK
<1>1. ProgramsInv => TypesOK
  BY TypesOfClimate, TypesOfFan DEF ProgramsInv, IInv, TypesOK
<1> QED
  BY <1>1, ProgramsInvariance, PTL

\* The host is told of every change, and of the setpoint until day and night
\* change over, whatever is set and read (clock.cpp:43-84, tempcontrol.cpp:62-69,
\* 103-117, 196-237).
THEOREM HostAlwaysTold == MCSpec => []HostIsTold
<1>1. ProgramsInv => HostIsTold
  BY DEF ProgramsInv, HostIsTold
<1> QED
  BY <1>1, ProgramsInvariance, PTL

\* From one switch of the heater to the next the temperature moves by more than
\* 0.6 degrees, whatever the setpoint, the readings and the time
\* (tempcontrol.cpp:120-138).
THEOREM HeaterIsSteady == MCSpec => NoFlutter
<1>1. ProgramsInv /\ [MCNext]_allVars =>
        [climatePhase = "tick" /\ heater' # heater /\ switched # -1 =>
           Far(switched', switched)]_(Climate!vars)
  BY EachRuns, SwitchIsFar DEF ProgramsInv
<1>2. ProgramsInv /\ [MCNext]_allVars =>
        [climatePhase = "tick" /\ heater' # heater /\ switched # -1 =>
           \/ 10 * (Climate!Temperature(switched') - Climate!Temperature(switched))
                > 6 * Climate!Degree
           \/ 10 * (Climate!Temperature(switched) - Climate!Temperature(switched'))
                > 6 * Climate!Degree]_(Climate!vars)
  BY <1>1, Zenon DEF Far
<1> QED
  BY <1>2, ProgramsInvariance, PTL DEF MCSpec, NoFlutter, Climate!NoFlutter

\* At all times the pin has the ventilator's state and an alarm means that it
\* runs; until something changes they are what heat, mode and time ask for
\* (ventilator.c:27-87).
THEOREM FanAlwaysRight == MCSpec => []FanIsRight
<1>1. ProgramsInv => FanIsRight
  BY DEF ProgramsInv, FanIsRight
<1> QED
  BY <1>1, ProgramsInvariance, PTL

=============================================================================
