----------------------------- MODULE MCApplications ----------------------------
(***************************************************************************)
(* The applications, each a program of its own: a behaviour is one of the  *)
(* light dimmer (this module extends it), of arduino_demo                 *)
(* or of acme_ventilator.                                                  *)
(***************************************************************************)
EXTENDS LightDimmer

CONSTANTS
  SecondsPerMinute, MinutesPerHour, HoursPerDay, DaysPerWeek,
  TempReadings, Settings, Times, TempClockFields,      \* what arduino_demo is given
  HeatReadings, Criticals, Modes, FanClockFields       \* what acme_ventilator is given

\* The sensors have ten bits; what requests set are numbers.
ASSUME InputAssumption ==
  /\ TempReadings \subseteq 0 .. 1023 /\ HeatReadings \subseteq 0 .. 1023
  /\ Settings \subseteq Int /\ Criticals \subseteq Int /\ Modes \subseteq Int
  /\ Times \subseteq Nat /\ TempClockFields \subseteq Int /\ FanClockFields \subseteq Int

VARIABLES
  program,  \* the program that runs
  climatePhase, climateClock, dayClock, nightClock, dayTemp, nightTemp, nightUsed,
  current, heater, told, moved, switched,
  fanPhase, fanClock, raw, critical, mode, ventilating, pin, alarms, changed

climateVars == <<climatePhase, climateClock, dayClock, nightClock, dayTemp, nightTemp,
                 nightUsed, current, heater, told, moved, switched>>
fanVars == <<fanPhase, fanClock, raw, critical, mode, ventilating, pin, alarms, changed>>

Climate == INSTANCE Climate WITH
  Readings <- TempReadings, ClockFields <- TempClockFields,
  phase <- climatePhase, clock <- climateClock

Fan == INSTANCE Ventilator WITH
  Readings <- HeatReadings, ClockFields <- FanClockFields,
  phase <- fanPhase, clock <- fanClock

allVars == <<vars, program, climateVars, fanVars>>

\* The outside that a program does not have is left at one value.
MCInit ==
  /\ program \in {"dimmer", "climate", "fan"}
  /\ Init /\ Climate!Init /\ Fan!Init
  /\ program # "fan" => raw = CHOOSE reading \in HeatReadings : TRUE

MCNext ==
  /\ UNCHANGED program
  /\ \/ /\ program = "dimmer" /\ Next
        /\ UNCHANGED <<climateVars, fanVars>>
     \/ /\ program = "climate" /\ Climate!Next
        /\ UNCHANGED <<vars, fanVars>>
     \/ /\ program = "fan" /\ Fan!Next
        /\ UNCHANGED <<vars, climateVars>>

\* The fairness of each program, while it is the one that runs.
MCSpec ==
  /\ MCInit /\ [][MCNext]_allVars
  /\ WF_vars(program = "dimmer" /\ Loop) /\ SF_vars(program = "dimmer" /\ Tick)
  /\ WF_fanVars(program = "fan" /\ Fan!ClockIsCurrent)
  /\ SF_fanVars(program = "fan" /\ Fan!SecondTick)

-----------------------------------------------------------------------------
\* The types of the three programs.
TypesOK == TypeOK /\ Climate!TypeOK /\ Fan!TypeOK

\* arduino_demo: the host is told of every change (clock.cpp:43-84,
\* tempcontrol.cpp:62-69, 103-117, 196-237).
HostIsTold == Climate!HostIsTold

\* arduino_demo: the heater does not flutter (tempcontrol.cpp:120-138).
NoFlutter == Climate!NoFlutter

\* acme_ventilator: ventilator, pin and alarm are what is asked for
\* (ventilator.c:27-87, 105-122).
FanIsRight == Fan!FanIsRight

\* acme_ventilator: lasting heat is vented (ventilator.c:35-39).
HeatIsVented == program = "fan" => Fan!HeatIsVented

=============================================================================
