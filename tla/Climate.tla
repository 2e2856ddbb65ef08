-------------------------------- MODULE Climate --------------------------------
(***************************************************************************)
(* arduino_demo: the clock and the temperature control (clock.cpp,         *)
(* tempcontrol.cpp) in the main loop (main.cpp).  The loop counts the      *)
(* seconds, answers requests, and once a second switches the heater.       *)
(* Whatever changes is announced to the host (the seconds, told every ten, *)
(* are left out).  Temperatures are tenths of a degree, but for the one    *)
(* read, which is exact in 1024ths of a tenth.                             *)
(***************************************************************************)
EXTENDS Clock

CONSTANTS
  Readings,   \* what analogRead may return for the sensor
  Settings,   \* the temperatures that requests set, in tenths of a degree
  Times,      \* the times hhmm that requests set
  ClockFields \* the values that requests set fields of the clock to

VARIABLES
  phase,      \* where the main loop is
  clock,
  dayClock, nightClock,  \* day_clock and night_clock
  dayTemp, nightTemp,    \* day_temp and night_temp
  nightUsed,  \* night_used
  current,    \* current_temperatureInt10
  heater,     \* the level of the heater's pin
  told,       \* what the host has last been told of each value
  moved,      \* history: day and night have changed over since the setpoint was told
  switched    \* history: the reading at which the regulation last switched the
              \* heater, or -1 when a request has come between

settings == <<dayClock, nightClock, dayTemp, nightTemp, nightUsed>>
vars == <<phase, clock, settings, current, heater, told, moved, switched>>

\* One degree in the units of an exact temperature.
Degree == 10240

\* The exact temperature: 10 times the voltage less ten degrees.
Temperature(raw) == 500 * raw - 100 * 1024

\* ToInt10: to the nearest tenth, halves away from 0.
ToInt10(temperature) ==
  IF temperature >= 0 THEN (temperature + 512) \div 1024
  ELSE -((512 - temperature) \div 1024)

InitialTold ==
  [weekday |-> 0, hour |-> 0, minute |-> 0, heater |-> FALSE, dayTemp |-> 210,
   nightTemp |-> 160, current |-> 184, setpoint |-> 160]

\* What the host has read at the start stands for what it has been told.
Init ==
  /\ phase = "clock" /\ clock = Midnight
  /\ dayClock = 70000 /\ nightClock = 3000
  /\ dayTemp = 210 /\ nightTemp = 160 /\ nightUsed = TRUE
  /\ current = 184 /\ heater = FALSE
  /\ told = InitialTold
  /\ moved = TRUE /\ switched = -1

-----------------------------------------------------------------------------

IsInDayTime(time) ==
  IF dayClock > nightClock THEN ~(nightClock <= time /\ time < dayClock)
  ELSE dayClock <= time /\ time < nightClock

UsingDayTime == IsInDayTime(Now(clock)) \/ ~nightUsed

\* An int: the tenths are cut off.
InDegrees(temp) == IF temp >= 0 THEN temp \div 10 ELSE -((-temp) \div 10)

\* GetCurrentTemperatureSetpoint returns an int.
SetpointDegrees == InDegrees(IF UsingDayTime THEN dayTemp ELSE nightTemp)

\* A change of what time of day it is leaves the host with an old setpoint.
NoteMove ==
  IF UsingDayTime' = UsingDayTime THEN UNCHANGED <<moved, switched>>
  ELSE moved' = TRUE /\ switched' = -1

TypeOK ==
  /\ phase \in {"clock", "poll", "tick"}
  /\ clock \in Clocks
  /\ dayClock \in Nat /\ nightClock \in Nat
  /\ dayTemp \in Int /\ nightTemp \in Int /\ nightUsed \in BOOLEAN
  /\ current \in Int /\ heater \in BOOLEAN
  /\ DOMAIN told = DOMAIN InitialTold
  /\ moved \in BOOLEAN
  /\ switched \in {-1} \cup Readings

-----------------------------------------------------------------------------
(* The clock.                                                               *)

\* One round of the loop in UpdateClock.
Second ==
  /\ phase = "clock"
  /\ clock' = AfterSecond(clock)
  /\ told' = [field \in DOMAIN told |->
                IF field \in DOMAIN clock /\ Carries(clock, field)
                THEN clock'[field] ELSE told[field]]
  /\ UNCHANGED <<phase, settings, current, heater>>
  /\ NoteMove

\* set_weekday, set_hour, set_minute and set_second.
SetClock(field, value) ==
  /\ phase = "poll"
  /\ clock' = [clock EXCEPT ![field] = Byte(value)]
  /\ told' = IF field \in DOMAIN told /\ value # clock[field]
             THEN [told EXCEPT ![field] = Byte(value)] ELSE told
  /\ UNCHANGED <<phase, settings, current, heater>>
  /\ NoteMove

-----------------------------------------------------------------------------
(* The heater and the temperatures.                                         *)

SetHeaterState(on) ==
  /\ heater' = on
  /\ told' = IF on # heater THEN [told EXCEPT !.heater = on] ELSE told

RequestHeater(on) ==
  /\ phase = "poll"
  /\ SetHeaterState(on)
  /\ switched' = -1
  /\ UNCHANGED <<phase, clock, settings, current, moved>>

\* set_tempsetpoint: what is used now is set, and told with its tenths.
SetSetpoint(temp) ==
  /\ phase = "poll"
  /\ IF UsingDayTime
     THEN /\ dayTemp' = temp /\ UNCHANGED nightTemp
          /\ told' = [told EXCEPT !.dayTemp = temp, !.setpoint = temp]
     ELSE /\ nightTemp' = temp /\ UNCHANGED dayTemp
          /\ told' = [told EXCEPT !.nightTemp = temp, !.setpoint = temp]
  /\ moved' = FALSE /\ switched' = -1
  /\ UNCHANGED <<phase, clock, dayClock, nightClock, nightUsed, current, heater>>

\* Mutant of SetDayTemp: the setpoint is told at night as well.
SetDayTempAlways(temp) ==
  /\ phase = "poll"
  /\ dayTemp' = temp
  /\ told' = [told EXCEPT !.dayTemp = temp, !.setpoint = temp]
  /\ moved' = FALSE /\ switched' = -1
  /\ UNCHANGED <<phase, clock, dayClock, nightClock, nightTemp, nightUsed, current, heater>>

SetDayTemp(temp) ==
  /\ phase = "poll"
  /\ dayTemp' = temp
  /\ told' = [told EXCEPT !.dayTemp = temp, !.setpoint = IF UsingDayTime THEN temp ELSE @]
  /\ moved' = (moved /\ ~UsingDayTime) /\ switched' = -1
  /\ UNCHANGED <<phase, clock, dayClock, nightClock, nightTemp, nightUsed, current, heater>>

SetNightTemp(temp) ==
  /\ phase = "poll"
  /\ nightTemp' = temp
  /\ told' = [told EXCEPT !.nightTemp = temp, !.setpoint = IF UsingDayTime THEN @ ELSE temp]
  /\ moved' = (moved /\ UsingDayTime) /\ switched' = -1
  /\ UNCHANGED <<phase, clock, dayClock, nightClock, dayTemp, nightUsed, current, heater>>

\* set_dayclock, set_nightclock and set_nighttempused: none tells the setpoint.
SetDayNight ==
  /\ phase = "poll"
  /\ \/ \E time \in Times : dayClock' = 100 * time /\ UNCHANGED <<nightClock, nightUsed>>
     \/ \E time \in Times : nightClock' = 100 * time /\ UNCHANGED <<dayClock, nightUsed>>
     \/ \E used \in BOOLEAN : nightUsed' = used /\ UNCHANGED <<dayClock, nightClock>>
  /\ UNCHANGED <<phase, clock, dayTemp, nightTemp, current, heater, told>>
  /\ NoteMove

\* ReadCurrentTemperature, from /temp/readtemp.
Read(raw) ==
  /\ current' = ToInt10(Temperature(raw))
  /\ told' = IF current' # current THEN [told EXCEPT !.current = current'] ELSE told

ReadTemperature(raw) ==
  /\ phase = "poll"
  /\ Read(raw)
  /\ UNCHANGED <<phase, clock, settings, heater, moved, switched>>

\* Mutant of Regulate: the heater goes on again as soon as it is too cold.
RegulateWithoutBand(raw) ==
  LET on == IF heater THEN ~(10 * Temperature(raw) > (10 * SetpointDegrees + 3) * Degree)
            ELSE Temperature(raw) < SetpointDegrees * Degree
  IN  /\ phase = "tick" /\ phase' = "clock"
      /\ heater' = on
      /\ current' = ToInt10(Temperature(raw))
      /\ told' = [told EXCEPT !.current = IF current' # current THEN current' ELSE @,
                              !.heater = IF on # heater THEN on ELSE @]
      /\ switched' = IF on # heater THEN raw ELSE switched
      /\ UNCHANGED <<clock, settings, moved>>

\* TemperatureRegulation, with a reading of the sensor.
Regulate(raw) ==
  LET high == 10 * Temperature(raw) > (10 * SetpointDegrees + 3) * Degree
      low  == 10 * Temperature(raw) < (10 * SetpointDegrees - 3) * Degree
      on   == IF heater THEN ~high ELSE low
  IN  /\ phase = "tick" /\ phase' = "clock"
      /\ heater' = on
      /\ current' = ToInt10(Temperature(raw))
      /\ told' = [told EXCEPT !.current = IF current' # current THEN current' ELSE @,
                              !.heater = IF on # heater THEN on ELSE @]
      /\ switched' = IF on # heater THEN raw ELSE switched
      /\ UNCHANGED <<clock, settings, moved>>

-----------------------------------------------------------------------------
(* The main loop.                                                           *)

ClockIsCurrent ==
  /\ phase = "clock" /\ phase' = "poll"
  /\ UNCHANGED <<clock, settings, current, heater, told, moved, switched>>

PollEnds ==
  /\ phase = "poll" /\ phase' \in {"tick", "clock"}
  /\ UNCHANGED <<clock, settings, current, heater, told, moved, switched>>

Request ==
  \/ \E field \in DOMAIN clock, value \in ClockFields : SetClock(field, value)
  \/ \E on \in BOOLEAN : RequestHeater(on)
  \/ \E temp \in Settings : SetSetpoint(temp) \/ SetDayTemp(temp) \/ SetNightTemp(temp)
  \/ SetDayNight
  \/ \E raw \in Readings : ReadTemperature(raw)

Next ==
  \/ Second
  \/ ClockIsCurrent
  \/ Request
  \/ PollEnds
  \/ \E raw \in Readings : Regulate(raw)

Spec == Init /\ [][Next]_vars

-----------------------------------------------------------------------------
\* The host is told of every change of what it has seen: of each field of the
\* clock by carries and requests, of the heater, of both temperatures; and of
\* the setpoint, to the degree, until day and night change over, when nobody
\* tells it (clock.cpp:43-84, tempcontrol.cpp:62-69, 103-117, 196-237).
HostIsTold ==
  /\ told.weekday = clock.weekday /\ told.hour = clock.hour /\ told.minute = clock.minute
  /\ told.heater = heater /\ told.current = current
  /\ told.dayTemp = dayTemp /\ told.nightTemp = nightTemp
  /\ ~moved => InDegrees(told.setpoint) = SetpointDegrees

\* The regulation does not flutter: unless a request has come between or day
\* and night have changed over, the temperature has moved by more than 0.6
\* degrees from one switch to the next (tempcontrol.cpp:120-138).
NoFlutter ==
  [][phase = "tick" /\ heater' # heater /\ switched # -1 =>
       \/ 10 * (Temperature(switched') - Temperature(switched)) > 6 * Degree
       \/ 10 * (Temperature(switched) - Temperature(switched')) > 6 * Degree]_vars

=============================================================================
