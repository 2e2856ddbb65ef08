------------------------------ MODULE Ventilator -------------------------------
(***************************************************************************)
(* acme_ventilator: a loop that keeps the clock, answers requests and once *)
(* a second decides whether to ventilate, by the mode and the time of the  *)
(* day or because it is critically hot outside (ventilator.c,              *)
(* temperature.c, main.c).  The display, which is drawn after a decision   *)
(* and on request, is left out.                                            *)
(***************************************************************************)
EXTENDS Clock

CONSTANTS
  Readings,    \* what analogRead may return for the sensor
  Criticals,   \* the critical temperatures that requests set, in degrees
  Modes,       \* the modes that requests set; 0 to 4 have a meaning
  ClockFields  \* the values that requests set fields of the clock to

VARIABLES
  phase,        \* where the main loop is
  clock,
  raw,          \* the reading of the sensor outside
  critical,     \* s_setpoint_critical
  mode,         \* s_mode
  ventilating,  \* s_ventilating
  pin,          \* the level of the ventilator's pin
  alarms,       \* s_alarms: is the critical one set?
  changed       \* history: the mode or the clock has changed since the last tick

timeVars == <<clock, raw, changed>>
fanVars == <<ventilating, pin, alarms>>
vars == <<phase, timeVars, critical, mode, fanVars>>

\* The temperature outside, (raw / 1053) * 100 - 50 degrees, is critical.
Critical == raw \in {reading \in Readings : 100 * reading > (critical + 50) * 1053}

TypeOK ==
  /\ phase \in {"clock", "poll"}
  /\ clock \in Clocks
  /\ raw \in Readings /\ critical \in Int /\ mode \in Int
  /\ ventilating \in BOOLEAN /\ pin \in BOOLEAN /\ alarms \in BOOLEAN
  /\ changed \in BOOLEAN

\* ventilator_setup finds s_ventilating set already and leaves the pin high.
Init ==
  /\ phase = "clock" /\ clock = Midnight
  /\ raw \in Readings /\ critical = 20 /\ mode = 1
  /\ ventilating = TRUE /\ pin = TRUE /\ alarms = FALSE
  /\ changed = TRUE

-----------------------------------------------------------------------------

\* Mutant of VentilatingSet: the pin follows the old value.
VentilatingSetLate(on) ==
  /\ ventilating' = on
  /\ pin' = IF on # ventilating THEN ventilating ELSE pin

VentilatingSet(on) ==
  /\ ventilating' = on
  /\ pin' = IF on # ventilating THEN on ELSE pin

Wanted(on) ==
  \/ mode = 0 /\ ~on
  \/ mode = 1 /\ on
  \/ mode = 2 /\ on = (clock.hour < 7 \/ clock.hour >= 23)
  \/ mode = 3 /\ on = (clock.minute < 15)
  \/ mode = 4 /\ on = (clock.weekday < 5)

\* Mutant of SecondTick: the mode decides before the temperature does.
SecondTickByMode ==
  /\ phase = "poll" /\ phase' = "clock"
  /\ alarms' = Critical
  /\ \/ mode \in 0 .. 4 /\ \E on \in BOOLEAN : Wanted(on) /\ VentilatingSet(on)
     \/ mode \notin 0 .. 4 /\ Critical /\ VentilatingSet(TRUE)
     \/ mode \notin 0 .. 4 /\ ~Critical /\ UNCHANGED <<ventilating, pin>>
  /\ changed' = FALSE
  /\ UNCHANGED <<clock, raw, critical, mode>>

\* An unknown mode leaves the ventilator as it is.
SecondTick ==
  /\ phase = "poll" /\ phase' = "clock"
  /\ alarms' = Critical
  /\ \/ Critical /\ VentilatingSet(TRUE)
     \/ ~Critical /\ \E on \in BOOLEAN : Wanted(on) /\ VentilatingSet(on)
     \/ ~Critical /\ mode \notin 0 .. 4 /\ UNCHANGED <<ventilating, pin>>
  /\ changed' = FALSE
  /\ UNCHANGED <<clock, raw, critical, mode>>

-----------------------------------------------------------------------------
(* The clock, the outside and the requests.                                 *)

Second ==
  /\ phase = "clock"
  /\ clock' = AfterSecond(clock)
  /\ changed' = TRUE
  /\ UNCHANGED <<phase, raw, critical, mode, fanVars>>

ClockIsCurrent ==
  /\ phase = "clock" /\ phase' = "poll"
  /\ UNCHANGED <<timeVars, critical, mode, fanVars>>

\* The second of the loop's own timer may not have passed.
PollEnds ==
  /\ phase = "poll" /\ phase' = "clock"
  /\ UNCHANGED <<timeVars, critical, mode, fanVars>>

SetClock(field, value) ==
  /\ phase = "poll"
  /\ clock' = [clock EXCEPT ![field] = Byte(value)]
  /\ changed' = TRUE
  /\ UNCHANGED <<phase, raw, critical, mode, fanVars>>

SetMode(value) ==
  /\ phase = "poll"
  /\ mode' = value
  /\ changed' = TRUE
  /\ UNCHANGED <<phase, clock, raw, critical, fanVars>>

SetCritical(degrees) ==
  /\ phase = "poll"
  /\ critical' = degrees
  /\ changed' = TRUE
  /\ UNCHANGED <<phase, clock, raw, mode, fanVars>>

Weather ==
  /\ raw' \in Readings
  /\ changed' = TRUE
  /\ UNCHANGED <<phase, clock, critical, mode, fanVars>>

Request ==
  \/ \E field \in DOMAIN clock, value \in ClockFields : SetClock(field, value)
  \/ \E value \in Modes : SetMode(value)
  \/ \E degrees \in Criticals : SetCritical(degrees)

Next ==
  Second \/ ClockIsCurrent \/ PollEnds \/ SecondTick \/ Request \/ Weather

Spec == Init /\ [][Next]_vars

\* The loop goes round, and comes to a tick again and again as time passes.
FairSpec ==
  Spec /\ WF_vars(ClockIsCurrent) /\ SF_vars(SecondTick)

-----------------------------------------------------------------------------
\* The alarm, the ventilator and its pin agree at all times; as long as
\* nothing has changed since the tick that set them, they are what the
\* temperature, the mode and the time of the day ask for
\* (ventilator.c:27-87, 105-122).
FanIsRight ==
  /\ alarms => ventilating
  /\ pin = ventilating
  /\ ~changed => /\ alarms = Critical
                 /\ alarms \/ mode \notin 0 .. 4 \/ Wanted(ventilating)

\* Heat that lasts is vented, with the alarm on, whatever the mode and whatever
\* requests come (ventilator.c:35-39, main.c:54-65).
HeatIsVented == <>[]Critical => <>[](ventilating /\ alarms)

=============================================================================
