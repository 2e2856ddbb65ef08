--------------------------------- MODULE Clock ---------------------------------
(***************************************************************************)
(* The clock of arduino_demo (clock.cpp) and of acme_ventilator (clock.c): *)
(* four bytes, which requests may set to any value.                        *)
(***************************************************************************)
EXTENDS Integers

CONSTANTS SecondsPerMinute, MinutesPerHour, HoursPerDay, DaysPerWeek  \* 60, 60, 24, 7

Byte(n) == n % 256

Clocks == [weekday : 0 .. 255, hour : 0 .. 255, minute : 0 .. 255, second : 0 .. 255]

Midnight == [weekday |-> 0, hour |-> 0, minute |-> 0, second |-> 0]

\* A field counts up, in a byte, and starts again when it reaches its limit.
Up(field, limit) == IF Byte(field + 1) >= limit THEN 0 ELSE Byte(field + 1)

\* Does a second carry into the field?
Carries(clock, field) ==
  LET second == Byte(clock.second + 1) >= SecondsPerMinute
      minute == second /\ Byte(clock.minute + 1) >= MinutesPerHour
      hour   == minute /\ Byte(clock.hour + 1) >= HoursPerDay
  IN  CASE field = "second" -> TRUE [] field = "minute" -> second
        [] field = "hour" -> minute [] field = "weekday" -> hour

Limit(field) ==
  CASE field = "second" -> SecondsPerMinute [] field = "minute" -> MinutesPerHour
    [] field = "hour" -> HoursPerDay [] field = "weekday" -> DaysPerWeek

AfterSecond(clock) ==
  [field \in DOMAIN clock |->
     IF Carries(clock, field) THEN Up(clock[field], Limit(field)) ELSE clock[field]]

\* Now: the time of the day as hhmmss.
Now(clock) == clock.hour * 10000 + clock.minute * 100 + clock.second

=============================================================================
