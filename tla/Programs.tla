------------------------------ MODULE Programs ------------------------------
(***************************************************************************)
(* Biorhythm programs and the arithmetic the scheduler does on them.       *)
(*                                                                         *)
(* A program is a sequence of steps, each with a mode and a duration, and  *)
(* optionally a start time (HH:MM) with the weekdays on which it starts by *)
(* itself.  Durations are kept as running totals: step i of program d lasts *)
(* from minute d.from[i] to minute d.from[i + 1] of the program, so its    *)
(* "durationMinutes" is d.from[i + 1] - d.from[i].  The calls a step makes *)
(* after set_mode (set_temperature, set_fan_speed when the step gives      *)
(* them, then set_runtime) are only counted: d.calls[i].                   *)
(***************************************************************************)
EXTENDS Integers, Sequences

CONSTANTS
  Modes,       \* operating modes a step can name
  Catalogue,   \* definitions that a program may have
  DayLen,      \* bound: minutes in a day
  WeekLen      \* bound: days in a week

Standby == "standby"

\* startTime of a program that has no schedule.
NoMinute == -1

\* A definition is well formed when its totals start at 0 and never decrease
\* (StepRequest.durationMinutes >= 0) and every step has as many entries.
IsProgram(d) ==
  /\ DOMAIN d = {"mode", "from", "calls", "at", "days"}
  /\ d.mode \in Seq(Modes)
  /\ d.from \in Seq(Nat)
  /\ d.calls \in Seq(Nat)
  /\ Len(d.from) = Len(d.mode) + 1
  /\ Len(d.calls) = Len(d.mode)
  /\ d.from[1] = 0
  /\ \A i, j \in 1 .. Len(d.from) : i =< j => d.from[i] =< d.from[j]
  /\ d.at \in (0 .. DayLen - 1) \cup {NoMinute}
  /\ d.days \in SUBSET (0 .. WeekLen - 1)

ASSUME CatalogueAssumption ==
  /\ Standby \in Modes
  /\ DayLen \in Nat \ {0}
  /\ WeekLen \in Nat \ {0}
  /\ \A d \in Catalogue : IsProgram(d)

Steps(d) == DOMAIN d.mode

Duration(d, i) == d.from[i + 1] - d.from[i]

-----------------------------------------------------------------------------
\* Mutant: every activation starts at the first step.
NoDelta(now, start) == 0

\* Minutes since the nominal start; a start in the future counts as zero.
Delta(now, start) == IF now > start THEN now - start ELSE 0

\* Step i is the one running x minutes into the program.  A step of duration
\* zero contains no minute, so the search passes over it.
IsStepAt(d, i, x) == i \in Steps(d) /\ d.from[i] =< x /\ x < d.from[i + 1]

\* No step is running: the program has no steps, or has fully elapsed.
NothingAt(d, x) == \A i \in Steps(d) : ~IsStepAt(d, i, x)

\* Mutant: the sleep is one minute short.
RemainingLess(d, i, x) == d.from[i + 1] - x - 1

\* Minutes left of step i, x minutes into the program.
Remaining(d, i, x) == d.from[i + 1] - x

-----------------------------------------------------------------------------
MinuteOfDay(now) == now % DayLen

Weekday(now) == (now \div DayLen) % WeekLen

\* The schedule of d names this minute of this weekday.
IsScheduled(d, now) == d.at = MinuteOfDay(now) /\ Weekday(now) \in d.days

=============================================================================
