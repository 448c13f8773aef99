----------------------------- MODULE MCScheduler ----------------------------
(* Small instances of the scheduler: programs, modes and bounds. *)
EXTENDS SchedulerProps, TLC

CONSTANTS t1, t2, t3, r1, r2

Program(modes, totals, at, days) ==
  [mode |-> modes, from |-> totals, calls |-> [i \in 1 .. Len(modes) |-> 1],
   at |-> at, days |-> days]

\* Two steps of one minute; a step of no duration between two others; one step
\* of two minutes that starts by itself in minute 1 of every day; one that
\* does so every day of a two-day week; two steps that start in minute 1; none
\* at all; a second step whose mode has no button.
TwoSteps == Program(<<"heat", "cool">>, <<0, 1, 2>>, NoMinute, {})
WithZero == Program(<<"heat", "dry", "cool">>, <<0, 1, 1, 2>>, NoMinute, {})
Scheduled == Program(<<"dry">>, <<0, 2>>, 1, {0})
Daily == Program(<<"dry">>, <<0, 1>>, 0, {0, 1})
Nightly == Program(<<"heat", "cool">>, <<0, 1, 2>>, 1, {0})
NoSteps == Program(<<>>, <<0>>, NoMinute, {})
Waiting == Program(<<"heat", "wait">>, <<0, 1, 2>>, NoMinute, {})

MCModes == {"standby", "heat", "cool", "dry", "wait"}
MCUnsupported == {"wait"}

CatPair == {TwoSteps, Scheduled}
LibPair == {<<TwoSteps, Scheduled>>}

CatZero == {WithZero, TwoSteps, Scheduled}
LibZero == {<<WithZero, Scheduled>>}

CatDaily == {Daily}
LibDaily == {<<Daily>>}

CatNightly == {Nightly}
LibNightly == {<<Nightly>>}

CatRaces == {TwoSteps, Scheduled, NoSteps, Waiting}

CatEmptied == {Nightly, NoSteps}
LibEmptied == {<<Nightly>>}

One == {1}
Two == {1, 2}
Requests1 == {r1}
Requests2 == {r1, r2}
Timers1 == {t1}
Timers2 == {t1, t2}
Timers3 == {t1, t2, t3}
NowOrEarlier == {0, 1}
Now == {0}

Interchangeable == Permutations(Timers2) \cup Permutations(Requests2)

=============================================================================
