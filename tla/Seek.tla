--------------------------------- MODULE Seek ---------------------------------
(***************************************************************************)
(* The loop of activate_program (scheduler/runner.py) that seeks the step  *)
(* a program has reached, and the copy of it in the activate route         *)
(* (api/routes_programs.py), as a fold over the steps.  Module Programs    *)
(* says the same with running totals; the scheduler's model uses that.     *)
(***************************************************************************)
EXTENDS Programs, FiniteSets, SequencesExt

\* What the loop knows before a step: found is 0 while it runs.
Searching(delta) == [i |-> 0, found |-> 0, elapsed |-> delta]

\* Mutant: a step still counts as running in the minute after its last.
LookLate(s, ds) ==
  IF s.found # 0 THEN s
  ELSE [i |-> s.i + 1,
        found |-> IF ds # 0 /\ s.elapsed =< ds THEN s.i + 1 ELSE 0,
        elapsed |-> IF s.elapsed =< ds THEN s.elapsed ELSE s.elapsed - ds]

\* if ds == 0: continue; if elapsed < ds: break; elapsed -= ds
Look(s, ds) ==
  IF s.found # 0 THEN s
  ELSE [i |-> s.i + 1,
        found |-> IF ds # 0 /\ s.elapsed < ds THEN s.i + 1 ELSE 0,
        elapsed |-> IF s.elapsed < ds THEN s.elapsed ELSE s.elapsed - ds]

\* found = 0 at the end: "Fully elapsed".
Sought(durations, delta) == FoldLeft(Look, Searching(delta), durations)

\* The definition that module Programs would keep for these durations.
AsProgram(durations) ==
  [mode |-> [k \in 1 .. Len(durations) |-> Standby],
   from |-> [k \in 1 .. Len(durations) + 1 |->
               FoldLeft(+, 0, SubSeq(durations, 1, k - 1))]]

=============================================================================
