--------------------------- MODULE SchedulerProps ---------------------------
(* What the scheduler promises: invariants, action properties, liveness. *)
EXTENDS Scheduler

Definitions == Catalogue \cup {EmptyProgram}

TaskStates ==
  {"free", "sleeping", "calling", "deleting", "inserting", "updating",
   "committing", "off", "stopping"}

TaskType ==
  [pc : TaskStates, prog : ProgramIds \cup {NoProgram}, def : Definitions,
   idx : Nat, start : Int, end : Int, left : Nat, sent : BOOLEAN]

RowType == [prog : ProgramIds, def : Definitions, idx : Nat, start : Int]

\* No row of the table is the value that stands for an empty one.
ASSUME RowAssumption == NoRow \notin RowType

PollType ==
  [pc : {"off", "idle", "listing", "asking", "activating"}, minute : Int,
   due : SUBSET ProgramIds, seen : ProgramIds \cup {NoProgram},
   list : [ProgramIds -> Catalogue \cup {Absent}]]

NamesStep(j) ==
  j.pc \in {"free", "stopping"} \/ (j.idx \in Steps(j.def) /\ j.prog \in ProgramIds)

\* Every variable has its type; an activation and a step timer name a program
\* and a step it has; and the poll has a definition for every program it still
\* has to look at.
TypeOK ==
  /\ clock \in 0 .. MaxClock
  /\ link \in BOOLEAN
  /\ programs \in [ProgramIds -> Catalogue \cup {Absent}]
  /\ row \in RowType \cup {NoRow}
  /\ disk \in RowType \cup {NoRow}
  /\ task \in [Tasks -> TaskType]
  /\ \A c \in Tasks : NamesStep(task[c])
  /\ handle \in Timers \cup {NoTimer}
  /\ poll \in PollType
  /\ \A p \in poll.due : poll.list[p] # Absent
  /\ lastPolled \in Int
  /\ phase \in {"down", "starting", "booting", "up", "stopping"}
  /\ asked \in Modes
  /\ polled \in BOOLEAN
  /\ matchedAt \in Int
  /\ raced \in BOOLEAN
  /\ spent \in [drops : Nat, crashes : Nat, edits : Nat, late : Nat]

-----------------------------------------------------------------------------
\* Safety.

Drives(c) == Activating(c) \/ Driving(c)

\* As long as no client or schedule has started a program over another one,
\* at most one coroutine drives the device, and if it is a step timer it is
\* the one that stop_program and the poll would cancel.
OneDriver ==
  ~raced =>
    /\ \A c, e \in Tasks : Drives(c) /\ Drives(e) => c = e
    /\ \A t \in Timers : Driving(t) => handle = t

\* While a step runs its course the three records of it agree: the device was
\* last asked for the step's mode, the row names the step, and a restart would
\* find that row, whatever was cancelled, rolled back or committed by others
\* before.
StepInForce ==
  ~raced =>
    \A t \in Timers : task[t].pc = "sleeping" =>
      /\ asked = task[t].def.mode[task[t].idx]
      /\ row = RowOf(task[t])
      /\ disk = row

\* A step timer only works for the sequence in the row, which it finds at the
\* step before the one it applies: a sequence that was stopped, or whose row
\* is gone, is not driven any more.
RowNamesDriver ==
  ~raced =>
    \A t \in Timers : Driving(t) =>
      /\ row # NoRow
      /\ row.prog = task[t].prog /\ row.start = task[t].start
      /\ row.idx \in {task[t].idx, task[t].idx - 1}

\* No step timer wakes before the minute in which its step is over, however
\* late the sequence was started or resumed; and the row never names a step
\* whose time has not come.  (For clients that do not start in the future.)
NeverEarly ==
  /\ \A t \in Timers : task[t].pc = "sleeping" =>
       task[t].end >= task[t].start + task[t].def.from[task[t].idx + 1]
  /\ ~raced /\ row # NoRow => row.start + row.def.from[row.idx] =< clock

-----------------------------------------------------------------------------
\* What a step may never do.

Resuming == task["boot"].pc = "free" /\ task'["boot"].pc = "calling"

\* A restart resumes the sequence at the step the row names or at a later one,
\* unless the program was edited: it never runs a step a second time.
ResumeKeepsPlace ==
  [][Resuming /\ ~raced /\ task'["boot"].def = row.def
       => task'["boot"].idx >= row.idx]_vars

\* start() never ends with a row that no timer works for: the poll takes such
\* a row for a running program and never starts it again.
RowIsDriven == \E t \in Timers : Driving(t) /\ row = RowOf(task[t])

BootLeavesNoOrphanRow ==
  [][phase' = "up" /\ row' # NoRow /\ ~RowIsDriven'
       => phase \notin {"starting", "booting"}]_vars

-----------------------------------------------------------------------------
\* Liveness.  The event loop runs every coroutine that can run; the poll wakes
\* up; systemd restarts the hub; the link comes back.  Time diverges: endless
\* polls and requests do not fit into one minute.  No client has to act.

Fairness ==
  /\ \A c \in Tasks : WF_vars(TaskStep(c))
  /\ WF_vars(PollStep)
  /\ WF_vars(StartStep)
  /\ WF_vars(Exit)
  /\ WF_vars(LinkReturns)
  /\ SF_vars(Tick)

FairSpec == Spec /\ Fairness

\* The program that the row names exists and has no steps (any more).
RowsProgramEmptied ==
  row # NoRow /\ programs[row.prog] # Absent /\ Steps(programs[row.prog]) = {}


\* The hub comes up whenever it is down, also with a row whose program was
\* deleted, changed or is over, unless the program has lost all its steps.
HubComesUp == phase = "down" ~> phase = "up" \/ RowsProgramEmptied

-----------------------------------------------------------------------------
\* What the documents say.

\* "If startTime matches the current minute and today is in days ... it
\* automatically triggers activate_program": a pass of the poll leaves a
\* minute alone only if that is the minute it has matched, or nothing is due.
ScheduleFires ==
  [][PollSkipsMinute => matchedAt = clock \/ DuePrograms(programs, clock) = {}]_vars

\* "Stop: 2. Delete the active_sequence row": without a row and without an
\* activation in progress nothing drives the device, also when the stop came
\* while a program was being activated.
StopSilences ==
  row = NoRow /\ (\A c \in Tasks : ~Activating(c)) => \A t \in Timers : ~Driving(t)

=============================================================================
