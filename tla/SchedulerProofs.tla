--------------------------- MODULE SchedulerProofs --------------------------
(* Theorems about the scheduler, for all programs, clients and bounds. *)
EXTENDS SchedulerProps, TLAPS

\* What a well-formed definition provides at each of its steps.
LEMMA StepFacts ==
  ASSUME NEW d \in Definitions
  PROVE  /\ IsProgram(d)
         /\ Steps(d) = 1 .. Len(d.mode) /\ Len(d.mode) \in Nat
         /\ \A i \in Steps(d) :
              /\ i \in Nat /\ d.mode[i] \in Modes /\ d.calls[i] \in Nat
              /\ d.from[i] \in Nat /\ d.from[i + 1] \in Nat
              /\ d.from[i] =< d.from[i + 1]
<1>1. IsProgram(d)
  <2>1. CASE d \in Catalogue
    BY <2>1, CatalogueAssumption
  <2>2. CASE d = EmptyProgram
    BY <2>2, CatalogueAssumption DEF EmptyProgram, IsProgram, NoMinute
  <2>3. QED
    BY <2>1, <2>2 DEF Definitions
<1>2. /\ d.mode \in Seq(Modes) /\ d.from \in Seq(Nat) /\ d.calls \in Seq(Nat)
      /\ Len(d.from) = Len(d.mode) + 1 /\ Len(d.calls) = Len(d.mode)
  BY <1>1 DEF IsProgram
<1>3. Steps(d) = 1 .. Len(d.mode) /\ Len(d.mode) \in Nat
  BY <1>2 DEF Steps
<1>4. ASSUME NEW i \in Steps(d)
      PROVE  /\ i \in Nat /\ d.mode[i] \in Modes /\ d.calls[i] \in Nat
             /\ d.from[i] \in Nat /\ d.from[i + 1] \in Nat
             /\ d.from[i] =< d.from[i + 1]
  <2>1. i \in 1 .. Len(d.mode) /\ i \in 1 .. Len(d.calls)
        /\ i \in 1 .. Len(d.from) /\ i + 1 \in 1 .. Len(d.from)
    BY <1>2, <1>3
  <2>2. i \in Nat
    BY <2>1, <1>3
  <2>3. d.mode[i] \in Modes
    BY <2>1, <1>2
  <2>4. d.calls[i] \in Nat
    BY <2>1, <1>2
  <2>5. d.from[i] \in Nat /\ d.from[i + 1] \in Nat
    <3>1. \A k \in 1 .. Len(d.from) : d.from[k] \in Nat
      BY <1>2
    <3>2. QED
      BY <2>1, <3>1, Zenon
  <2>6. d.from[i] =< d.from[i + 1]
    <3>1. \A k, j \in 1 .. Len(d.from) : k =< j => d.from[k] =< d.from[j]
      BY <1>1 DEF IsProgram
    <3>2. i =< i + 1
      BY <2>2
    <3>3. QED
      BY <2>1, <3>1, <3>2, Zenon
  <2>7. QED
    BY <2>2, <2>3, <2>4, <2>5, <2>6
<1>5. QED
  BY <1>1, <1>3, <1>4

-----------------------------------------------------------------------------
\* Lemmas on the tasks.

TaskOK(j) == j \in TaskType /\ NamesStep(j)

LEMMA FreeOK == TaskOK(Free) /\ Free.pc = "free"
BY DEF TaskOK, Free, TaskType, TaskStates, NamesStep, Definitions, NoProgram

\* The coroutine that applies a step of a definition is well formed.
LEMMA ApplyingOK ==
  ASSUME NEW p \in ProgramIds, NEW d \in Definitions, NEW i \in Steps(d),
         NEW s \in Int, NEW e \in Int, link \in BOOLEAN
  PROVE  TaskOK(Applying(p, d, i, s, e)) /\ d.mode[i] \in Modes
<1>1. i \in Nat /\ d.calls[i] \in Nat /\ d.mode[i] \in Modes
  BY StepFacts
<1>2. Reaches(d.mode[i]) \in BOOLEAN
  BY DEF Reaches
<1>3. QED
  BY <1>1, <1>2
  DEF Applying, TaskOK, TaskType, TaskStates, NamesStep

\* A task that names a step still does after a change of its other fields.
LEMMA MovedOK ==
  ASSUME NEW j \in TaskType, NamesStep(j), j.pc \notin {"free", "stopping"},
         NEW pc \in TaskStates
  PROVE  /\ TaskOK([j EXCEPT !.pc = pc])
         /\ \A e \in Int : TaskOK([j EXCEPT !.pc = pc, !.end = e])
         /\ \A b \in BOOLEAN : TaskOK([j EXCEPT !.pc = pc, !.sent = b])
         /\ \A n \in Nat, b \in BOOLEAN : TaskOK([j EXCEPT !.left = n, !.sent = b])
BY DEF TaskOK, TaskType, NamesStep

TasksOK(f) == f \in [Tasks -> TaskType] /\ \A c \in Tasks : NamesStep(f[c])

\* Replacing one task by a well-formed one leaves all of them well formed.
LEMMA UpdateOK ==
  ASSUME NEW f, TasksOK(f), NEW c \in Tasks, NEW j, TaskOK(j)
  PROVE  TasksOK([f EXCEPT ![c] = j])
BY DEF TasksOK, TaskOK

\* So does cancelling the timer that the handle names.
LEMMA CancelOK == TasksOK(task) => TasksOK(AfterCancel)
<1>1. TaskOK(Free)
  BY FreeOK
<1>2. QED
  BY <1>1 DEF TasksOK, TaskOK, AfterCancel

\* The first segment of activate_program starts a well-formed activation.
LEMMA ActivateOK ==
  ASSUME TypeOK, NEW c \in Tasks, NEW STATE p, NEW STATE d, NEW STATE s,
         NEW STATE others,
         p \in ProgramIds, d \in Definitions, s \in Int, TasksOK(others),
         Activate(c, p, d, s, others)
  PROVE  TasksOK(task') /\ asked' \in Modes
<1>1. PICK i \in Steps(d) :
        /\ task' = [others EXCEPT ![c] =
                      Applying(p, d, i, s, clock + Remaining(d, i, Delta(clock, s)))]
        /\ AskMode(d.mode[i])
  BY DEF Activate
<1>2. clock \in Int /\ link \in BOOLEAN /\ asked \in Modes
  BY DEF TypeOK
<1>3. d.from[i + 1] \in Nat /\ d.mode[i] \in Modes
  BY StepFacts
<1>4. clock + Remaining(d, i, Delta(clock, s)) \in Int
  BY <1>2, <1>3 DEF Remaining, Delta
<1>5. TaskOK(Applying(p, d, i, s, clock + Remaining(d, i, Delta(clock, s))))
  BY <1>2, <1>4, ApplyingOK
<1>6. TasksOK(task')
  BY <1>1, <1>5, UpdateOK
<1>7. asked' \in Modes
  BY <1>1, <1>2, <1>3 DEF AskMode
<1>8. QED
  BY <1>6, <1>7

-----------------------------------------------------------------------------
\* Type correctness.

\* The facts of TypeOK about the tasks, in the form of the lemmas above.
LEMMA TypeTasks ==
  TypeOK => /\ TasksOK(task) /\ link \in BOOLEAN /\ clock \in Int
            /\ \A c \in Tasks : task[c] \in TaskType /\ NamesStep(task[c])
BY SchedulerAssumption DEF TypeOK, TasksOK

\* Moving one task on, with nothing else of its record changed.
LEMMA GotoOK ==
  ASSUME TypeOK, NEW c \in Tasks, task[c].pc \notin {"free", "stopping"},
         NEW pc \in TaskStates, Goto(c, pc)
  PROVE  TasksOK(task')
<1>1. TaskOK([task[c] EXCEPT !.pc = pc])
  BY TypeTasks, MovedOK
<1>2. task' = [task EXCEPT ![c] = [task[c] EXCEPT !.pc = pc]]
  BY DEF Goto
<1>3. QED
  BY <1>1, <1>2, TypeTasks, UpdateOK

\* Ending one task.
LEMMA EndsOK ==
  ASSUME TypeOK, NEW c \in Tasks, task' = [task EXCEPT ![c] = Free]
  PROVE  TasksOK(task')
BY FreeOK, TypeTasks, UpdateOK

\* The row that set_active_sequence writes.
LEMMA RowOK ==
  ASSUME TypeOK, NEW c \in Tasks, task[c].pc \notin {"free", "stopping"}
  PROVE  RowOf(task[c]) \in RowType
<1>1. task[c] \in TaskType /\ task[c].prog \in ProgramIds
  BY TypeTasks DEF NamesStep
<1>2. QED
  BY <1>1 DEF RowOf, RowType, TaskType

\* The row left by a caller after a failure.
LEMMA FailureRowOK ==
  ASSUME NEW c, NEW r \in RowType \cup {NoRow}
  PROVE  AfterFailure(c, r) \in RowType \cup {NoRow}
BY DEF AfterFailure

LEMMA PollTypes ==
  /\ PollOff \in PollType /\ PollIdle \in PollType
  /\ PollOff.due = {} /\ PollIdle.due = {}
  /\ [PollIdle EXCEPT !.pc = "activating"] \in PollType
  /\ [PollIdle EXCEPT !.pc = "activating"].due = {}
<1>1. [p \in ProgramIds |-> Absent] \in [ProgramIds -> Catalogue \cup {Absent}]
  OBVIOUS
<1>2. PollOff \in PollType /\ PollOff.due = {}
  BY <1>1 DEF PollOff, PollType, NoMinute, NoProgram
<1>3. PollIdle \in PollType /\ PollIdle.due = {}
  BY <1>2 DEF PollIdle, PollType
<1>4. QED
  BY <1>2, <1>3 DEF PollType

LEMMA ClockFacts ==
  TypeOK => MinuteOfDay(clock) \in Int
BY CatalogueAssumption, SchedulerAssumption DEF TypeOK, MinuteOfDay

LEMMA TypeInit == Init => TypeOK
<1> SUFFICES ASSUME Init PROVE TypeOK
  OBVIOUS
<1>1. task \in [Tasks -> TaskType] /\ \A c \in Tasks : NamesStep(task[c])
  BY FreeOK DEF Init, TaskOK
<1>2. clock \in 0 .. MaxClock
  BY SchedulerAssumption DEF Init
<1>3. programs \in [ProgramIds -> Catalogue \cup {Absent}]
  BY SchedulerAssumption DEF Init
<1>4. asked \in Modes
  BY CatalogueAssumption DEF Init
<1>5. poll \in PollType /\ poll.due = {}
  BY PollTypes DEF Init
<1>6. \A p \in poll.due : poll.list[p] # Absent
  BY <1>5
<1>7. lastPolled \in Int /\ matchedAt \in Int
      /\ spent \in [drops : Nat, crashes : Nat, edits : Nat, late : Nat]
  BY DEF Init, NoMinute
<1>8. link \in BOOLEAN /\ polled \in BOOLEAN /\ raced \in BOOLEAN
  BY DEF Init
<1>9. QED
  BY <1>1, <1>2, <1>3, <1>4, <1>5, <1>6, <1>7, <1>8 DEF Init, TypeOK

\* HTTP requests preserve the types.
LEMMA TypeClient == TypeOK /\ ClientStep => TypeOK'
<1> SUFFICES ASSUME TypeOK, ClientStep PROVE TypeOK'
  OBVIOUS
<1>1. ASSUME NEW r \in Requests, NEW p \in ProgramIds, NEW offset \in StartOffsets,
             ActivateProgram(r, p, offset)
      PROVE  TypeOK'
  <2>1. programs[p] \in Definitions
    BY <1>1 DEF ActivateProgram, TypeOK, Definitions
  <2>2. clock - offset \in Int
    BY SchedulerAssumption DEF TypeOK
  <2>3. TasksOK(task') /\ asked' \in Modes
    BY <1>1, <2>1, <2>2, TypeTasks, ActivateOK DEF ActivateProgram, Tasks
  <2>4. raced' \in BOOLEAN
    BY <1>1 DEF ActivateProgram
  <2>5. QED
    BY <1>1, <2>3, <2>4 DEF ActivateProgram, TypeOK, TasksOK, env, polling
<1>2. ASSUME NEW r \in Requests, StopProgram(r) PROVE TypeOK'
  <2>1. TasksOK(AfterCancel)
    BY TypeTasks, CancelOK
  <2>2. TaskOK([AfterCancel[r] EXCEPT !.pc = "stopping"])
    BY <2>1 DEF TasksOK, TaskOK, TaskType, TaskStates, NamesStep, Tasks
  <2>3. TasksOK(task')
    BY <1>2, <2>1, <2>2, UpdateOK DEF StopProgram, Tasks
  <2>4. raced' \in BOOLEAN
    BY <1>2 DEF StopProgram
  <2>5. QED
    BY <1>2, <2>3, <2>4 DEF StopProgram, TypeOK, TasksOK, env, polling
<1>3. ASSUME NEW p \in ProgramIds, NEW d \in Catalogue \cup {Absent}, EditProgram(p, d)
      PROVE  TypeOK'
  <2>1. programs' \in [ProgramIds -> Catalogue \cup {Absent}]
    BY <1>3 DEF EditProgram, TypeOK
  <2>2. spent' \in [drops : Nat, crashes : Nat, edits : Nat, late : Nat]
    BY <1>3 DEF EditProgram, TypeOK
  <2>3. QED
    BY <1>3, <2>1, <2>2 DEF EditProgram, TypeOK, polling
<1>4. QED
  BY <1>1, <1>2, <1>3 DEF ClientStep

\* So do the steps of the coroutines after the first one.
LEMMA TypeActivation ==
  ASSUME TypeOK, NEW c \in Tasks,
         ActivationDeletes(c) \/ ActivationInserts(c) \/ ActivationArms(c)
           \/ ActivationFails(c)
  PROVE  TypeOK'
<1>1. CASE ActivationDeletes(c)
  <2>1. TasksOK(task')
    BY <1>1, GotoOK DEF ActivationDeletes, AllAnswered, TaskStates
  <2>2. QED
    BY <1>1, <2>1 DEF ActivationDeletes, TypeOK, TasksOK, env, polling
<1>2. CASE ActivationInserts(c)
  <2>1. TasksOK(task')
    BY <1>2, GotoOK DEF ActivationInserts, TaskStates
  <2>2. row' \in RowType
    BY <1>2, RowOK DEF ActivationInserts
  <2>3. QED
    BY <1>2, <2>1, <2>2 DEF ActivationInserts, TypeOK, TasksOK, env, polling
<1>3. CASE ActivationArms(c)
  <2>1. PICK t \in Timers :
          /\ task' = [task EXCEPT ![t] = [task[c] EXCEPT !.pc = "sleeping"], ![c] = Free]
          /\ handle' = t
    BY <1>3 DEF ActivationArms, FreeTimers
  <2>2. TaskOK([task[c] EXCEPT !.pc = "sleeping"])
    BY <1>3, TypeTasks, MovedOK DEF ActivationArms, TaskStates
  <2>3. TasksOK([task EXCEPT ![t] = [task[c] EXCEPT !.pc = "sleeping"]])
    BY <2>2, TypeTasks, UpdateOK DEF Tasks
  <2>4. TasksOK(task')
    BY <2>1, <2>3, FreeOK, UpdateOK
  <2>5. poll' \in PollType /\ \A p \in poll'.due : poll'.list[p] # Absent
    BY <1>3, PollTypes DEF ActivationArms, CallerGoesOn, TypeOK
  <2>6. phase' \in {"down", "starting", "booting", "up", "stopping"}
    BY <1>3 DEF ActivationArms, CallerGoesOn, TypeOK
  <2>7. QED
    BY <1>3, <2>1, <2>4, <2>5, <2>6 DEF ActivationArms, CallerGoesOn, TypeOK, TasksOK, env
<1>4. CASE ActivationFails(c)
  <2>1. TasksOK(task')
    BY <1>4, EndsOK DEF ActivationFails
  <2>2. row' \in RowType \cup {NoRow} /\ disk' \in RowType \cup {NoRow}
    BY <1>4, FailureRowOK DEF ActivationFails, TypeOK
  <2>3. poll' \in PollType /\ \A p \in poll'.due : poll'.list[p] # Absent
    BY <1>4, PollTypes DEF ActivationFails, CallerGoesOn, TypeOK
  <2>4. phase' \in {"down", "starting", "booting", "up", "stopping"}
    BY <1>4 DEF ActivationFails, CallerGoesOn, TypeOK
  <2>5. QED
    BY <1>4, <2>1, <2>2, <2>3, <2>4 DEF ActivationFails, CallerGoesOn, TypeOK, TasksOK, env
<1>5. QED
  BY <1>1, <1>2, <1>3, <1>4

LEMMA TypeShared ==
  ASSUME TypeOK, NEW c \in Tasks, Calls(c) \/ Commits(c) \/ CommitsAndEnds(c)
  PROVE  TypeOK'
<1>1. CASE Calls(c)
  <2>1. task' = [task EXCEPT ![c] = [task[c] EXCEPT !.left = @ - 1, !.sent = link]]
    BY <1>1 DEF Calls
  <2>2. task[c].left - 1 \in Nat
    BY <1>1, TypeTasks DEF Calls, TaskType
  <2>3. TaskOK([task[c] EXCEPT !.left = @ - 1, !.sent = link])
    BY <1>1, <2>2, TypeTasks, MovedOK DEF Calls, TaskStates
  <2>4. TasksOK(task')
    BY <2>1, <2>3, TypeTasks, UpdateOK
  <2>5. QED
    BY <1>1, <2>4 DEF Calls, TypeOK, TasksOK, env, polling
<1>2. CASE Commits(c)
  <2>1. TasksOK(task')
    BY <1>2, GotoOK DEF Commits, TaskStates
  <2>2. QED
    BY <1>2, <2>1 DEF Commits, TypeOK, TasksOK, env, polling
<1>3. CASE CommitsAndEnds(c)
  <2>1. TasksOK(task')
    BY <1>3, EndsOK DEF CommitsAndEnds, Ends
  <2>2. QED
    BY <1>3, <2>1 DEF CommitsAndEnds, Ends, TypeOK, TasksOK, env, polling
<1>4. QED
  BY <1>1, <1>2, <1>3

\* And the step timers.
LEMMA TypeTimer ==
  ASSUME TypeOK, NEW t \in Tasks,
         TimerQuits(t) \/ TimerAdvances(t) \/ TimerUpdates(t) \/ TimerRearms(t)
           \/ TimerSwitchesOff(t) \/ TimerDeletes(t) \/ TimerFails(t)
  PROVE  TypeOK'
<1>1. t \in Timers
  BY DEF TimerQuits, TimerAdvances, TimerUpdates, TimerRearms, TimerSwitchesOff,
         TimerDeletes, TimerFails, Due
<1>2. CASE TimerQuits(t) \/ TimerFails(t)
  <2>1. TasksOK(task')
    BY <1>2, EndsOK DEF TimerQuits, TimerFails, Ends
  <2>2. QED
    BY <1>2, <2>1 DEF TimerQuits, TimerFails, Ends, TypeOK, TasksOK, env, polling
<1>3. CASE TimerAdvances(t)
  <2> DEFINE j == task[t]
  <2>1. j \in TaskType /\ j.prog \in ProgramIds /\ j.idx \in Steps(j.def)
    BY <1>3, TypeTasks DEF TimerAdvances, Due, NamesStep
  <2>2. j.def \in Definitions /\ j.start \in Int /\ j.end \in Int
    BY <2>1 DEF TaskType
  <2>3. j.idx + 1 \in Steps(j.def)
    <3>1. /\ Steps(j.def) = 1 .. Len(j.def.mode) /\ Len(j.def.mode) \in Nat
      BY <2>2, StepFacts
    <3>2. j.idx # Len(j.def.mode)
      BY <1>3 DEF TimerAdvances, IsLastStep
    <3>3. QED
      BY <2>1, <3>1, <3>2
  <2>4. /\ TaskOK(Applying(j.prog, j.def, j.idx + 1, j.start, j.end))
        /\ j.def.mode[j.idx + 1] \in Modes
    BY <2>1, <2>2, <2>3, TypeTasks, ApplyingOK
  <2>5. TasksOK(task')
    BY <1>3, <2>4, TypeTasks, UpdateOK DEF TimerAdvances
  <2>6. asked' \in Modes
    BY <1>3, <2>4 DEF TimerAdvances, AskMode, TypeOK
  <2>7. QED
    BY <1>3, <2>5, <2>6 DEF TimerAdvances, TypeOK, TasksOK, env, polling
<1>4. CASE TimerUpdates(t)
  <2>1. TasksOK(task')
    BY <1>4, GotoOK DEF TimerUpdates, AllAnswered, TaskStates
  <2>2. row' \in RowType \cup {NoRow}
    <3>1. task[t].idx \in Nat
      BY TypeTasks DEF TaskType
    <3>2. QED
      BY <1>4, <3>1 DEF TimerUpdates, TypeOK, RowType
  <2>3. QED
    BY <1>4, <2>1, <2>2 DEF TimerUpdates, TypeOK, TasksOK, env, polling
<1>5. CASE TimerRearms(t)
  <2> DEFINE e == clock + Duration(task[t].def, task[t].idx)
  <2>1. task[t] \in TaskType /\ task[t].idx \in Steps(task[t].def)
    BY <1>5, TypeTasks DEF TimerRearms, NamesStep
  <2>2. e \in Int
    <3>1. task[t].def \in Definitions
      BY <2>1 DEF TaskType
    <3>2. /\ task[t].def.from[task[t].idx] \in Nat
          /\ task[t].def.from[task[t].idx + 1] \in Nat
      BY <2>1, <3>1, StepFacts
    <3>3. QED
      BY <3>2, TypeTasks DEF Duration
  <2>3. TaskOK([task[t] EXCEPT !.pc = "sleeping", !.end = e])
    BY <1>5, <2>2, TypeTasks, MovedOK DEF TimerRearms, TaskStates
  <2>4. task' = [task EXCEPT ![t] = [task[t] EXCEPT !.pc = "sleeping", !.end = e]]
    BY <1>5 DEF TimerRearms
  <2>5. TasksOK(task')
    BY <2>3, <2>4, TypeTasks, UpdateOK
  <2>6. QED
    BY <1>1, <1>5, <2>5 DEF TimerRearms, TypeOK, TasksOK, env, polling
<1>6. CASE TimerSwitchesOff(t)
  <2>1. task' = [task EXCEPT ![t] = [task[t] EXCEPT !.pc = "off", !.sent = Reaches(Standby)]]
    BY <1>6 DEF TimerSwitchesOff
  <2>2. Reaches(Standby) \in BOOLEAN
    BY TypeTasks DEF Reaches
  <2>3. TaskOK([task[t] EXCEPT !.pc = "off", !.sent = Reaches(Standby)])
    BY <1>6, <2>2, TypeTasks, MovedOK DEF TimerSwitchesOff, Due, TaskStates
  <2>4. TasksOK(task')
    BY <2>1, <2>3, TypeTasks, UpdateOK
  <2>5. asked' \in Modes
    BY <1>6, CatalogueAssumption DEF TimerSwitchesOff, AskMode, TypeOK
  <2>6. QED
    BY <1>6, <2>4, <2>5 DEF TimerSwitchesOff, TypeOK, TasksOK, env, polling
<1>7. CASE TimerDeletes(t)
  <2>1. TasksOK(task')
    BY <1>7, GotoOK DEF TimerDeletes, Due, TaskStates
  <2>2. QED
    BY <1>7, <2>1 DEF TimerDeletes, TypeOK, TasksOK, env, polling
<1>8. QED
  BY <1>2, <1>3, <1>4, <1>5, <1>6, <1>7

\* And the poll.
LEMMA TypePoll == TypeOK /\ PollStep => TypeOK'
<1> SUFFICES ASSUME TypeOK, PollStep PROVE TypeOK'
  OBVIOUS
<1>1. CASE PollSkipsMinute
  BY <1>1 DEF PollSkipsMinute, TypeOK, env
<1>2. CASE PollWakes
  <2> DEFINE due == DuePrograms(programs, clock)
             woken == [pc |-> "listing", minute |-> MinuteOfDay(clock),
                       due |-> due, seen |-> NoProgram, list |-> programs]
  <2>1. due \in SUBSET ProgramIds /\ \A p \in due : programs[p] # Absent
    BY DEF DuePrograms
  <2>2. woken \in PollType /\ woken.due = due /\ woken.list = programs
    BY <2>1, ClockFacts DEF PollType, TypeOK, NoProgram
  <2>3. poll' = poll \/ poll' = woken
    BY <1>2 DEF PollWakes
  <2>4. poll' \in PollType /\ \A p \in poll'.due : poll'.list[p] # Absent
    BY <2>1, <2>2, <2>3, Zenon DEF TypeOK
  <2>5. QED
    BY <1>2, <2>4 DEF PollWakes, TypeOK, env
<1>3. CASE PollAsks
  <2>1. ProgramOf(row) \in ProgramIds \cup {NoProgram}
    BY DEF ProgramOf, TypeOK, RowType
  <2>2. poll' \in PollType /\ \A p \in poll'.due : poll'.list[p] # Absent
    BY <1>3, <2>1 DEF PollAsks, TypeOK, PollType
  <2>3. QED
    BY <1>3, <2>2 DEF PollAsks, TypeOK, env
<1>4. ASSUME NEW p \in ProgramIds, PollSkips(p) PROVE TypeOK'
  <2>1. ProgramOf(row) \in ProgramIds \cup {NoProgram}
    BY DEF ProgramOf, TypeOK, RowType
  <2>2. poll' \in PollType /\ \A q \in poll'.due : poll'.list[q] # Absent
    <3>1. CASE poll' = PollIdle
      BY <3>1, PollTypes
    <3>2. CASE poll' = [poll EXCEPT !.due = @ \ {p}, !.seen = ProgramOf(row)]
      BY <3>2, <2>1 DEF TypeOK, PollType
    <3>3. QED
      BY <1>4, <3>1, <3>2 DEF PollSkips
  <2>3. QED
    BY <1>4, <2>2 DEF PollSkips, TypeOK, env
<1>5. ASSUME NEW p \in ProgramIds, PollActivates(p) PROVE TypeOK'
  <2> DEFINE d == poll.list[p]
  <2>1. d \in Definitions
    BY <1>5 DEF PollActivates, PollCandidate, TypeOK, PollType, Definitions
  <2>2. TasksOK(AfterCancel)
    BY TypeTasks, CancelOK
  <2>3. CASE Activate("poll", p, d, clock, AfterCancel)
             /\ poll' = [PollIdle EXCEPT !.pc = "activating"]
    <3>1. TasksOK(task') /\ asked' \in Modes
      BY <2>1, <2>2, <2>3, TypeTasks, ActivateOK DEF Tasks
    <3>2. poll' \in PollType /\ \A q \in poll'.due : poll'.list[q] # Absent
      BY <2>3, PollTypes
    <3>3. lastPolled' \in Int /\ matchedAt' \in Int /\ raced' \in BOOLEAN
      BY <1>5, TypeTasks DEF PollActivates, TypeOK, PollType
    <3>4. QED
      BY <1>5, <3>1, <3>2, <3>3 DEF PollActivates, TypeOK, TasksOK, env
  <2>4. CASE task' = AfterCancel /\ poll' = PollIdle /\ UNCHANGED asked
    <3>1. TasksOK(task')
      BY <2>2, <2>4
    <3>2. poll' \in PollType /\ \A q \in poll'.due : poll'.list[q] # Absent
      BY <2>4, PollTypes
    <3>3. lastPolled' \in Int /\ matchedAt' \in Int /\ raced' \in BOOLEAN
      BY <1>5, TypeTasks DEF PollActivates, TypeOK, PollType
    <3>4. QED
      BY <1>5, <2>4, <3>1, <3>2, <3>3 DEF PollActivates, TypeOK, TasksOK, env
  <2>5. QED
    BY <1>5, <2>3, <2>4 DEF PollActivates
<1>6. QED
  BY <1>1, <1>2, <1>3, <1>4, <1>5 DEF PollStep

\* And the end of the process, its start, and the environment.
LEMMA TypeProcess ==
  ASSUME TypeOK,
         \/ StartStep \/ OtherCommit \/ Crash \/ Shutdown \/ Exit
         \/ LinkDrops \/ LinkReturns \/ Tick
  PROVE  TypeOK'
<1>1. [c \in Tasks |-> Free] \in [Tasks -> TaskType]
      /\ \A c \in Tasks : NamesStep(Free)
  BY FreeOK DEF TaskOK
<1>2. ASSUME ProcessEnds, spent' \in [drops : Nat, crashes : Nat, edits : Nat, late : Nat]
      PROVE  TypeOK'
  <2>1. poll' \in PollType /\ poll'.due = {}
    BY <1>2, PollTypes DEF ProcessEnds
  <2>2. TasksOK(task')
    BY <1>1, <1>2 DEF ProcessEnds, TasksOK
  <2>3. lastPolled' \in Int
    BY <1>2 DEF ProcessEnds, NoMinute
  <2>4. \A p \in poll'.due : poll'.list[p] # Absent
    BY <2>1
  <2>5. QED
    BY <1>2, <2>1, <2>2, <2>3, <2>4 DEF ProcessEnds, TypeOK, TasksOK, env
<1>3. CASE Crash \/ Exit \/ StartRaises
  BY <1>2, <1>3 DEF Crash, Exit, StartRaises, TypeOK
<1>4. CASE Shutdown
  <2>1. TasksOK(task')
    BY <1>4, TypeTasks, CancelOK, FreeOK, UpdateOK DEF Shutdown, Tasks
  <2>2. poll' \in PollType /\ \A p \in poll'.due : poll'.list[p] # Absent
    BY <1>4, PollTypes DEF Shutdown
  <2>3. spent' \in [drops : Nat, crashes : Nat, edits : Nat, late : Nat]
    BY <1>4 DEF Shutdown, TypeOK
  <2>4. QED
    BY <1>4, <2>1, <2>2, <2>3 DEF Shutdown, TypeOK, TasksOK, env
<1>5. CASE Boot
  BY <1>5 DEF Boot, TypeOK, env, polling
<1>6. CASE StartsClean
  <2>1. poll' \in PollType /\ \A p \in poll'.due : poll'.list[p] # Absent
    BY <1>6, PollTypes DEF StartsClean
  <2>2. QED
    BY <1>6, <2>1 DEF StartsClean, TypeOK, env
<1>7. CASE Resume
  <2>1. row \in RowType /\ RowsProgram \in Definitions
    BY <1>7 DEF Resume, TypeOK, RowsProgram, RowType, Definitions
  <2>2. row.prog \in ProgramIds /\ row.start \in Int
    BY <2>1 DEF RowType
  <2>3. TasksOK(task') /\ asked' \in Modes
    BY <1>7, <2>1, <2>2, TypeTasks, ActivateOK DEF Resume, Tasks
  <2>4. QED
    BY <1>7, <2>3 DEF Resume, TypeOK, TasksOK, env, polling
<1>8. CASE OtherCommit
  BY <1>8 DEF OtherCommit, TypeOK, env, polling
<1>9. CASE LinkDrops
  <2>1. spent' \in [drops : Nat, crashes : Nat, edits : Nat, late : Nat]
    BY <1>9 DEF LinkDrops, TypeOK
  <2>2. QED
    BY <1>9, <2>1 DEF LinkDrops, TypeOK, polling
<1>10. CASE LinkReturns
  BY <1>10 DEF LinkReturns, TypeOK, polling
<1>11. CASE Tick
  <2>1. clock' \in 0 .. MaxClock
    BY <1>11, SchedulerAssumption DEF Tick, TypeOK
  <2>2. spent' \in [drops : Nat, crashes : Nat, edits : Nat, late : Nat]
    BY <1>11 DEF Tick, TypeOK
  <2>3. QED
    BY <1>11, <2>1, <2>2 DEF Tick, TypeOK
<1>12. QED
  BY <1>3, <1>4, <1>5, <1>6, <1>7, <1>8, <1>9, <1>10, <1>11 DEF StartStep

LEMMA TypeStep == TypeOK /\ [Next]_vars => TypeOK'
<1> SUFFICES ASSUME TypeOK, [Next]_vars PROVE TypeOK'
  OBVIOUS
<1>1. CASE ClientStep
  BY <1>1, TypeClient
<1>2. ASSUME NEW c \in Tasks, TaskStep(c) PROVE TypeOK'
  BY <1>2, TypeActivation, TypeShared, TypeTimer DEF TaskStep
<1>3. CASE PollStep
  BY <1>3, TypePoll
<1>4. CASE \/ StartStep \/ OtherCommit \/ Crash \/ Shutdown \/ Exit
           \/ LinkDrops \/ LinkReturns \/ Tick
  BY <1>4, TypeProcess
<1>5. CASE UNCHANGED vars
  BY <1>5 DEF vars, env, polling, TypeOK
<1>6. QED
  BY <1>1, <1>2, <1>3, <1>4, <1>5 DEF Next

\* Whatever programs, clients, schedules, faults and bounds there are, every
\* variable of the scheduler keeps its type, an activation and a step timer name
\* a step that their program has, and the poll has a definition for every program
\* that it still has to look at.
THEOREM TypeCorrect == Spec => []TypeOK
BY TypeInit, TypeStep, PTL DEF Spec

=============================================================================
