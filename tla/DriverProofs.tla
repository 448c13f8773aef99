---------------------------- MODULE DriverProofs ----------------------------
(***************************************************************************)
(* The coroutine that drives the device: it is the only one, the rows and  *)
(* the device agree with it, and it is never early.                        *)
(*                                                                         *)
(* OneDriver is not inductive alone: Commits would turn a request that is  *)
(* "updating" into an activation, and Resume would start one beside a      *)
(* running timer.  Kinds and Quiet say that neither state is reached.      *)
(***************************************************************************)
EXTENDS SchedulerProofs

ActivatingStates == {"calling", "deleting", "inserting", "committing"}
DrivingStates == {"sleeping", "calling", "updating", "committing", "off"}

\* The states of activate_program and stop_program, and those of _step_timer.
Kinds ==
  \A c \in Tasks :
    task[c].pc \in IF c \in Timers THEN DrivingStates \cup {"free", "deleting"}
                                   ELSE ActivatingStates \cup {"free", "stopping"}

\* Nothing of the previous process is left when the hub starts.
Quiet ==
  phase \in {"down", "starting"} =>
    /\ \A c \in Tasks : task[c].pc = "free"
    /\ poll.pc = "off"

Inv == TypeOK /\ Kinds /\ Quiet /\ OneDriver

LEMMA NotTimers ==
  /\ \A r \in Requests : r \in Tasks /\ r \notin Timers /\ r \notin {"poll", "boot"}
  /\ "poll" \in Tasks /\ "poll" \notin Timers
  /\ "boot" \in Tasks /\ "boot" \notin Timers
  /\ NoTimer \notin Tasks /\ Timers \subseteq Tasks
BY SchedulerAssumption DEF Tasks

\* Whether a coroutine drives the device depends on its state alone.
LEMMA DrivesBy ==
  /\ \A c : Activating(c) <=> c \notin Timers /\ task[c].pc \in ActivatingStates
  /\ \A c : Driving(c) <=> c \in Timers /\ task[c].pc \in DrivingStates
  /\ \A c : Activating(c)' <=> c \notin Timers /\ task'[c].pc \in ActivatingStates
  /\ \A c : Driving(c)' <=> c \in Timers /\ task'[c].pc \in DrivingStates
BY DEF Activating, Driving, ActivatingStates, DrivingStates

LEMMA InitInv == Init => Inv
<1> SUFFICES ASSUME Init PROVE Inv
  OBVIOUS
<1>1. \A c \in Tasks : task[c].pc = "free"
  BY FreeOK DEF Init
<1>2. OneDriver
  BY <1>1, NotTimers, DrivesBy DEF OneDriver, Drives, ActivatingStates, DrivingStates
<1>3. Kinds
  BY <1>1 DEF Kinds
<1>4. Quiet
  BY <1>1 DEF Init, Quiet, PollOff
<1>5. QED
  BY <1>2, <1>3, <1>4, TypeInit DEF Inv

-----------------------------------------------------------------------------
\* A coroutine moves on: it drives the device only if it did so before, and the
\* handle stays, or moves to this timer, or is given up by this timer.
LEMMA MovesOn ==
  ASSUME Inv, NEW c \in Tasks, NEW STATE j, task' = [task EXCEPT ![c] = j],
         task[c].pc # "free", raced' = raced, phase' = phase \/ phase' = "up",
         \/ j.pc = "free"
         \/ c \in Timers /\ j.pc = "deleting"
         \/ c \in Timers /\ {j.pc, task[c].pc} \subseteq DrivingStates
         \/ c \notin Timers /\ {j.pc, task[c].pc} \subseteq ActivatingStates,
         \/ handle' = handle
         \/ handle' = c /\ Driving(c)
         \/ handle = c /\ j.pc = "free"
  PROVE  Kinds' /\ Quiet' /\ OneDriver'
<1>1. /\ task'[c] = j
      /\ \A e \in Tasks \ {c} : task'[e] = task[e]
  BY DEF Inv, TypeOK
<1>2. Kinds'
  BY <1>1 DEF Inv, Kinds
<1>3. Quiet'
  BY DEF Inv, Quiet
<1>4. ASSUME ~raced PROVE OneDriver'
  <2>1. /\ \A a, e \in Tasks : Drives(a) /\ Drives(e) => a = e
        /\ \A t \in Timers : Driving(t) => handle = t
    BY <1>4 DEF Inv, OneDriver
  <2>2. ~ (j.pc = "free" /\ (j.pc \in DrivingStates \/ j.pc \in ActivatingStates))
        /\ "deleting" \notin DrivingStates
    BY DEF DrivingStates, ActivatingStates
  <2>3. \A e \in Tasks : Driving(e)' => Driving(e)
    BY <1>1, <2>2, DrivesBy
  <2>4. \A e \in Tasks : Activating(e)' => Activating(e)
    BY <1>1, <2>2, DrivesBy
  <2>5. \A e \in Tasks : Drives(e)' => Drives(e)
    BY <2>3, <2>4 DEF Drives
  <2>6. ASSUME NEW t \in Timers, Driving(t)' PROVE handle' = t
    <3>1. Driving(t) /\ t \in Tasks /\ handle = t
      BY <2>1, <2>3, <2>6, NotTimers
    <3>2. CASE handle' = c /\ Driving(c)
      BY <2>1, <3>1, <3>2 DEF Drives
    <3>3. CASE handle = c /\ j.pc = "free"
      BY <1>1, <2>2, <2>6, <3>1, <3>3, DrivesBy
    <3>4. QED
      BY <3>1, <3>2, <3>3
  <2>7. QED
    BY <2>1, <2>5, <2>6 DEF OneDriver
<1>5. ASSUME raced PROVE OneDriver'
  BY <1>5 DEF OneDriver
<1>6. QED
  BY <1>2, <1>3, <1>4, <1>5

\* The same for a coroutine that only changes its state.
LEMMA GoesOn ==
  ASSUME Inv, NEW c \in Tasks, NEW pc, Goto(c, pc), task[c].pc # "free",
         raced' = raced, phase' = phase, handle' = handle,
         \/ c \in Timers /\ pc = "deleting"
         \/ c \in Timers /\ {pc, task[c].pc} \subseteq DrivingStates
         \/ c \notin Timers /\ {pc, task[c].pc} \subseteq ActivatingStates
  PROVE  Kinds' /\ Quiet' /\ OneDriver'
<1> DEFINE j == [task[c] EXCEPT !.pc = pc]
<1>1. task' = [task EXCEPT ![c] = j]
  BY DEF Goto
<1>2. j.pc = pc
  BY DEF Inv, TypeOK, TaskType
<1> HIDE DEF j
<1>3. QED
  BY <1>1, <1>2, MovesOn

\* And for one that ends.
LEMMA Ending ==
  ASSUME Inv, NEW c \in Tasks, Ends(c), task[c].pc # "free", raced' = raced,
         phase' = phase
  PROVE  Kinds' /\ Quiet' /\ OneDriver'
BY FreeOK, MovesOn DEF Ends

-----------------------------------------------------------------------------
\* One lemma per group of actions.

LEMMA SharedInv ==
  ASSUME Inv, NEW c \in Tasks, Calls(c) \/ Commits(c) \/ CommitsAndEnds(c)
  PROVE  Kinds' /\ Quiet' /\ OneDriver'
<1>1. Kinds /\ task \in [Tasks -> TaskType]
  BY DEF Inv, TypeOK
<1>2. CASE Calls(c)
  <2> DEFINE j == [task[c] EXCEPT !.left = @ - 1, !.sent = link]
  <2>1. task' = [task EXCEPT ![c] = j] /\ handle' = handle /\ raced' = raced
        /\ phase' = phase
    BY <1>2 DEF Calls
  <2>2. task[c].pc = "calling" /\ j.pc = "calling"
    BY <1>1, <1>2 DEF Calls, TaskType
  <2> HIDE DEF j
  <2>3. QED
    BY <2>1, <2>2, MovesOn DEF ActivatingStates, DrivingStates
<1>3. CASE Commits(c)
  <2>1. \/ c \in Timers /\ task[c].pc = "updating"
        \/ c \notin Timers /\ task[c].pc = "inserting"
    BY <1>1, <1>3 DEF Commits, Kinds, ActivatingStates, DrivingStates
  <2>2. QED
    BY <1>3, <2>1, GoesOn DEF Commits, polling, ActivatingStates, DrivingStates
<1>4. CASE CommitsAndEnds(c)
  BY <1>4, Ending DEF CommitsAndEnds
<1>5. QED
  BY <1>2, <1>3, <1>4

LEMMA ActivationInv ==
  ASSUME Inv, NEW c \in Tasks,
         ActivationDeletes(c) \/ ActivationInserts(c) \/ ActivationArms(c)
           \/ ActivationFails(c)
  PROVE  Kinds' /\ Quiet' /\ OneDriver'
<1>0. c \notin Timers
  BY DEF ActivationDeletes, ActivationInserts, ActivationArms, ActivationFails
<1>1. CASE ActivationDeletes(c)
  BY <1>0, <1>1, GoesOn DEF ActivationDeletes, AllAnswered, ActivatingStates
<1>2. CASE ActivationInserts(c)
  BY <1>0, <1>2, GoesOn DEF ActivationInserts, ActivatingStates
<1>3. CASE ActivationFails(c)
  BY <1>3, FreeOK, MovesOn DEF ActivationFails, CallerGoesOn
<1>4. CASE ActivationArms(c)
  <2> DEFINE j == [task[c] EXCEPT !.pc = "sleeping"]
  <2>1. PICK t \in Timers : task' = [task EXCEPT ![t] = j, ![c] = Free] /\ handle' = t
    BY <1>4 DEF ActivationArms, FreeTimers
  <2>2. /\ task \in [Tasks -> TaskType] /\ t \in Tasks /\ t # c
        /\ j.pc = "sleeping" /\ Free.pc = "free" /\ task[c].pc = "committing"
    BY <1>0, <1>4, NotTimers, FreeOK DEF Inv, TypeOK, TaskType, ActivationArms
  <2> HIDE DEF j
  <2>3. /\ task'[t] = j /\ task'[c] = Free
        /\ \A e \in Tasks \ {c, t} : task'[e] = task[e]
    BY <2>1, <2>2
  <2>4. Kinds'
    BY <2>2, <2>3 DEF Inv, Kinds, DrivingStates
  <2>5. Quiet'
    BY <1>4, <2>2 DEF Inv, Quiet, ActivationArms, CallerGoesOn
  <2>6. ASSUME ~raced' PROVE OneDriver'
    <3>1. \A e \in Tasks : Drives(e) => e = c
      <4>1. Drives(c)
        BY <1>0, <2>2, DrivesBy DEF Drives, ActivatingStates
      <4>2. ~raced
        BY <1>4, <2>6 DEF ActivationArms
      <4>3. QED
        BY <4>1, <4>2 DEF Inv, OneDriver
    <3>2. \A e \in Tasks \ {t} : ~Drives(e)'
      BY <2>2, <2>3, <3>1, DrivesBy DEF Drives, ActivatingStates, DrivingStates
    <3>3. \A e \in Timers : Driving(e)' => handle' = e
      BY <2>1, <3>2, NotTimers DEF Drives
    <3>4. QED
      BY <3>2, <3>3 DEF OneDriver
  <2>7. QED
    BY <2>4, <2>5, <2>6 DEF OneDriver
<1>5. QED
  BY <1>1, <1>2, <1>3, <1>4

LEMMA TimerInv ==
  ASSUME Inv, NEW t \in Tasks,
         TimerQuits(t) \/ TimerAdvances(t) \/ TimerUpdates(t) \/ TimerRearms(t)
           \/ TimerSwitchesOff(t) \/ TimerDeletes(t) \/ TimerFails(t)
  PROVE  Kinds' /\ Quiet' /\ OneDriver'
<1>0. t \in Timers /\ task \in [Tasks -> TaskType]
  BY DEF TimerQuits, TimerAdvances, TimerUpdates, TimerRearms, TimerSwitchesOff,
         TimerDeletes, TimerFails, Due, Inv, TypeOK
<1>1. CASE TimerQuits(t) \/ TimerFails(t)
  BY <1>1, Ending DEF TimerQuits, TimerFails, Due
<1>2. CASE TimerAdvances(t)
  <2> DEFINE j == Applying(task[t].prog, task[t].def, task[t].idx + 1,
                           task[t].start, task[t].end)
  <2>1. task' = [task EXCEPT ![t] = j] /\ j.pc = "calling" /\ task[t].pc = "sleeping"
        /\ handle' = handle /\ raced' = raced /\ phase' = phase
    BY <1>2 DEF TimerAdvances, Due, Applying
  <2> HIDE DEF j
  <2>2. QED
    BY <1>0, <2>1, MovesOn DEF DrivingStates
<1>3. CASE TimerUpdates(t)
  BY <1>0, <1>3, GoesOn DEF TimerUpdates, AllAnswered, DrivingStates
<1>4. CASE TimerRearms(t)
  <2> DEFINE j == [task[t] EXCEPT !.pc = "sleeping",
                     !.end = clock + Duration(task[t].def, task[t].idx)]
  <2>1. task' = [task EXCEPT ![t] = j] /\ task[t].pc = "committing"
        /\ handle' = t /\ raced' = raced /\ phase' = phase
    BY <1>4 DEF TimerRearms
  <2>2. j.pc = "sleeping"
    BY <1>0 DEF TaskType
  <2> HIDE DEF j
  <2>3. Driving(t)
    BY <1>0, <2>1, DrivesBy DEF DrivingStates
  <2>4. QED
    BY <1>0, <2>1, <2>2, <2>3, MovesOn DEF DrivingStates
<1>5. CASE TimerSwitchesOff(t)
  <2> DEFINE j == [task[t] EXCEPT !.pc = "off", !.sent = Reaches(Standby)]
  <2>1. task' = [task EXCEPT ![t] = j] /\ task[t].pc = "sleeping"
        /\ handle' = handle /\ raced' = raced /\ phase' = phase
    BY <1>5 DEF TimerSwitchesOff, Due
  <2>2. j.pc = "off"
    BY <1>0 DEF TaskType
  <2> HIDE DEF j
  <2>3. QED
    BY <1>0, <2>1, <2>2, MovesOn DEF DrivingStates
<1>6. CASE TimerDeletes(t)
  BY <1>0, <1>6, GoesOn DEF TimerDeletes, Due
<1>7. QED
  BY <1>1, <1>2, <1>3, <1>4, <1>5, <1>6

-----------------------------------------------------------------------------
\* Steps that start, stop or cancel coroutines.

KindsOf(f) ==
  \A c \in Tasks :
    f[c].pc \in IF c \in Timers THEN DrivingStates \cup {"free", "deleting"}
                                ELSE ActivatingStates \cup {"free", "stopping"}

\* None of the tasks f would drive the device.
Silent(f) ==
  \A c \in Tasks : f[c].pc \notin IF c \in Timers THEN DrivingStates ELSE ActivatingStates

\* Without a driver, or without a race to exclude, OneDriver holds.
LEMMA SilentOK == (~raced' => Silent(task')) => OneDriver'
BY NotTimers, DrivesBy DEF Silent, OneDriver, Drives

\* Cancelling the handle's timer silences the hub, if nothing else drove it.
LEMMA CancelKinds ==
  ASSUME Inv
  PROVE  /\ DOMAIN AfterCancel = Tasks /\ KindsOf(AfterCancel)
         /\ (\A c \in Tasks \ {handle} : ~Drives(c)) => Silent(AfterCancel)
         /\ (~raced /\ \A c \in Tasks : ~Activating(c)) => Silent(AfterCancel)
<1>1. KindsOf(AfterCancel)
  BY FreeOK DEF AfterCancel, KindsOf, Inv, Kinds
<1>2. ASSUME \A c \in Tasks \ {handle} : ~Drives(c) PROVE Silent(AfterCancel)
  BY <1>2, FreeOK, DrivesBy
  DEF AfterCancel, Silent, Drives, ActivatingStates, DrivingStates
<1>3. ASSUME ~raced, \A c \in Tasks : ~Activating(c) PROVE Silent(AfterCancel)
  <2>1. \A c \in Tasks \ {handle} : ~Drives(c)
    BY <1>3, DrivesBy DEF Inv, OneDriver, Drives
  <2>2. QED
    BY <1>2, <2>1
<1>4. QED
  BY <1>1, <1>2, <1>3 DEF AfterCancel

\* An activation that starts while nothing else drives is the only driver.
LEMMA Begins ==
  ASSUME NEW c \in Tasks \ Timers, NEW STATE p, NEW STATE d, NEW STATE s,
         NEW STATE others,
         DOMAIN others = Tasks, KindsOf(others), ~raced' => Silent(others),
         Activate(c, p, d, s, others)
  PROVE  Kinds' /\ OneDriver'
<1>0. PICK i \in Steps(d) :
        task' = [others EXCEPT ![c] =
                   Applying(p, d, i, s, clock + Remaining(d, i, Delta(clock, s)))]
  BY DEF Activate
<1> DEFINE j == Applying(p, d, i, s, clock + Remaining(d, i, Delta(clock, s)))
<1>1. task' = [others EXCEPT ![c] = j] /\ j.pc = "calling"
  BY <1>0 DEF Applying
<1> HIDE DEF j
<1>2. task'[c] = j /\ \A e \in Tasks \ {c} : task'[e] = others[e]
  BY <1>1
<1>3. Kinds'
  BY <1>1, <1>2 DEF Kinds, KindsOf, ActivatingStates
<1>4. ASSUME ~raced' PROVE OneDriver'
  <2>1. \A e \in Tasks \ {c} : ~Drives(e)'
    BY <1>2, <1>4, DrivesBy DEF Silent, Drives
  <2>2. \A t \in Timers : ~Driving(t)'
    BY <2>1, NotTimers DEF Drives
  <2>3. QED
    BY <2>1, <2>2 DEF OneDriver
<1>5. QED
  BY <1>3, <1>4 DEF OneDriver

LEMMA SilentNow ==
  ASSUME Inv, \A c \in Tasks : ~Drives(c) PROVE Silent(task)
BY DrivesBy DEF Silent, Drives

LEMMA ClientInv ==
  ASSUME Inv, ClientStep
  PROVE  Kinds' /\ Quiet' /\ OneDriver'
<1>0. DOMAIN task = Tasks /\ KindsOf(task)
  BY DEF Inv, TypeOK, Kinds, KindsOf
<1>1. ASSUME NEW r \in Requests, NEW p \in ProgramIds, NEW offset \in StartOffsets,
             ActivateProgram(r, p, offset)
      PROVE  Kinds' /\ Quiet' /\ OneDriver'
  <2>1. r \in Tasks \ Timers
    BY NotTimers
  <2>2. ~raced' => Silent(task)
    BY <1>1, SilentNow DEF ActivateProgram, Drives
  <2>3. Kinds' /\ OneDriver'
    BY <1>0, <1>1, <2>1, <2>2, Begins DEF ActivateProgram
  <2>4. Quiet'
    BY <1>1 DEF ActivateProgram, Quiet
  <2>5. QED
    BY <2>3, <2>4
<1>2. ASSUME NEW r \in Requests, StopProgram(r)
      PROVE  Kinds' /\ Quiet' /\ OneDriver'
  <2> DEFINE j == [AfterCancel[r] EXCEPT !.pc = "stopping"]
  <2>1. r \in Tasks /\ r \notin Timers /\ task' = [AfterCancel EXCEPT ![r] = j]
    BY <1>2, NotTimers DEF StopProgram
  <2>2. AfterCancel[r] \in TaskType
    BY <2>1, FreeOK DEF Inv, TypeOK, AfterCancel, TaskOK
  <2>3. j.pc = "stopping"
    BY <2>2 DEF TaskType
  <2> HIDE DEF j
  <2>4. Kinds'
    BY <2>1, <2>3, CancelKinds DEF Kinds, KindsOf
  <2>5. ~raced' => Silent(task')
    BY <1>2, <2>1, <2>3, CancelKinds DEF StopProgram, Silent, ActivatingStates
  <2>6. Quiet'
    BY <1>2 DEF StopProgram, Quiet
  <2>7. QED
    BY <2>4, <2>5, <2>6, SilentOK
<1>3. ASSUME NEW p \in ProgramIds, NEW d \in Catalogue \cup {Absent}, EditProgram(p, d)
      PROVE  Kinds' /\ Quiet' /\ OneDriver'
  BY <1>3 DEF EditProgram, polling, Inv, Kinds, Quiet, OneDriver, Drives, Activating, Driving
<1>4. QED
  BY <1>1, <1>2, <1>3 DEF ClientStep

LEMMA PollInv ==
  ASSUME Inv, PollStep
  PROVE  Kinds' /\ Quiet' /\ OneDriver'
<1>0. phase \notin {"down", "starting"} /\ phase' = phase
  BY DEF Inv, Quiet, PollStep, PollSkipsMinute, PollWakes, PollAsks, PollSkips,
         PollActivates, PollCandidate
<1>1. Quiet'
  BY <1>0 DEF Quiet
<1>2. CASE UNCHANGED <<task, handle, raced>>
  <2>1. Kinds' /\ OneDriver'
    BY <1>2 DEF Inv, Kinds, OneDriver, Drives, Activating, Driving
  <2>2. QED
    BY <1>1, <2>1
<1>3. ASSUME NEW p \in ProgramIds, PollActivates(p)
      PROVE  Kinds' /\ Quiet' /\ OneDriver'
  <2>1. ~raced' => Silent(AfterCancel)
    BY <1>3, CancelKinds DEF PollActivates, Drives
  <2>2. CASE Activate("poll", p, poll.list[p], clock, AfterCancel)
    BY <1>1, <2>1, <2>2, CancelKinds, NotTimers, Begins
  <2>3. CASE task' = AfterCancel
    <3>1. OneDriver'
      BY <2>1, <2>3, SilentOK
    <3>2. Kinds'
      BY <2>3, CancelKinds DEF Kinds, KindsOf
    <3>3. QED
      BY <1>1, <3>1, <3>2
  <2>4. QED
    BY <1>3, <2>2, <2>3 DEF PollActivates
<1>4. QED
  BY <1>2, <1>3 DEF PollStep, PollSkipsMinute, PollWakes, PollAsks, PollSkips

LEMMA ProcessInv ==
  ASSUME Inv,
         \/ StartStep \/ OtherCommit \/ Crash \/ Shutdown \/ Exit
         \/ LinkDrops \/ LinkReturns \/ Tick
  PROVE  Kinds' /\ Quiet' /\ OneDriver'
<1>0. DOMAIN task = Tasks /\ KindsOf(task)
  BY DEF Inv, TypeOK, Kinds, KindsOf
<1>1. CASE Crash \/ Exit \/ StartRaises
  <2>1. ProcessEnds
    BY <1>1 DEF Crash, Exit, StartRaises
  <2>2. \A c \in Tasks : task'[c].pc = "free"
    BY <2>1, FreeOK DEF ProcessEnds
  <2>3. Kinds' /\ Silent(task')
    BY <2>2 DEF Kinds, Silent, ActivatingStates, DrivingStates
  <2>4. Quiet'
    BY <2>1, <2>2 DEF ProcessEnds, Quiet, PollOff
  <2>5. QED
    BY <2>3, <2>4, SilentOK
<1>2. CASE Shutdown
  <2>1. task' = [AfterCancel EXCEPT !["poll"] = Free] /\ raced' = raced
        /\ phase' = "stopping"
    BY <1>2 DEF Shutdown
  <2>2. Kinds'
    BY <2>1, NotTimers, FreeOK, CancelKinds DEF Kinds, KindsOf
  <2>3. ASSUME ~raced PROVE OneDriver'
    <3>1. \A e \in Tasks : task'[e] = task[e] \/ task'[e] = Free
      BY <2>1, NotTimers DEF AfterCancel
    <3>2. \A e \in Tasks : Drives(e)' => Drives(e)
      BY <3>1, FreeOK, DrivesBy DEF Drives, ActivatingStates, DrivingStates
    <3>3. \A t \in Timers : ~Driving(t)'
      <4>1. ASSUME NEW t \in Timers, Driving(t)' PROVE FALSE
        <5>1. t \in Tasks /\ t # "poll" /\ Driving(t)
          BY <4>1, <3>1, FreeOK, NotTimers, DrivesBy DEF DrivingStates
        <5>2. t = handle
          BY <2>3, <5>1 DEF Inv, OneDriver
        <5>3. task'[t] = Free
          BY <2>1, <5>1, <5>2 DEF AfterCancel
        <5>4. QED
          BY <4>1, <5>3, FreeOK, DrivesBy DEF DrivingStates
      <4>2. QED
        BY <4>1
    <3>4. QED
      BY <2>3, <3>2, <3>3 DEF Inv, OneDriver
  <2>4. QED
    BY <2>1, <2>2, <2>3 DEF Quiet, OneDriver
<1>3. CASE Boot \/ StartsClean
  <2>1. UNCHANGED <<task, handle, raced>>
    BY <1>3 DEF Boot, StartsClean
  <2>2. Kinds' /\ OneDriver'
    BY <2>1 DEF Inv, Kinds, OneDriver, Drives, Activating, Driving
  <2>3. Quiet'
    BY <1>3, <2>1 DEF Boot, StartsClean, polling, Inv, Quiet
  <2>4. QED
    BY <2>2, <2>3
<1>4. CASE Resume
  <2>1. Silent(task)
    BY <1>4 DEF Resume, Inv, Quiet, Silent, ActivatingStates, DrivingStates
  <2>2. Kinds' /\ OneDriver'
    BY <1>0, <1>4, <2>1, NotTimers, Begins DEF Resume
  <2>3. QED
    BY <1>4, <2>2 DEF Resume, Quiet
<1>5. CASE OtherCommit \/ LinkDrops \/ LinkReturns \/ Tick
  <2>1. UNCHANGED <<task, handle, raced, phase, poll>>
    BY <1>5 DEF OtherCommit, LinkDrops, LinkReturns, Tick, polling
  <2>2. QED
    BY <2>1 DEF Inv, Kinds, Quiet, OneDriver, Drives, Activating, Driving
<1>6. QED
  BY <1>1, <1>2, <1>3, <1>4, <1>5 DEF StartStep

-----------------------------------------------------------------------------
LEMMA NextInv == Inv /\ [Next]_vars => Inv'
<1> SUFFICES ASSUME Inv, [Next]_vars PROVE Inv'
  OBVIOUS
<1>1. TypeOK'
  BY TypeStep DEF Inv
<1>2. CASE ClientStep
  BY <1>1, <1>2, ClientInv DEF Inv
<1>3. ASSUME NEW c \in Tasks, TaskStep(c) PROVE Inv'
  BY <1>1, <1>3, SharedInv, ActivationInv, TimerInv DEF Inv, TaskStep
<1>4. CASE PollStep
  BY <1>1, <1>4, PollInv DEF Inv
<1>5. CASE \/ StartStep \/ OtherCommit \/ Crash \/ Shutdown \/ Exit
           \/ LinkDrops \/ LinkReturns \/ Tick
  BY <1>1, <1>5, ProcessInv DEF Inv
<1>6. CASE UNCHANGED vars
  <2>1. UNCHANGED <<task, handle, raced, phase, poll>>
    BY <1>6 DEF vars, polling
  <2>2. Kinds' /\ Quiet' /\ OneDriver'
    BY <2>1 DEF Inv, Kinds, Quiet, OneDriver, Drives, Activating, Driving
  <2>3. QED
    BY <1>1, <2>2 DEF Inv
<1>7. QED
  BY <1>2, <1>3, <1>4, <1>5, <1>6 DEF Next

\* For all programs, numbers of clients, crashes, lost calls and delays: as long
\* as no program was started over a running one, at most one coroutine drives the
\* device, and a step timer that does so is the one that stop_program, the poll
\* and stop() would cancel.
THEOREM OneDriverHolds == Spec => []OneDriver
<1>1. Inv => OneDriver
  BY DEF Inv
<1>2. QED
  BY InitInv, NextInv, <1>1, PTL DEF Spec

-----------------------------------------------------------------------------
(***************************************************************************)
(* StepInForce, RowNamesDriver and BootLeavesNoOrphanRow say how the rows  *)
(* and the device agree with the coroutine that drives; between two awaits *)
(* they agree only in part.  Records says what they are at every one of    *)
(* its awaits, as long as there is one driver: no program was started over *)
(* another, or the hub is still resuming.                                  *)
(***************************************************************************)

\* While start() resumes a sequence nothing else runs.
BootAlone ==
  phase = "booting" =>
    /\ \A c \in Tasks \ {"boot"} : task[c].pc = "free"
    /\ poll.pc = "off"

Sole == ~raced \/ phase = "booting"

RowBefore(j) ==
  [prog |-> j.prog, def |-> j.def, idx |-> j.idx - 1, start |-> j.start]

\* Row r and its committed version k, while coroutine c is at j.
Fits(c, j, r, k) ==
  IF c \in Timers
  THEN /\ j.pc \in {"sleeping", "committing", "off"} => r = RowOf(j) /\ k = r
       /\ j.pc = "updating" => r = RowOf(j)
       /\ j.pc = "calling" => r = RowBefore(j) /\ k = r
  ELSE /\ j.pc = "deleting" => r = NoRow
       /\ j.pc = "inserting" => r = RowOf(j)
       /\ j.pc = "committing" => r = RowOf(j) /\ k = r

\* The mode the device was last asked for, unless a call did not reach it.
Asks(j, a) ==
  j.pc = "off" \/ (j.pc = "calling" /\ ~j.sent) \/ a = j.def.mode[j.idx]

Records ==
  Sole => \A c \in Tasks :
            /\ Fits(c, task[c], row, disk)
            /\ Drives(c) => Asks(task[c], asked)

Placed == Inv /\ BootAlone /\ Records

LEMMA Alone ==
  Inv /\ BootAlone /\ Sole => \A c, e \in Tasks : Drives(c) /\ Drives(e) => c = e
<1> SUFFICES ASSUME Inv, BootAlone, Sole
             PROVE  \A c, e \in Tasks : Drives(c) /\ Drives(e) => c = e
  OBVIOUS
<1>1. CASE ~raced
  BY <1>1 DEF Inv, OneDriver
<1>2. CASE phase = "booting"
  <2>1. \A c \in Tasks : Drives(c) => c = "boot"
    BY <1>2, DrivesBy DEF BootAlone, Drives, ActivatingStates, DrivingStates
  <2>2. QED
    BY <2>1
<1>3. QED
  BY <1>1, <1>2 DEF Sole

LEMMA AloneNext ==
  Inv' /\ BootAlone' /\ Sole' => \A c, e \in Tasks : Drives(c)' /\ Drives(e)' => c = e
<1> SUFFICES ASSUME Inv', BootAlone', Sole'
             PROVE  \A c, e \in Tasks : Drives(c)' /\ Drives(e)' => c = e
  OBVIOUS
<1>1. CASE ~raced'
  BY <1>1 DEF Inv, OneDriver
<1>2. CASE phase' = "booting"
  <2>1. \A c \in Tasks : Drives(c)' => c = "boot"
    BY <1>2, DrivesBy DEF BootAlone, Drives, ActivatingStates, DrivingStates
  <2>2. QED
    BY <2>1
<1>3. QED
  BY <1>1, <1>2 DEF Sole

\* The rows do not matter to a coroutine that does not drive.
LEMMA IdleFits ==
  /\ Kinds => \A c \in Tasks : ~Drives(c) => \A r, k : Fits(c, task[c], r, k)
  /\ Kinds' => \A c \in Tasks : ~Drives(c)' => \A r, k : Fits(c, task'[c], r, k)
<1>1. \A j : j.pc \in {"free", "deleting"} =>
        \A c \in Timers : \A r, k : Fits(c, j, r, k)
  BY DEF Fits
<1>2. \A j : j.pc \in {"free", "stopping"} =>
        \A c \in Tasks \ Timers : \A r, k : Fits(c, j, r, k)
  BY DEF Fits
<1>3. ASSUME Kinds, NEW c \in Tasks, ~Drives(c) PROVE \A r, k : Fits(c, task[c], r, k)
  BY <1>1, <1>2, <1>3, DrivesBy DEF Kinds, Drives
<1>4. ASSUME Kinds', NEW c \in Tasks, ~Drives(c)'
      PROVE  \A r, k : Fits(c, task'[c], r, k)
  BY <1>1, <1>2, <1>4, DrivesBy DEF Kinds, Drives
<1>5. QED
  BY <1>3, <1>4

\* The next state is in order if its driver is.
LEMMA DriverFits ==
  ASSUME Inv', BootAlone', NEW c \in Tasks,
         Sole' => /\ Drives(c)'
                  /\ Fits(c, task'[c], row', disk') /\ Asks(task'[c], asked')
  PROVE  Records'
<1> SUFFICES ASSUME Sole', NEW e \in Tasks
             PROVE  /\ Fits(e, task'[e], row', disk')
                    /\ Drives(e)' => Asks(task'[e], asked')
  BY DEF Records
<1>1. CASE e = c
  BY <1>1
<1>2. CASE e # c
  <2>1. ~Drives(e)'
    BY <1>2, AloneNext
  <2>2. QED
    BY <2>1, IdleFits DEF Inv
<1>3. QED
  BY <1>1, <1>2

\* So it is if it has none.
LEMMA NobodyFits ==
  ASSUME Inv', Sole' => \A c \in Tasks : ~Drives(c)'
  PROVE  Records'
BY IdleFits DEF Inv, Records

\* A step of the driver.
LEMMA DriverMoves ==
  ASSUME Placed, Inv', BootAlone', NEW c \in Tasks, Drives(c),
         \A e \in Tasks \ {c} : task'[e] = task[e], Sole' => Sole,
         Sole' /\ Drives(c)' =>
           Fits(c, task'[c], row', disk') /\ Asks(task'[c], asked')
  PROVE  Records'
<1>1. CASE Sole' /\ ~Drives(c)'
  <2>1. \A e \in Tasks \ {c} : ~Drives(e)
    BY <1>1, Alone DEF Placed
  <2>2. \A e \in Tasks \ {c} : ~Drives(e)'
    BY <2>1, DrivesBy DEF Drives
  <2>3. QED
    BY <1>1, <2>2, NobodyFits
<1>2. CASE Sole' => Drives(c)'
  BY <1>2, DriverFits
<1>3. QED
  BY <1>1, <1>2

\* A step that only ends coroutines, or commits the row.
LEMMA OthersStop ==
  ASSUME Placed, Inv', row' = row, disk' = disk \/ disk' = row, asked' = asked,
         Sole' => Sole,
         \A e \in Tasks : task'[e] = task[e] \/ task'[e].pc = "free"
  PROVE  Records'
<1> SUFFICES ASSUME Sole', NEW e \in Tasks
             PROVE  /\ Fits(e, task'[e], row', disk')
                    /\ Drives(e)' => Asks(task'[e], asked')
  BY DEF Records
<1>1. CASE task'[e].pc = "free"
  <2>1. ~Drives(e)'
    BY <1>1, DrivesBy DEF Drives, ActivatingStates, DrivingStates
  <2>2. QED
    BY <2>1, IdleFits DEF Inv
<1>2. CASE task'[e] = task[e]
  <2>1. Fits(e, task[e], row, disk) /\ (Drives(e) => Asks(task[e], asked))
    BY DEF Placed, Records
  <2>2. Fits(e, task[e], row, row)
    BY <2>1 DEF Fits
  <2>3. Drives(e)' => Drives(e)
    BY <1>2, DrivesBy DEF Drives
  <2>4. QED
    BY <1>2, <2>1, <2>2, <2>3
<1>3. QED
  BY <1>1, <1>2

\* A coroutine that takes a step runs, and changes nobody else, except for the
\* free slot in which an activation starts its timer.
LEMMA TaskMoves ==
  ASSUME TypeOK, NEW c \in Tasks, TaskStep(c)
  PROVE  /\ task[c].pc # "free"
         /\ \/ ActivationArms(c)
            \/ \A e \in Tasks \ {c} : task'[e] = task[e]
         /\ raced' = raced
         /\ phase' = phase \/ (c = "boot" /\ phase' = "up")
<1>1. task[c].pc # "free"
  BY DEF TaskStep, Calls, Commits, CommitsAndEnds, ActivationDeletes, AllAnswered,
         ActivationInserts, ActivationArms, ActivationFails, TimerQuits, TimerAdvances,
         TimerUpdates, TimerRearms, TimerSwitchesOff, TimerDeletes, TimerFails, Due
<1>2. \/ ActivationArms(c)
      \/ \A e \in Tasks \ {c} : task'[e] = task[e]
  BY DEF TypeOK, TaskStep, Calls, Commits, CommitsAndEnds, ActivationDeletes, Ends, Goto,
         ActivationInserts, ActivationFails, TimerQuits, TimerAdvances, TimerUpdates,
         TimerRearms, TimerSwitchesOff, TimerDeletes, TimerFails
<1>3. raced' = raced /\ (phase' = phase \/ (c = "boot" /\ phase' = "up"))
  BY DEF TaskStep, Calls, Commits, CommitsAndEnds, ActivationDeletes, CallerGoesOn,
         ActivationInserts, ActivationArms, ActivationFails, TimerQuits, TimerAdvances,
         TimerUpdates, TimerRearms, TimerSwitchesOff, TimerDeletes, TimerFails
<1>4. QED
  BY <1>1, <1>2, <1>3

LEMMA BootAloneStep == Inv /\ BootAlone /\ [Next]_vars => BootAlone'
<1> SUFFICES ASSUME Inv, BootAlone, [Next]_vars, phase' = "booting" PROVE BootAlone'
  BY DEF BootAlone
<1>1. CASE ClientStep
  BY <1>1 DEF ClientStep, ActivateProgram, StopProgram, EditProgram
<1>2. ASSUME NEW c \in Tasks, TaskStep(c) PROVE BootAlone'
  <2>1. /\ task[c].pc # "free" /\ phase = "booting"
        /\ \/ ActivationArms(c)
           \/ \A e \in Tasks \ {c} : task'[e] = task[e]
    BY <1>2, TaskMoves DEF Inv
  <2>2. c = "boot"
    BY <2>1 DEF BootAlone
  <2>3. \A e \in Tasks \ {c} : task'[e] = task[e]
    BY <2>1, <2>2 DEF ActivationArms, CallerGoesOn
  <2>4. poll' = poll
    BY <1>2, <2>2 DEF polling, TaskStep, Calls, Commits, CommitsAndEnds,
         ActivationDeletes, CallerGoesOn, ActivationInserts, ActivationArms,
         ActivationFails, TimerQuits, TimerAdvances, TimerUpdates, TimerRearms,
         TimerSwitchesOff, TimerDeletes, TimerFails
  <2>5. QED
    BY <2>1, <2>2, <2>3, <2>4 DEF BootAlone
<1>3. CASE PollStep
  BY <1>3 DEF BootAlone, PollStep, PollSkipsMinute, PollWakes, PollAsks, PollSkips,
              PollActivates, PollCandidate
<1>4. CASE Resume
  <2>1. task' = [task EXCEPT !["boot"] = task'["boot"]]
    BY <1>4, NotTimers DEF Resume, Activate, Inv, TypeOK
  <2>2. QED
    BY <1>4, <2>1 DEF Resume, polling, Inv, Quiet, BootAlone, TypeOK
<1>5. CASE \/ Boot \/ StartsClean \/ StartRaises \/ Crash \/ Shutdown \/ Exit
  BY <1>5 DEF Boot, StartsClean, StartRaises, Crash, Shutdown, Exit, ProcessEnds
<1>6. CASE OtherCommit \/ LinkDrops \/ LinkReturns \/ Tick \/ UNCHANGED vars
  <2>1. UNCHANGED <<task, poll, phase>>
    BY <1>6 DEF OtherCommit, LinkDrops, LinkReturns, Tick, vars, polling
  <2>2. QED
    BY <2>1 DEF BootAlone
<1>7. QED
  BY <1>1, <1>2, <1>3, <1>4, <1>5, <1>6 DEF Next, StartStep

-----------------------------------------------------------------------------
\* The steps of a coroutine keep the records.

\* What a driver knows of the rows and of the device.
LEMMA Known ==
  ASSUME Placed, NEW c \in Tasks, Sole
  PROVE  /\ Fits(c, task[c], row, disk)
         /\ Drives(c) => Asks(task[c], asked)
         /\ task[c] \in TaskType
BY DEF Placed, Records, Inv, TypeOK

LEMMA RecordsShared ==
  ASSUME Placed, Inv', BootAlone', NEW c \in Tasks, Sole' => Sole,
         Calls(c) \/ Commits(c) \/ CommitsAndEnds(c)
  PROVE  Records'
<1>0. task \in [Tasks -> TaskType] /\ Kinds
  BY DEF Placed, Inv, TypeOK
<1>1. CASE Calls(c)
  <2> DEFINE j == [task[c] EXCEPT !.left = @ - 1, !.sent = link]
  <2>1. /\ j.pc = "calling" /\ task[c].pc = "calling" /\ task[c].sent
        /\ j.prog = task[c].prog /\ j.def = task[c].def /\ j.idx = task[c].idx
        /\ j.start = task[c].start
    BY <1>0, <1>1 DEF Calls, TaskType
  <2>2. task' = [task EXCEPT ![c] = j] /\ UNCHANGED <<row, disk, asked>>
    BY <1>1 DEF Calls
  <2> HIDE DEF j
  <2>3. task'[c] = j /\ \A e \in Tasks \ {c} : task'[e] = task[e]
    BY <1>0, <2>2
  <2>4. Drives(c)
    BY <2>1, NotTimers, DrivesBy DEF Drives, ActivatingStates, DrivingStates
  <2>5. ASSUME Sole PROVE Fits(c, j, row, disk) /\ Asks(j, asked)
    <3>1. Fits(c, task[c], row, disk) /\ Asks(task[c], asked)
      BY <2>4, <2>5, Known
    <3>2. RowOf(j) = RowOf(task[c]) /\ RowBefore(j) = RowBefore(task[c])
      BY <2>1 DEF RowOf, RowBefore
    <3>3. QED
      BY <2>1, <3>1, <3>2 DEF Fits, Asks
  <2>6. QED
    BY <2>2, <2>3, <2>4, <2>5, DriverMoves
<1>2. CASE Commits(c)
  <2> DEFINE j == [task[c] EXCEPT !.pc = "committing"]
  <2>1. /\ j.pc = "committing" /\ task[c].pc \in {"inserting", "updating"}
        /\ j.prog = task[c].prog /\ j.def = task[c].def /\ j.idx = task[c].idx
        /\ j.start = task[c].start
    BY <1>0, <1>2 DEF Commits, TaskType
  <2>2. task' = [task EXCEPT ![c] = j] /\ UNCHANGED <<row, asked>> /\ disk' = row
    BY <1>2 DEF Commits, Goto
  <2> HIDE DEF j
  <2>3. task'[c] = j /\ \A e \in Tasks \ {c} : task'[e] = task[e]
    BY <1>0, <2>2
  <2>4. Drives(c)
    BY <1>0, <2>1, DrivesBy DEF Drives, Kinds, ActivatingStates, DrivingStates
  <2>5. ASSUME Sole PROVE Fits(c, j, row, row) /\ Asks(j, asked)
    <3>1. Fits(c, task[c], row, disk) /\ Asks(task[c], asked)
      BY <2>4, <2>5, Known
    <3>2. RowOf(j) = RowOf(task[c])
      BY <2>1 DEF RowOf
    <3>3. \/ c \in Timers /\ task[c].pc = "updating"
          \/ c \notin Timers /\ task[c].pc = "inserting"
      BY <1>0, <2>1 DEF Kinds, ActivatingStates, DrivingStates
    <3>4. QED
      BY <2>1, <3>1, <3>2, <3>3 DEF Fits, Asks
  <2>6. QED
    BY <2>2, <2>3, <2>4, <2>5, DriverMoves
<1>3. CASE CommitsAndEnds(c)
  <2>1. \A e \in Tasks : task'[e] = task[e] \/ task'[e].pc = "free"
    BY <1>0, <1>3, FreeOK DEF CommitsAndEnds, Ends
  <2>2. QED
    BY <1>3, <2>1, OthersStop DEF CommitsAndEnds
<1>4. QED
  BY <1>1, <1>2, <1>3

LEMMA RecordsActivation ==
  ASSUME Placed, Inv', BootAlone', NEW c \in Tasks, Sole' => Sole,
         ActivationDeletes(c) \/ ActivationInserts(c) \/ ActivationArms(c)
           \/ ActivationFails(c)
  PROVE  Records'
<1>0. /\ task \in [Tasks -> TaskType] /\ c \notin Timers
      /\ task[c].pc \in ActivatingStates
  BY DEF Placed, Inv, TypeOK, ActivatingStates, AllAnswered,
         ActivationDeletes, ActivationInserts, ActivationArms, ActivationFails
<1>1. Drives(c)
  BY <1>0, DrivesBy DEF Drives
<1>2. ASSUME Sole PROVE Fits(c, task[c], row, disk) /\ Asks(task[c], asked)
  BY <1>1, <1>2, Known
<1>3. CASE ActivationDeletes(c)
  <2> DEFINE j == [task[c] EXCEPT !.pc = "deleting"]
  <2>1. /\ j.pc = "deleting" /\ task[c].sent /\ j.def = task[c].def /\ j.idx = task[c].idx
        /\ task[c].pc = "calling"
    BY <1>0, <1>3 DEF ActivationDeletes, AllAnswered, TaskType
  <2>2. task' = [task EXCEPT ![c] = j] /\ asked' = asked /\ row' = NoRow
    BY <1>3 DEF ActivationDeletes, Goto
  <2> HIDE DEF j
  <2>3. task'[c] = j /\ \A e \in Tasks \ {c} : task'[e] = task[e]
    BY <1>0, <2>2
  <2>4. ASSUME Sole PROVE Fits(c, j, row', disk') /\ Asks(j, asked)
    BY <1>0, <1>2, <2>1, <2>2, <2>4 DEF Fits, Asks
  <2>5. QED
    BY <1>1, <2>2, <2>3, <2>4, DriverMoves
<1>4. CASE ActivationInserts(c)
  <2> DEFINE j == [task[c] EXCEPT !.pc = "inserting"]
  <2>1. /\ j.pc = "inserting" /\ j.def = task[c].def /\ j.idx = task[c].idx
        /\ j.prog = task[c].prog /\ j.start = task[c].start /\ task[c].pc = "deleting"
    BY <1>0, <1>4 DEF ActivationInserts, TaskType
  <2>2. task' = [task EXCEPT ![c] = j] /\ asked' = asked /\ row' = RowOf(task[c])
    BY <1>4 DEF ActivationInserts, Goto
  <2> HIDE DEF j
  <2>3. task'[c] = j /\ \A e \in Tasks \ {c} : task'[e] = task[e]
    BY <1>0, <2>2
  <2>4. ASSUME Sole PROVE Fits(c, j, row', disk') /\ Asks(j, asked)
    BY <1>0, <1>2, <2>1, <2>2, <2>4 DEF Fits, Asks, RowOf
  <2>5. QED
    BY <1>1, <2>2, <2>3, <2>4, DriverMoves
<1>5. CASE ActivationArms(c)
  <2> DEFINE j == [task[c] EXCEPT !.pc = "sleeping"]
  <2>1. PICK t \in Timers : task' = [task EXCEPT ![t] = j, ![c] = Free]
    BY <1>5 DEF ActivationArms, FreeTimers
  <2>2. /\ j.pc = "sleeping" /\ j.def = task[c].def /\ j.idx = task[c].idx
        /\ j.prog = task[c].prog /\ j.start = task[c].start /\ task[c].pc = "committing"
        /\ UNCHANGED <<row, disk, asked>>
    BY <1>0, <1>5 DEF ActivationArms, TaskType
  <2> HIDE DEF j
  <2>3. t \in Tasks /\ task'[t] = j
    BY <1>0, <2>1, NotTimers
  <2>4. Drives(t)'
    BY <2>2, <2>3, DrivesBy DEF Drives, DrivingStates
  <2>5. ASSUME Sole PROVE Fits(t, j, row, disk) /\ Asks(j, asked)
    BY <1>0, <1>2, <2>2, <2>5 DEF Fits, Asks, RowOf
  <2>6. QED
    BY <2>2, <2>3, <2>4, <2>5, DriverFits
<1>6. CASE ActivationFails(c)
  <2>1. task'[c] = Free /\ \A e \in Tasks \ {c} : task'[e] = task[e]
    BY <1>0, <1>6 DEF ActivationFails
  <2>2. ~Drives(c)'
    BY <2>1, FreeOK, DrivesBy DEF Drives, ActivatingStates, DrivingStates
  <2>3. QED
    BY <1>1, <2>1, <2>2, DriverMoves
<1>7. QED
  BY <1>3, <1>4, <1>5, <1>6

LEMMA RecordsTimer ==
  ASSUME Placed, Inv', BootAlone', NEW t \in Tasks, Sole' => Sole,
         TimerQuits(t) \/ TimerAdvances(t) \/ TimerUpdates(t) \/ TimerRearms(t)
           \/ TimerSwitchesOff(t) \/ TimerDeletes(t) \/ TimerFails(t)
  PROVE  Records'
<1>0. /\ task \in [Tasks -> TaskType] /\ t \in Timers /\ task[t] \in TaskType
      /\ task[t].pc \in DrivingStates
  BY DEF Placed, Inv, TypeOK, DrivingStates, TimerQuits, TimerAdvances, TimerUpdates,
         TimerRearms, TimerSwitchesOff, TimerDeletes, TimerFails, Due, AllAnswered
<1>1. Drives(t)
  BY <1>0, DrivesBy DEF Drives
<1>2. ASSUME Sole PROVE Fits(t, task[t], row, disk) /\ Asks(task[t], asked)
  BY <1>1, <1>2, Known
<1>3. CASE TimerQuits(t) \/ TimerFails(t)
  <2>1. \A e \in Tasks : task'[e] = task[e] \/ task'[e].pc = "free"
    BY <1>0, <1>3, FreeOK DEF TimerQuits, TimerFails, Ends
  <2>2. QED
    BY <1>3, <2>1, OthersStop DEF TimerQuits, TimerFails
<1>4. CASE TimerAdvances(t)
  <2> DEFINE j == Applying(task[t].prog, task[t].def, task[t].idx + 1,
                           task[t].start, task[t].end)
             m == task[t].def.mode[task[t].idx + 1]
  <2>1. /\ task' = [task EXCEPT ![t] = j] /\ UNCHANGED <<row, disk>>
        /\ asked' = (IF Reaches(m) THEN m ELSE asked) /\ task[t].pc = "sleeping"
    BY <1>4 DEF TimerAdvances, AskMode, Due
  <2>2. /\ j.pc = "calling" /\ j.sent = Reaches(m) /\ j.def.mode[j.idx] = m
        /\ RowBefore(j) = RowOf(task[t])
    BY <1>0 DEF Applying, RowBefore, RowOf, TaskType
  <2> HIDE DEF j, m
  <2>3. task'[t] = j /\ \A e \in Tasks \ {t} : task'[e] = task[e]
    BY <1>0, <2>1
  <2>4. ASSUME Sole PROVE Fits(t, j, row, disk) /\ Asks(j, asked')
    <3>1. Fits(t, j, row, disk)
      BY <1>0, <1>2, <2>1, <2>2, <2>4 DEF Fits
    <3>2. Asks(j, asked')
      BY <2>1, <2>2 DEF Asks
    <3>3. QED
      BY <3>1, <3>2
  <2>5. QED
    BY <1>1, <2>1, <2>3, <2>4, DriverMoves
<1>5. CASE TimerUpdates(t)
  <2> DEFINE j == [task[t] EXCEPT !.pc = "updating"]
  <2>1. /\ task' = [task EXCEPT ![t] = j] /\ asked' = asked
        /\ row' = (IF row = NoRow THEN NoRow ELSE [row EXCEPT !.idx = task[t].idx])
        /\ task[t].pc = "calling" /\ task[t].sent
    BY <1>5 DEF TimerUpdates, AllAnswered, Goto
  <2>2. /\ j.pc = "updating" /\ j.def = task[t].def /\ j.idx = task[t].idx
        /\ j.prog = task[t].prog /\ j.start = task[t].start
    BY <1>0 DEF TaskType
  <2> HIDE DEF j
  <2>3. task'[t] = j /\ \A e \in Tasks \ {t} : task'[e] = task[e]
    BY <1>0, <2>1
  <2>4. ASSUME Sole PROVE Fits(t, j, row', disk') /\ Asks(j, asked)
    <3>1. row = RowBefore(task[t])
      BY <1>0, <1>2, <2>1, <2>4 DEF Fits
    <3>2. row # NoRow
      <4>1. /\ task[t].prog \in ProgramIds /\ task[t].idx \in Steps(task[t].def)
            /\ task[t].def \in Definitions /\ task[t].start \in Int
        BY <1>0, <2>1, TypeTasks DEF Placed, Inv, NamesStep, TaskType
      <4>2. task[t].idx - 1 \in Nat
        BY <4>1, StepFacts
      <4>3. RowBefore(task[t]) \in RowType
        BY <4>1, <4>2 DEF RowBefore, RowType
      <4>4. QED
        BY <3>1, <4>3, RowAssumption
    <3>3. row' = RowOf(j)
      BY <2>1, <2>2, <3>1, <3>2 DEF RowBefore, RowOf
    <3>4. QED
      BY <1>0, <1>2, <2>1, <2>2, <2>4, <3>3 DEF Fits, Asks
  <2>5. QED
    BY <1>1, <2>1, <2>3, <2>4, DriverMoves
<1>6. CASE TimerRearms(t)
  <2> DEFINE j == [task[t] EXCEPT !.pc = "sleeping",
                     !.end = clock + Duration(task[t].def, task[t].idx)]
  <2>1. /\ task' = [task EXCEPT ![t] = j] /\ UNCHANGED <<row, disk, asked>>
        /\ task[t].pc = "committing"
    BY <1>6 DEF TimerRearms
  <2>2. /\ j.pc = "sleeping" /\ j.def = task[t].def /\ j.idx = task[t].idx
        /\ j.prog = task[t].prog /\ j.start = task[t].start
    BY <1>0 DEF TaskType
  <2> HIDE DEF j
  <2>3. task'[t] = j /\ \A e \in Tasks \ {t} : task'[e] = task[e]
    BY <1>0, <2>1
  <2>4. ASSUME Sole PROVE Fits(t, j, row, disk) /\ Asks(j, asked)
    BY <1>0, <1>2, <2>1, <2>2, <2>4 DEF Fits, Asks, RowOf
  <2>5. QED
    BY <1>1, <2>1, <2>3, <2>4, DriverMoves
<1>7. CASE TimerSwitchesOff(t)
  <2> DEFINE j == [task[t] EXCEPT !.pc = "off", !.sent = Reaches(Standby)]
  <2>1. /\ task' = [task EXCEPT ![t] = j] /\ UNCHANGED <<row, disk>>
        /\ task[t].pc = "sleeping"
    BY <1>7 DEF TimerSwitchesOff, Due
  <2>2. /\ j.pc = "off" /\ j.def = task[t].def /\ j.idx = task[t].idx
        /\ j.prog = task[t].prog /\ j.start = task[t].start
    BY <1>0 DEF TaskType
  <2> HIDE DEF j
  <2>3. task'[t] = j /\ \A e \in Tasks \ {t} : task'[e] = task[e]
    BY <1>0, <2>1
  <2>4. ASSUME Sole PROVE Fits(t, j, row, disk) /\ Asks(j, asked')
    BY <1>0, <1>2, <2>1, <2>2, <2>4 DEF Fits, Asks, RowOf
  <2>5. QED
    BY <1>1, <2>1, <2>3, <2>4, DriverMoves
<1>8. CASE TimerDeletes(t)
  <2>1. task'[t].pc = "deleting" /\ \A e \in Tasks \ {t} : task'[e] = task[e]
    BY <1>0, <1>8 DEF TimerDeletes, Goto, TaskType
  <2>2. ~Drives(t)'
    BY <1>0, <2>1, DrivesBy DEF Drives, DrivingStates
  <2>3. QED
    BY <1>1, <2>1, <2>2, DriverMoves
<1>9. QED
  BY <1>3, <1>4, <1>5, <1>6, <1>7, <1>8

-----------------------------------------------------------------------------
\* Steps that start, stop or cancel coroutines.

\* An activation begins with the device asked for the mode of its step.
LEMMA BegunFits ==
  ASSUME Inv', BootAlone', NEW c \in Tasks \ Timers, NEW STATE p, NEW STATE d,
         NEW STATE s, NEW STATE others, DOMAIN others = Tasks,
         Activate(c, p, d, s, others)
  PROVE  Records'
<1>1. PICK i \in Steps(d) :
        /\ task' = [others EXCEPT ![c] =
                      Applying(p, d, i, s, clock + Remaining(d, i, Delta(clock, s)))]
        /\ asked' = IF Reaches(d.mode[i]) THEN d.mode[i] ELSE asked
  BY DEF Activate, AskMode
<1> DEFINE j == Applying(p, d, i, s, clock + Remaining(d, i, Delta(clock, s)))
<1>2. task'[c] = j
  BY <1>1
<1>3. j.pc = "calling" /\ j.sent = Reaches(d.mode[i]) /\ j.def.mode[j.idx] = d.mode[i]
  BY DEF Applying
<1> HIDE DEF j
<1>4. Drives(c)'
  BY <1>2, <1>3, DrivesBy DEF Drives, ActivatingStates
<1>5. Fits(c, j, row', disk') /\ Asks(j, asked')
  BY <1>1, <1>3 DEF Fits, Asks
<1>6. QED
  BY <1>2, <1>4, <1>5, DriverFits

\* Nobody drives in a state whose tasks are silent.
LEMMA SilentFits ==
  ASSUME Inv', Sole' => Silent(task')
  PROVE  Records'
<1>1. Sole' => \A c \in Tasks : ~Drives(c)'
  BY DrivesBy DEF Silent, Drives
<1>2. QED
  BY <1>1, NobodyFits

LEMMA RecordsClient ==
  ASSUME Placed, Inv', BootAlone', ClientStep
  PROVE  Records'
<1>0. DOMAIN task = Tasks /\ phase = "up" /\ phase' = phase
  BY DEF Placed, Inv, TypeOK, ClientStep, ActivateProgram, StopProgram, EditProgram
<1>1. ASSUME NEW r \in Requests, NEW p \in ProgramIds, NEW offset \in StartOffsets,
             ActivateProgram(r, p, offset)
      PROVE  Records'
  BY <1>0, <1>1, NotTimers, BegunFits DEF ActivateProgram
<1>2. ASSUME NEW r \in Requests, StopProgram(r)
      PROVE  Records'
  <2>1. r \in Tasks \ Timers /\ task' = [AfterCancel EXCEPT ![r].pc = "stopping"]
    BY <1>2, NotTimers DEF StopProgram
  <2>2. AfterCancel \in [Tasks -> TaskType]
    BY FreeOK DEF Placed, Inv, TypeOK, AfterCancel, TaskOK
  <2>3. task'[r].pc = "stopping" /\ \A e \in Tasks \ {r} : task'[e] = AfterCancel[e]
    BY <2>1, <2>2 DEF TaskType
  <2>4. ~raced' => Silent(AfterCancel)
    BY <1>2, CancelKinds DEF StopProgram, Placed
  <2>5. ~raced' => Silent(task')
    BY <2>1, <2>3, <2>4 DEF Silent, ActivatingStates
  <2>6. Sole' => ~raced'
    BY <1>0 DEF Sole
  <2>7. QED
    BY <2>5, <2>6, SilentFits
<1>3. ASSUME NEW p \in ProgramIds, NEW d \in Catalogue \cup {Absent}, EditProgram(p, d)
      PROVE  Records'
  BY <1>0, <1>3, OthersStop DEF EditProgram, Sole
<1>4. QED
  BY <1>1, <1>2, <1>3 DEF ClientStep

LEMMA RecordsPoll ==
  ASSUME Placed, Inv', BootAlone', PollStep
  PROVE  Records'
<1>0. phase # "booting" /\ phase' = phase
  BY DEF Placed, BootAlone, PollStep, PollSkipsMinute, PollWakes, PollAsks, PollSkips,
         PollActivates, PollCandidate
<1>1. CASE UNCHANGED <<row, disk, asked, task, raced>>
  BY <1>0, <1>1, OthersStop DEF Sole
<1>2. ASSUME NEW p \in ProgramIds, PollActivates(p)
      PROVE  Records'
  <2>1. CASE Activate("poll", p, poll.list[p], clock, AfterCancel)
    BY <2>1, CancelKinds, NotTimers, BegunFits DEF Placed
  <2>2. CASE task' = AfterCancel
    <3>1. ~raced' => Silent(AfterCancel)
      BY <1>2, CancelKinds DEF PollActivates, Drives, Placed
    <3>2. Sole' => ~raced'
      BY <1>0 DEF Sole
    <3>3. QED
      BY <2>2, <3>1, <3>2, SilentFits
  <2>3. QED
    BY <1>2, <2>1, <2>2 DEF PollActivates
<1>3. QED
  BY <1>1, <1>2 DEF PollStep, PollSkipsMinute, PollWakes, PollAsks, PollSkips

LEMMA RecordsProcess ==
  ASSUME Placed, Inv', BootAlone',
         \/ StartStep \/ OtherCommit \/ Crash \/ Shutdown \/ Exit
         \/ LinkDrops \/ LinkReturns \/ Tick
  PROVE  Records'
<1>0. DOMAIN task = Tasks
  BY DEF Placed, Inv, TypeOK
<1>1. CASE Crash \/ Exit \/ StartRaises
  <2>1. \A c \in Tasks : task'[c].pc = "free"
    BY <1>1, FreeOK DEF Crash, Exit, StartRaises, ProcessEnds
  <2>2. QED
    BY <2>1, SilentFits DEF Silent, ActivatingStates, DrivingStates
<1>2. CASE Shutdown
  <2>1. \A e \in Tasks : task'[e] = task[e] \/ task'[e].pc = "free"
    BY <1>0, <1>2, FreeOK, NotTimers DEF Shutdown, AfterCancel
  <2>2. QED
    BY <1>2, <2>1, OthersStop DEF Shutdown, Sole
<1>3. CASE StartsClean
  <2>1. \A c \in Tasks : task'[c].pc = "free"
    BY <1>3 DEF StartsClean, Placed, Inv, Quiet
  <2>2. QED
    BY <2>1, SilentFits DEF Silent, ActivatingStates, DrivingStates
<1>4. CASE Resume
  BY <1>0, <1>4, NotTimers, BegunFits DEF Resume
<1>5. CASE Boot \/ OtherCommit \/ LinkDrops \/ LinkReturns \/ Tick
  <2>1. /\ UNCHANGED <<row, asked, task, raced>> /\ (disk' = disk \/ disk' = row)
        /\ phase' = phase \/ phase' # "booting"
    BY <1>5 DEF Boot, OtherCommit, LinkDrops, LinkReturns, Tick
  <2>2. QED
    BY <2>1, OthersStop DEF Sole
<1>6. QED
  BY <1>1, <1>2, <1>3, <1>4, <1>5 DEF StartStep

LEMMA InitPlaced == Init => Placed
<1> SUFFICES ASSUME Init PROVE Placed
  OBVIOUS
<1>1. \A c \in Tasks : task[c].pc = "free" /\ ~Drives(c)
  BY FreeOK, DrivesBy DEF Init, Drives, ActivatingStates, DrivingStates
<1>2. Records
  BY <1>1, InitInv, IdleFits DEF Inv, Records
<1>3. QED
  BY <1>2, InitInv DEF Placed, BootAlone, Init

LEMMA NextPlaced == Placed /\ [Next]_vars => Placed'
<1> SUFFICES ASSUME Placed, [Next]_vars PROVE Placed'
  OBVIOUS
<1>1. Inv' /\ BootAlone'
  BY NextInv, BootAloneStep DEF Placed
<1>2. CASE ClientStep
  BY <1>1, <1>2, RecordsClient DEF Placed
<1>3. ASSUME NEW c \in Tasks, TaskStep(c) PROVE Placed'
  <2>1. Sole' => Sole
    BY <1>3, TaskMoves DEF Placed, Inv, Sole
  <2>2. QED
    BY <1>1, <1>3, <2>1, RecordsShared, RecordsActivation, RecordsTimer
    DEF Placed, TaskStep
<1>4. CASE PollStep
  BY <1>1, <1>4, RecordsPoll DEF Placed
<1>5. CASE \/ StartStep \/ OtherCommit \/ Crash \/ Shutdown \/ Exit
           \/ LinkDrops \/ LinkReturns \/ Tick
  BY <1>1, <1>5, RecordsProcess DEF Placed
<1>6. CASE UNCHANGED vars
  BY <1>1, <1>6, OthersStop DEF vars, env, Sole, Placed
<1>7. QED
  BY <1>2, <1>3, <1>4, <1>5, <1>6 DEF Next

\* For all programs, clients, crashes and delays: while a step runs its course
\* the device, the row and the committed row agree on it.
THEOREM StepInForceHolds == Spec => []StepInForce
<1>1. Placed => StepInForce
  <2> SUFFICES ASSUME Placed, ~raced, NEW t \in Timers, task[t].pc = "sleeping"
               PROVE  /\ asked = task[t].def.mode[task[t].idx]
                      /\ row = RowOf(task[t])
                      /\ disk = row
    BY DEF StepInForce
  <2>1. t \in Tasks /\ Drives(t)
    BY NotTimers, DrivesBy DEF Drives, DrivingStates
  <2>2. Fits(t, task[t], row, disk) /\ Asks(task[t], asked)
    BY <2>1, Known DEF Sole
  <2>3. QED
    BY <2>2 DEF Fits, Asks
<1>2. QED
  BY InitPlaced, NextPlaced, <1>1, PTL DEF Spec

\* And a step timer that works finds the sequence it works for in the row.
THEOREM RowNamesDriverHolds == Spec => []RowNamesDriver
<1>1. Placed => RowNamesDriver
  <2> SUFFICES ASSUME Placed, ~raced, NEW t \in Timers, Driving(t)
               PROVE  /\ row # NoRow
                      /\ row.prog = task[t].prog /\ row.start = task[t].start
                      /\ row.idx \in {task[t].idx, task[t].idx - 1}
    BY DEF RowNamesDriver
  <2>1. t \in Tasks /\ task[t] \in TaskType /\ task[t].pc \in DrivingStates
    BY NotTimers, DrivesBy DEF Placed, Inv, TypeOK
  <2>2. row = RowOf(task[t]) \/ row = RowBefore(task[t])
    BY <2>1, Known DEF Sole, Fits, DrivingStates
  <2>3. RowOf(task[t]) \in RowType /\ RowBefore(task[t]) \in RowType
    <3>1. /\ task[t].prog \in ProgramIds /\ task[t].idx \in Steps(task[t].def)
          /\ task[t].def \in Definitions /\ task[t].start \in Int
      BY <2>1, TypeTasks DEF Placed, Inv, NamesStep, TaskType, DrivingStates
    <3>2. task[t].idx - 1 \in Nat /\ task[t].idx \in Nat
      BY <3>1, StepFacts
    <3>3. QED
      BY <3>1, <3>2 DEF RowBefore, RowOf, RowType
  <2>4. QED
    BY <2>2, <2>3, RowAssumption DEF RowOf, RowBefore
<1>2. QED
  BY InitPlaced, NextPlaced, <1>1, PTL DEF Spec

\* start() ends without a row, or with a step timer that works for it.
THEOREM BootLeavesNoOrphan == Spec => BootLeavesNoOrphanRow
<1>1. ASSUME Placed, [Next]_vars, phase' = "up", row' # NoRow, ~RowIsDriven',
             phase \in {"starting", "booting"}
      PROVE  FALSE
  <2>1. CASE \E c \in Tasks : TaskStep(c)
    <3>1. PICK c \in Tasks : TaskStep(c)
      BY <2>1
    <3>2. c = "boot" /\ c \notin Timers /\ phase = "booting"
      BY <1>1, <3>1, TaskMoves, NotTimers DEF Placed, Inv, Quiet
    <3>3. ActivationArms(c) \/ ActivationFails(c)
      BY <1>1, <3>1, <3>2 DEF TaskStep, Calls, Commits, CommitsAndEnds,
         ActivationDeletes, ActivationInserts, TimerQuits, TimerAdvances, TimerUpdates,
         TimerRearms, TimerSwitchesOff, TimerDeletes, TimerFails, Due
    <3>4. CASE ActivationFails(c)
      BY <1>1, <3>2, <3>4 DEF ActivationFails, AfterFailure
    <3>5. CASE ActivationArms(c)
      <4> DEFINE j == [task[c] EXCEPT !.pc = "sleeping"]
      <4>1. PICK t \in Timers : task' = [task EXCEPT ![t] = j, ![c] = Free]
        BY <3>5 DEF ActivationArms, FreeTimers
      <4>2. task \in [Tasks -> TaskType] /\ t \in Tasks
        BY <1>1, NotTimers DEF Placed, Inv, TypeOK
      <4>3. j.pc = "sleeping" /\ RowOf(j) = RowOf(task[c]) /\ task[c].pc = "committing"
        BY <3>5, <4>2 DEF ActivationArms, TaskType, RowOf
      <4> HIDE DEF j
      <4>4. task'[t] = j
        BY <3>2, <4>1, <4>2
      <4>5. row' = RowOf(j)
        BY <1>1, <3>2, <3>5, <4>3, Known DEF Sole, Fits, ActivationArms
      <4>6. Driving(t)'
        BY <4>3, <4>4, DrivesBy DEF DrivingStates
      <4>7. QED
        BY <1>1, <4>4, <4>5, <4>6 DEF RowIsDriven
    <3>6. QED
      BY <3>3, <3>4, <3>5
  <2>2. CASE StartStep
    BY <1>1, <2>2 DEF StartStep, Boot, StartsClean, StartRaises, Resume, ProcessEnds
  <2>3. CASE ClientStep \/ Crash \/ Shutdown \/ Exit
    BY <1>1, <2>3 DEF ClientStep, ActivateProgram, StopProgram, EditProgram,
                      Crash, Shutdown, Exit, ProcessEnds
  <2>4. CASE PollStep \/ OtherCommit \/ LinkDrops \/ LinkReturns \/ Tick \/ UNCHANGED vars
    BY <1>1, <2>4 DEF PollStep, PollSkipsMinute, PollWakes, PollAsks, PollSkips,
                      PollActivates, OtherCommit, LinkDrops, LinkReturns, Tick, vars
  <2>5. QED
    BY <1>1, <2>1, <2>2, <2>3, <2>4 DEF Next
<1>2. Placed /\ [Next]_vars =>
        [phase' = "up" /\ row' # NoRow /\ ~RowIsDriven'
           => phase \notin {"starting", "booting"}]_vars
  BY <1>1
<1>3. QED
  BY InitPlaced, NextPlaced, <1>2, PTL DEF Spec, BootLeavesNoOrphanRow

-----------------------------------------------------------------------------
(***************************************************************************)
(* NeverEarly, for clients that do not start in the future.  What a timer  *)
(* keeps across its wake-ups is that the step it names has come            *)
(* (Reached), and what a sleeping one or an activation keeps is that its   *)
(* end is not too soon (EndsLate); a restart takes its start from the row. *)
(***************************************************************************)
Reached(j, now) == j.start + j.def.from[j.idx] =< now
EndsLate(j) == j.end >= j.start + j.def.from[j.idx + 1]

WaitsToEnd(c, pc) == pc = "sleeping" \/ (c \notin Timers /\ pc \in ActivatingStates)

TaskOnTime(c, j, now) ==
  /\ j.pc \notin {"free", "stopping"} => Reached(j, now)
  /\ WaitsToEnd(c, j.pc) => EndsLate(j)

RowOnTime(r, now, clean) ==
  r # NoRow => /\ r.start =< now
               /\ clean => r.idx \in Steps(r.def) /\ Reached(r, now)

TasksOnTime == \A c \in Tasks : TaskOnTime(c, task[c], clock)

RowsOnTime == RowOnTime(row, clock, ~raced) /\ RowOnTime(disk, clock, ~raced)

Timely == Placed /\ TasksOnTime /\ RowsOnTime

\* The numbers that a task at work is compared with.
LEMMA Numbers ==
  ASSUME TypeOK, NEW c \in Tasks, task[c].pc \notin {"free", "stopping"}
  PROVE  /\ task[c] \in TaskType /\ task[c].def \in Definitions
         /\ task[c].idx \in Steps(task[c].def)
         /\ task[c].idx \in Nat /\ task[c].start \in Int /\ task[c].end \in Int
         /\ task[c].def.from[task[c].idx] \in Nat
         /\ task[c].def.from[task[c].idx + 1] \in Nat
         /\ clock \in Int
<1>1. /\ task[c] \in TaskType /\ task[c].idx \in Steps(task[c].def)
      /\ task[c].def \in Definitions /\ clock \in Int
      /\ task[c].idx \in Nat /\ task[c].start \in Int /\ task[c].end \in Int
  BY TypeTasks DEF NamesStep, TaskType
<1>2. QED
  BY <1>1, StepFacts

\* A coroutine that keeps its step and its end stays on time.
LEMMA SameStep ==
  ASSUME NEW c, NEW j, NEW k, NEW now, TaskOnTime(c, j, now),
         k.start = j.start /\ k.def = j.def /\ k.idx = j.idx /\ k.end = j.end,
         j.pc \notin {"free", "stopping"},
         WaitsToEnd(c, k.pc) => WaitsToEnd(c, j.pc)
  PROVE  TaskOnTime(c, k, now)
BY DEF TaskOnTime, Reached, EndsLate

LEMMA FreeOnTime == \A c, now : TaskOnTime(c, Free, now)
BY FreeOK DEF TaskOnTime, WaitsToEnd, ActivatingStates

\* One coroutine has moved.
LEMMA OneOnTime ==
  ASSUME TasksOnTime, TypeOK, clock' = clock, NEW c \in Tasks, NEW STATE j,
         task' = [task EXCEPT ![c] = j], TaskOnTime(c, j, clock)
  PROVE  TasksOnTime'
<1>1. task'[c] = j /\ \A e \in Tasks \ {c} : task'[e] = task[e]
  BY DEF TypeOK
<1>2. QED
  BY <1>1 DEF TasksOnTime

\* An activation finds the step that is running, and its end.
LEMMA BeginsOnTime ==
  ASSUME TypeOK, NEW c \in Tasks, NEW STATE p, NEW STATE d, NEW STATE s,
         NEW STATE others, DOMAIN others = Tasks, clock' = clock,
         \A e \in Tasks : TaskOnTime(e, others[e], clock),
         d \in Definitions, s \in Int, s =< clock,
         Activate(c, p, d, s, others)
  PROVE  TasksOnTime'
<1>1. PICK i \in Steps(d) :
        /\ IsStepAt(d, i, Delta(clock, s))
        /\ task' = [others EXCEPT ![c] =
                      Applying(p, d, i, s, clock + Remaining(d, i, Delta(clock, s)))]
  BY DEF Activate
<1> DEFINE j == Applying(p, d, i, s, clock + Remaining(d, i, Delta(clock, s)))
<1>2. clock \in Int /\ d.from[i] \in Nat /\ d.from[i + 1] \in Nat
  BY StepFacts, TypeTasks
<1>3. Delta(clock, s) = clock - s
  BY <1>2 DEF Delta
<1>4. j.start = s /\ j.def = d /\ j.idx = i /\ j.end = s + d.from[i + 1]
  BY <1>2, <1>3 DEF Applying, Remaining
<1>5. s + d.from[i] =< clock
  BY <1>1, <1>2, <1>3 DEF IsStepAt
<1>6. task' = [others EXCEPT ![c] = j]
  BY <1>1
<1> HIDE DEF j
<1>7. TaskOnTime(c, j, clock)
  BY <1>2, <1>4, <1>5 DEF TaskOnTime, Reached, EndsLate
<1>8. task'[c] = j /\ \A e \in Tasks \ {c} : task'[e] = others[e]
  BY <1>6
<1>9. QED
  BY <1>7, <1>8 DEF TasksOnTime

\* The row of an activation names a step that has come.
LEMMA OwnRowOnTime ==
  ASSUME TypeOK, TasksOnTime, NEW c \in Tasks, task[c].pc \notin {"free", "stopping"}
  PROVE  \A b : RowOnTime(RowOf(task[c]), clock, b)
<1> DEFINE j == task[c]
           r == RowOf(task[c])
<1>1. /\ j.idx \in Steps(j.def) /\ j.start \in Int /\ clock \in Int
      /\ j.def.from[j.idx] \in Nat /\ j.start + j.def.from[j.idx] =< clock
  BY Numbers DEF TasksOnTime, TaskOnTime, Reached
<1>2. r.start = j.start /\ r.def = j.def /\ r.idx = j.idx
  BY DEF RowOf
<1>3. r.start =< clock
  BY <1>1, <1>2
<1>4. QED
  BY <1>1, <1>2, <1>3 DEF RowOnTime, Reached

\* The rows after a step that writes none of its own.
LEMMA RowsKept ==
  ASSUME RowsOnTime, clock' = clock, raced => raced',
         row' \in {row, disk, NoRow}, disk' \in {row, disk, NoRow}
  PROVE  RowsOnTime'
BY DEF RowsOnTime, RowOnTime

-----------------------------------------------------------------------------
LEMMA TimeTask ==
  ASSUME Timely, NEW c \in Tasks, TaskStep(c)
  PROVE  TasksOnTime' /\ RowsOnTime'
<1>0. /\ TypeOK /\ Kinds /\ TasksOnTime /\ RowsOnTime /\ clock \in Int
      /\ task \in [Tasks -> TaskType] /\ task[c] \in TaskType
      /\ TaskOnTime(c, task[c], clock)
  BY TypeTasks DEF Timely, Placed, Inv, TypeOK, TasksOnTime
<1>1. clock' = clock /\ raced' = raced
  BY DEF env, TaskStep, Calls, Commits, CommitsAndEnds, ActivationDeletes,
         ActivationInserts, ActivationArms, ActivationFails, TimerQuits, TimerAdvances,
         TimerUpdates, TimerRearms, TimerSwitchesOff, TimerDeletes, TimerFails
<1>2. CASE CommitsAndEnds(c) \/ ActivationFails(c) \/ TimerQuits(c) \/ TimerFails(c)
  <2>1. task' = [task EXCEPT ![c] = Free] /\ row' \in {row, NoRow}
        /\ disk' \in {row, disk, NoRow}
    BY <1>2 DEF CommitsAndEnds, ActivationFails, TimerQuits, TimerFails, Ends, AfterFailure
  <2>2. QED
    BY <1>0, <1>1, <2>1, FreeOnTime, OneOnTime, RowsKept
<1>3. ASSUME NEW pc, Goto(c, pc), task[c].pc \notin {"free", "stopping"},
             WaitsToEnd(c, pc) => WaitsToEnd(c, task[c].pc)
      PROVE  TasksOnTime'
  <2> DEFINE j == [task[c] EXCEPT !.pc = pc]
  <2>1. task' = [task EXCEPT ![c] = j]
    BY <1>3 DEF Goto
  <2>2. /\ j.pc = pc /\ j.start = task[c].start /\ j.def = task[c].def
        /\ j.idx = task[c].idx /\ j.end = task[c].end
    BY <1>0 DEF TaskType
  <2> HIDE DEF j
  <2>3. TaskOnTime(c, j, clock)
    BY <1>0, <1>3, <2>2, SameStep
  <2>4. QED
    BY <1>0, <1>1, <2>1, <2>3, OneOnTime
<1>4. CASE Calls(c)
  <2> DEFINE j == [task[c] EXCEPT !.left = @ - 1, !.sent = link]
  <2>1. task' = [task EXCEPT ![c] = j] /\ task[c].pc = "calling"
    BY <1>4 DEF Calls
  <2>2. /\ j.pc = task[c].pc /\ j.start = task[c].start /\ j.def = task[c].def
        /\ j.idx = task[c].idx /\ j.end = task[c].end
    BY <1>0 DEF TaskType
  <2> HIDE DEF j
  <2>3. TaskOnTime(c, j, clock)
    BY <1>0, <2>1, <2>2, SameStep
  <2>4. TasksOnTime'
    BY <1>0, <1>1, <2>1, <2>3, OneOnTime
  <2>5. QED
    BY <1>0, <1>1, <1>4, <2>4, RowsKept DEF Calls
<1>5. CASE Commits(c)
  <2>1. TasksOnTime'
    BY <1>0, <1>3, <1>5 DEF Commits, Kinds, WaitsToEnd, ActivatingStates
  <2>2. QED
    BY <1>0, <1>1, <1>5, <2>1, RowsKept DEF Commits
<1>6. CASE ActivationDeletes(c) \/ TimerDeletes(c)
  <2>1. TasksOnTime'
    BY <1>3, <1>6
    DEF ActivationDeletes, TimerDeletes, AllAnswered, Due, WaitsToEnd, ActivatingStates
  <2>2. QED
    BY <1>0, <1>1, <1>6, <2>1, RowsKept DEF ActivationDeletes, TimerDeletes
<1>7. CASE ActivationInserts(c)
  <2>1. TasksOnTime'
    BY <1>3, <1>7 DEF ActivationInserts, WaitsToEnd, ActivatingStates
  <2>2. RowOnTime(row', clock, ~raced) /\ disk' = disk
    BY <1>0, <1>7, OwnRowOnTime DEF ActivationInserts
  <2>3. QED
    BY <1>0, <1>1, <2>1, <2>2 DEF RowsOnTime
<1>8. CASE ActivationArms(c)
  <2> DEFINE j == [task[c] EXCEPT !.pc = "sleeping"]
  <2>1. PICK t \in Timers : task' = [task EXCEPT ![t] = j, ![c] = Free]
    BY <1>8 DEF ActivationArms, FreeTimers
  <2>2. /\ j.start = task[c].start /\ j.def = task[c].def
        /\ j.idx = task[c].idx /\ j.end = task[c].end /\ c \notin Timers
        /\ task[c].pc = "committing" /\ UNCHANGED <<row, disk>>
    BY <1>0, <1>8 DEF ActivationArms, TaskType
  <2> HIDE DEF j
  <2>3. /\ t \in Tasks /\ task'[t] = j /\ task'[c] = Free
        /\ \A e \in Tasks \ {c, t} : task'[e] = task[e]
    BY <1>0, <2>1, <2>2, NotTimers
  <2>4. TaskOnTime(t, j, clock)
    BY <1>0, <2>2 DEF TaskOnTime, WaitsToEnd, ActivatingStates, Reached, EndsLate
  <2>5. TasksOnTime'
    BY <1>0, <1>1, <2>3, <2>4, FreeOnTime DEF TasksOnTime
  <2>6. QED
    BY <1>0, <1>1, <2>2, <2>5, RowsKept
<1>9. CASE TimerAdvances(c)
  <2> DEFINE j == Applying(task[c].prog, task[c].def, task[c].idx + 1,
                           task[c].start, task[c].end)
  <2>1. /\ task' = [task EXCEPT ![c] = j] /\ c \in Timers /\ task[c].pc = "sleeping"
        /\ task[c].end =< clock /\ UNCHANGED <<row, disk>>
    BY <1>9 DEF TimerAdvances, Due
  <2>2. /\ j.pc = "calling" /\ j.start = task[c].start /\ j.def = task[c].def
        /\ j.idx = task[c].idx + 1
    BY DEF Applying
  <2> HIDE DEF j
  <2>3. task[c].end >= task[c].start + task[c].def.from[task[c].idx + 1]
    BY <1>0, <2>1 DEF TaskOnTime, WaitsToEnd, EndsLate
  <2>4. Reached(j, clock)
    BY <1>0, <2>1, <2>2, <2>3, Numbers DEF Reached
  <2>5. TaskOnTime(c, j, clock)
    BY <2>1, <2>2, <2>4 DEF TaskOnTime, WaitsToEnd
  <2>6. TasksOnTime'
    BY <1>0, <1>1, <2>1, <2>5, OneOnTime
  <2>7. QED
    BY <1>0, <1>1, <2>1, <2>6, RowsKept
<1>10. CASE TimerUpdates(c)
  <2>1. c \in Timers /\ task[c].pc = "calling" /\ disk' = disk
        /\ row' = IF row = NoRow THEN NoRow ELSE [row EXCEPT !.idx = task[c].idx]
    BY <1>10 DEF TimerUpdates, AllAnswered
  <2>2. TasksOnTime'
    BY <1>3, <1>10, <2>1 DEF TimerUpdates, WaitsToEnd
  <2>3. row # NoRow => row'.start = row.start
    <3>1. row # NoRow => row \in RowType
      BY <1>0 DEF TypeOK
    <3>2. QED
      BY <2>1, <3>1 DEF RowType
  <2>4. ASSUME ~raced, row # NoRow PROVE row' = RowOf(task[c])
    <3>1. row = RowBefore(task[c])
      BY <2>1, <2>4, Known DEF Sole, Fits, Timely
    <3>2. QED
      BY <2>1, <2>4, <3>1 DEF RowBefore, RowOf
  <2>5. RowOnTime(row', clock, ~raced)
    <3>1. CASE raced \/ row = NoRow
      BY <1>0, <2>1, <2>3, <3>1 DEF RowsOnTime, RowOnTime
    <3>2. CASE ~raced /\ row # NoRow
      BY <1>0, <2>1, <2>4, <3>2, OwnRowOnTime
    <3>3. QED
      BY <3>1, <3>2
  <2>6. QED
    BY <1>0, <1>1, <2>1, <2>2, <2>5 DEF RowsOnTime
<1>11. CASE TimerRearms(c)
  <2> DEFINE e == clock + Duration(task[c].def, task[c].idx)
             j == [task[c] EXCEPT !.pc = "sleeping", !.end = e]
  <2>1. /\ task' = [task EXCEPT ![c] = j] /\ task[c].pc = "committing"
        /\ UNCHANGED <<row, disk>>
    BY <1>11 DEF TimerRearms
  <2>2. /\ j.pc = "sleeping" /\ j.start = task[c].start /\ j.def = task[c].def
        /\ j.idx = task[c].idx /\ j.end = e
    BY <1>0 DEF TaskType
  <2>3. e >= task[c].start + task[c].def.from[task[c].idx + 1]
        /\ Reached(task[c], clock)
    BY <1>0, <2>1, Numbers DEF TaskOnTime, Reached, Duration
  <2> HIDE DEF j, e
  <2>4. TaskOnTime(c, j, clock)
    BY <2>2, <2>3 DEF TaskOnTime, Reached, EndsLate
  <2>5. TasksOnTime'
    BY <1>0, <1>1, <2>1, <2>4, OneOnTime
  <2>6. QED
    BY <1>0, <1>1, <2>1, <2>5, RowsKept
<1>12. CASE TimerSwitchesOff(c)
  <2> DEFINE j == [task[c] EXCEPT !.pc = "off", !.sent = Reaches(Standby)]
  <2>1. /\ task' = [task EXCEPT ![c] = j] /\ task[c].pc = "sleeping" /\ c \in Timers
        /\ UNCHANGED <<row, disk>>
    BY <1>12 DEF TimerSwitchesOff, Due
  <2>2. /\ j.pc = "off" /\ j.start = task[c].start /\ j.def = task[c].def
        /\ j.idx = task[c].idx /\ j.end = task[c].end
    BY <1>0 DEF TaskType
  <2> HIDE DEF j
  <2>3. TaskOnTime(c, j, clock)
    BY <1>0, <2>1, <2>2, SameStep DEF WaitsToEnd
  <2>4. TasksOnTime'
    BY <1>0, <1>1, <2>1, <2>3, OneOnTime
  <2>5. QED
    BY <1>0, <1>1, <2>1, <2>4, RowsKept
<1>13. QED
  BY <1>2, <1>4, <1>5, <1>6, <1>7, <1>8, <1>9, <1>10, <1>11, <1>12 DEF TaskStep

\* Cancelling the handle's timer keeps the others on time.
LEMMA CancelOnTime ==
  TasksOnTime => /\ DOMAIN AfterCancel = Tasks
                 /\ \A e \in Tasks : TaskOnTime(e, AfterCancel[e], clock)
BY FreeOnTime DEF AfterCancel, TasksOnTime

LEMMA TimeClient ==
  ASSUME Timely, ClientStep, StartOffsets \subseteq Nat
  PROVE  TasksOnTime' /\ RowsOnTime'
<1>0. TypeOK /\ TasksOnTime /\ RowsOnTime /\ clock \in Int /\ DOMAIN task = Tasks
  BY TypeTasks DEF Timely, Placed, Inv, TypeOK
<1>1. ASSUME NEW r \in Requests, NEW p \in ProgramIds, NEW offset \in StartOffsets,
             ActivateProgram(r, p, offset)
      PROVE  TasksOnTime' /\ RowsOnTime'
  <2>1. /\ programs[p] \in Definitions /\ clock - offset \in Int
        /\ clock - offset =< clock /\ clock' = clock
    BY <1>0, <1>1 DEF ActivateProgram, TypeOK, Definitions, env
  <2>2. TasksOnTime'
    BY <1>0, <1>1, <2>1, NotTimers, BeginsOnTime DEF ActivateProgram, TasksOnTime
  <2>3. QED
    BY <1>0, <1>1, <2>1, <2>2, RowsKept DEF ActivateProgram
<1>2. ASSUME NEW r \in Requests, StopProgram(r)
      PROVE  TasksOnTime' /\ RowsOnTime'
  <2>1. /\ r \in Tasks /\ clock' = clock /\ task' = [AfterCancel EXCEPT ![r].pc = "stopping"]
    BY <1>2, NotTimers DEF StopProgram, env
  <2>2. AfterCancel \in [Tasks -> TaskType]
    BY <1>0, FreeOK DEF TypeOK, AfterCancel, TaskOK
  <2>3. task'[r].pc = "stopping" /\ \A e \in Tasks \ {r} : task'[e] = AfterCancel[e]
    BY <2>1, <2>2 DEF TaskType
  <2>4. TaskOnTime(r, task'[r], clock)
    BY <2>3 DEF TaskOnTime, WaitsToEnd, ActivatingStates
  <2>5. TasksOnTime'
    BY <1>0, <2>1, <2>3, <2>4, CancelOnTime DEF TasksOnTime
  <2>6. QED
    BY <1>0, <1>2, <2>1, <2>5, RowsKept DEF StopProgram
<1>3. ASSUME NEW p \in ProgramIds, NEW d \in Catalogue \cup {Absent}, EditProgram(p, d)
      PROVE  TasksOnTime' /\ RowsOnTime'
  <2>1. UNCHANGED <<task, clock, raced, row>> /\ disk' = row
    BY <1>3 DEF EditProgram
  <2>2. QED
    BY <1>0, <2>1, RowsKept DEF TasksOnTime
<1>4. QED
  BY <1>1, <1>2, <1>3 DEF ClientStep

LEMMA TimePoll ==
  ASSUME Timely, PollStep
  PROVE  TasksOnTime' /\ RowsOnTime'
<1>0. TypeOK /\ TasksOnTime /\ RowsOnTime /\ clock \in Int
  BY TypeTasks DEF Timely, Placed, Inv
<1>1. UNCHANGED <<clock, row, disk>>
  BY DEF PollStep, PollSkipsMinute, PollWakes, PollAsks, PollSkips, PollActivates, env
<1>2. CASE UNCHANGED <<task, raced>>
  BY <1>0, <1>1, <1>2, RowsKept DEF TasksOnTime
<1>3. ASSUME NEW p \in ProgramIds, PollActivates(p)
      PROVE  TasksOnTime' /\ RowsOnTime'
  <2>1. poll.list[p] \in Definitions
    BY <1>0, <1>3 DEF PollActivates, PollCandidate, TypeOK, PollType, Definitions
  <2>2. raced => raced'
    BY <1>3 DEF PollActivates
  <2>3. CASE Activate("poll", p, poll.list[p], clock, AfterCancel)
    BY <1>0, <1>1, <2>1, <2>2, <2>3, NotTimers, CancelOnTime, BeginsOnTime, RowsKept
  <2>4. CASE task' = AfterCancel
    BY <1>0, <1>1, <2>2, <2>4, CancelOnTime, RowsKept DEF TasksOnTime
  <2>5. QED
    BY <1>3, <2>3, <2>4 DEF PollActivates
<1>4. QED
  BY <1>2, <1>3 DEF PollStep, PollSkipsMinute, PollWakes, PollAsks, PollSkips

LEMMA TimeProcess ==
  ASSUME Timely,
         \/ StartStep \/ OtherCommit \/ Crash \/ Shutdown \/ Exit
         \/ LinkDrops \/ LinkReturns \/ Tick
  PROVE  TasksOnTime' /\ RowsOnTime'
<1>0. TypeOK /\ TasksOnTime /\ RowsOnTime /\ clock \in Int /\ DOMAIN task = Tasks
  BY TypeTasks DEF Timely, Placed, Inv, TypeOK
<1>1. CASE Crash \/ Exit \/ StartRaises
  <2>1. ProcessEnds
    BY <1>1 DEF Crash, Exit, StartRaises
  <2>2. TasksOnTime'
    BY <2>1, FreeOnTime DEF ProcessEnds, TasksOnTime
  <2>3. QED
    BY <1>0, <2>1, <2>2, RowsKept DEF ProcessEnds, env
<1>2. CASE Shutdown
  <2>1. task' = [AfterCancel EXCEPT !["poll"] = Free]
        /\ UNCHANGED <<clock, row, disk, raced>>
    BY <1>2 DEF Shutdown, env
  <2>2. \A e \in Tasks : task'[e] = AfterCancel[e] \/ task'[e] = Free
    BY <1>0, <2>1, CancelOnTime, NotTimers
  <2>3. TasksOnTime'
    BY <1>0, <2>1, <2>2, CancelOnTime, FreeOnTime DEF TasksOnTime
  <2>4. QED
    BY <1>0, <2>1, <2>3, RowsKept
<1>3. CASE Resume
  <2>1. row \in RowType /\ RowsProgram \in Definitions /\ row.start =< clock
    BY <1>0, <1>3
    DEF Resume, TypeOK, RowsProgram, RowType, Definitions, RowsOnTime, RowOnTime
  <2>2. row.start \in Int /\ clock' = clock
    BY <1>3, <2>1 DEF RowType, Resume, env
  <2>3. TasksOnTime'
    BY <1>0, <1>3, <2>1, <2>2, NotTimers, BeginsOnTime DEF Resume, TasksOnTime
  <2>4. QED
    BY <1>0, <1>3, <2>2, <2>3, RowsKept DEF Resume
<1>4. CASE Boot \/ StartsClean \/ OtherCommit \/ LinkDrops \/ LinkReturns
  <2>1. /\ UNCHANGED <<task, clock, raced>>
        /\ row' \in {row, NoRow} /\ disk' \in {row, disk, NoRow}
    BY <1>4 DEF Boot, StartsClean, OtherCommit, LinkDrops, LinkReturns, env
  <2>2. QED
    BY <1>0, <2>1, RowsKept DEF TasksOnTime
<1>5. CASE Tick
  <2>1. UNCHANGED <<task, row, disk, raced>> /\ clock' = clock + 1
    BY <1>5 DEF Tick
  <2>2. ASSUME NEW c \in Tasks PROVE TaskOnTime(c, task[c], clock + 1)
    <3>1. TaskOnTime(c, task[c], clock)
      BY <1>0 DEF TasksOnTime
    <3>2. QED
      BY <1>0, <3>1, Numbers DEF TaskOnTime, Reached
  <2>3. ASSUME NEW r \in {row, disk}, RowOnTime(r, clock, ~raced)
        PROVE  RowOnTime(r, clock + 1, ~raced)
    <3>1. r # NoRow => r \in RowType
      BY <1>0 DEF TypeOK
    <3>2. r # NoRow => r.start \in Int /\ r.def \in Definitions
      BY <3>1 DEF RowType
    <3>3. r # NoRow /\ r.idx \in Steps(r.def) => r.def.from[r.idx] \in Nat
      BY <3>2, StepFacts
    <3>4. QED
      BY <1>0, <2>3, <3>2, <3>3 DEF RowOnTime, Reached
  <2>4. QED
    BY <1>0, <2>1, <2>2, <2>3 DEF TasksOnTime, RowsOnTime
<1>6. QED
  BY <1>1, <1>2, <1>3, <1>4, <1>5 DEF StartStep

\* The step running when step k has come is k or a later one.
LEMMA LaterStep ==
  ASSUME NEW d \in Definitions, NEW k \in Steps(d), NEW i \in Steps(d), NEW s \in Int,
         NEW now \in Int, s + d.from[k] =< now, IsStepAt(d, i, Delta(now, s))
  PROVE  i >= k
<1>1. /\ Steps(d) = 1 .. Len(d.mode) /\ Len(d.mode) \in Nat /\ IsProgram(d)
      /\ d.from[k] \in Nat /\ d.from[i + 1] \in Nat
  BY StepFacts
<1>2. Delta(now, s) = now - s
  BY <1>1 DEF Delta
<1>3. d.from[k] < d.from[i + 1]
  BY <1>1, <1>2 DEF IsStepAt
<1>4. i + 1 \in 1 .. Len(d.from) /\ k \in 1 .. Len(d.from)
  <2>1. Len(d.from) = Len(d.mode) + 1
    BY <1>1 DEF IsProgram
  <2>2. QED
    BY <1>1, <2>1
<1>5. i + 1 =< k => d.from[i + 1] =< d.from[k]
  BY <1>1, <1>4, Zenon DEF IsProgram
<1>6. QED
  BY <1>1, <1>3, <1>5

LEMMA InitTimely == Init => Timely
<1> SUFFICES ASSUME Init PROVE Timely
  OBVIOUS
<1>1. TasksOnTime
  BY FreeOnTime DEF Init, TasksOnTime
<1>2. RowsOnTime
  BY DEF Init, RowsOnTime, RowOnTime
<1>3. QED
  BY <1>1, <1>2, InitPlaced DEF Timely

LEMMA NextTimely ==
  ASSUME StartOffsets \subseteq Nat
  PROVE  Timely /\ [Next]_vars => Timely'
<1> SUFFICES ASSUME Timely, [Next]_vars PROVE Timely'
  OBVIOUS
<1>1. Placed'
  BY NextPlaced DEF Timely
<1>2. TasksOnTime' /\ RowsOnTime'
  <2>1. CASE UNCHANGED vars
    BY <2>1, RowsKept DEF vars, env, Timely, TasksOnTime
  <2>2. QED
    BY <2>1, TimeClient, TimeTask, TimePoll, TimeProcess DEF Next
<1>3. QED
  BY <1>1, <1>2 DEF Timely

\* For clients that do not start in the future: no step timer wakes before its
\* step is over, and the row never names a step whose time has not come.
THEOREM NeverEarlyHolds ==
  ASSUME StartOffsets \subseteq Nat
  PROVE  Spec => []NeverEarly
<1>1. Timely => NeverEarly
  <2>1. ASSUME Timely, NEW t \in Timers, task[t].pc = "sleeping"
        PROVE  task[t].end >= task[t].start + task[t].def.from[task[t].idx + 1]
    BY <2>1, NotTimers DEF Timely, TasksOnTime, TaskOnTime, WaitsToEnd, EndsLate
  <2>2. ASSUME Timely, ~raced, row # NoRow
        PROVE  row.start + row.def.from[row.idx] =< clock
    BY <2>2 DEF Timely, RowsOnTime, RowOnTime, Reached
  <2>3. QED
    BY <2>1, <2>2 DEF NeverEarly
<1>2. QED
  BY InitTimely, NextTimely, <1>1, PTL DEF Spec

\* For the same clients: a restart goes on at the step that the row names or at
\* a later one, unless the program was edited.
THEOREM ResumeKeepsPlaceHolds ==
  ASSUME StartOffsets \subseteq Nat
  PROVE  Spec => ResumeKeepsPlace
<1>1. ASSUME Timely, [Next]_vars, Resuming, ~raced, task'["boot"].def = row.def
      PROVE  task'["boot"].idx >= row.idx
  <2>1. Resume
    <3>1. ASSUME NEW c \in Tasks, TaskStep(c) PROVE FALSE
      <4>0. TypeOK
        BY <1>1 DEF Timely, Placed, Inv
      <4>1. c # "boot" /\ task'["boot"] # task["boot"]
        BY <1>1, <3>1, <4>0, TaskMoves DEF Resuming
      <4>2. ActivationArms(c)
        BY <3>1, <4>0, <4>1, NotTimers, TaskMoves
      <4>3. task'["boot"] = task["boot"]
        BY <1>1, <4>1, <4>2, NotTimers
        DEF ActivationArms, FreeTimers, Timely, Placed, Inv, TypeOK
      <4>4. QED
        BY <1>1, <4>3 DEF Resuming
    <3>2. AfterCancel["boot"].pc = "free"
      BY <1>1, NotTimers, FreeOK DEF AfterCancel, Resuming
    <3>3. CASE ClientStep
      <4>1. \A r \in Requests : r # "boot"
        BY NotTimers
      <4>2. task'["boot"] = task["boot"] \/ task'["boot"] = AfterCancel["boot"]
        BY <1>1, <3>3, <4>1, NotTimers, CancelKinds
        DEF ClientStep, ActivateProgram, StopProgram, EditProgram, Activate,
            Timely, Placed, Inv, TypeOK
      <4>3. QED
        BY <1>1, <3>2, <4>2 DEF Resuming
    <3>4. CASE PollStep
      <4>1. task'["boot"] = task["boot"] \/ task'["boot"] = AfterCancel["boot"]
        BY <1>1, <3>4, NotTimers, CancelKinds
        DEF PollStep, PollSkipsMinute, PollWakes, PollAsks, PollSkips, PollActivates,
            Activate, Timely, Placed
      <4>2. QED
        BY <1>1, <3>2, <4>1 DEF Resuming
    <3>5. CASE Crash \/ Shutdown \/ Exit \/ StartRaises
      <4>1. task'["boot"] = Free \/ task'["boot"] = AfterCancel["boot"]
        BY <3>5, NotTimers DEF Crash, Shutdown, Exit, StartRaises, ProcessEnds, AfterCancel
      <4>2. QED
        BY <1>1, <3>2, <4>1, FreeOK DEF Resuming
    <3>6. CASE \/ Boot \/ StartsClean \/ OtherCommit \/ LinkDrops \/ LinkReturns \/ Tick
               \/ UNCHANGED vars
      BY <1>1, <3>6 DEF Boot, StartsClean, OtherCommit, LinkDrops, LinkReturns, Tick,
                        vars, Resuming
    <3>7. QED
      BY <1>1, <3>1, <3>3, <3>4, <3>5, <3>6 DEF Next, StartStep
  <2>2. PICK i \in Steps(RowsProgram) :
          /\ IsStepAt(RowsProgram, i, Delta(clock, row.start))
          /\ task'["boot"].def = RowsProgram /\ task'["boot"].idx = i
    <3>1. "boot" \in DOMAIN task
      BY <1>1, NotTimers DEF Timely, Placed, Inv, TypeOK
    <3>2. QED
      BY <2>1, <3>1 DEF Resume, Activate, Applying
  <2>3. /\ RowsProgram = row.def /\ row \in RowType /\ clock \in Int
        /\ row.idx \in Steps(row.def) /\ row.start + row.def.from[row.idx] =< clock
    BY <1>1, <2>1, <2>2, TypeTasks
    DEF Resume, Timely, Placed, Inv, TypeOK, RowsOnTime, RowOnTime, Reached
  <2>4. row.def \in Definitions /\ row.start \in Int
    BY <2>3 DEF RowType
  <2>5. i >= row.idx
    BY <2>2, <2>3, <2>4, LaterStep
  <2>6. QED
    BY <2>2, <2>5
<1>2. Timely /\ [Next]_vars =>
        [Resuming /\ ~raced /\ task'["boot"].def = row.def
           => task'["boot"].idx >= row.idx]_vars
  BY <1>1
<1>3. QED
  BY InitTimely, NextTimely, <1>2, PTL DEF Spec, ResumeKeepsPlace

=============================================================================
