----------------------------- MODULE Scheduler ------------------------------
(***************************************************************************)
(* The hub's program scheduler (hub/bedjet_hub/scheduler/runner.py) with   *)
(* the program routes that call it and the active_sequence row it keeps.   *)
(*                                                                         *)
(* The hub is one asyncio process, so a step of the model is the code one  *)
(* coroutine runs between two awaits.  Calls to the BLE daemon and to the  *)
(* database travel on FIFO channels (one socket, one aiosqlite thread):    *)
(* their effect is taken when they are sent, their answer is a later step, *)
(* and cancelling the coroutine in between does not undo the effect.       *)
(*                                                                         *)
(* The coroutines are the HTTP requests, the activations made by the poll  *)
(* and by start(), and the step timers: the tasks created from _step_timer.*)
(* A step timer that re-creates itself for the next step keeps its slot.   *)
(***************************************************************************)
EXTENDS Programs, FiniteSets

CONSTANTS
  ProgramIds,    \* programs, numbered in the order of created_at
  Timers,        \* bound: step timers alive at the same time
  Requests,      \* bound: HTTP activate and stop requests in progress at once
  Library,       \* programs at the start: a set of functions over ProgramIds
  StartOffsets,  \* how long before now a client says the program started
  Unsupported,   \* modes the daemon has no button for: set_mode raises
  MaxClock,      \* bound: last minute of a behaviour
  LastStart,     \* bound: last minute at which a client activates
  MaxDrops,      \* bound: losses of the way to the device
  MaxCrashes,    \* bound: crashes and shutdowns of the hub
  MaxEdits,      \* bound: updates and deletions of programs
  MaxLate,       \* bound: minutes that pass while the hub has work to do
  NoTimer, NoRow, Absent   \* _timer_task is None, no row, no such program

Tasks == Requests \cup {"poll", "boot"} \cup Timers

ASSUME SchedulerAssumption ==
  /\ ProgramIds \subseteq Nat \ {0}
  /\ Requests \cap {"poll", "boot"} = {}
  /\ Timers \cap (Requests \cup {"poll", "boot"}) = {}
  /\ NoTimer \notin Tasks
  /\ StartOffsets \subseteq Int
  /\ Library \subseteq [ProgramIds -> Catalogue \cup {Absent}]
  /\ MaxClock \in Nat

VARIABLES
  clock,       \* minutes since midnight of the first day
  link,        \* commands sent now reach a connected device
  programs,    \* the programs table
  row,         \* the active_sequence row as the hub's connection sees it
  disk,        \* the active_sequence row a restart would find
  task,        \* the coroutines
  handle,      \* Scheduler._timer_task
  poll,        \* _poll_schedules' local variables
  lastPolled,  \* Scheduler._last_polled_minute
  phase,       \* the hub process
  asked,       \* mode of the last set_mode that reached the device
  polled,      \* history: the poll has looked at the clock in this minute
  matchedAt,   \* history: the minute in which a schedule last matched
  raced,       \* history: two coroutines drove the device at the same time
  spent        \* bounds used up so far

env == <<clock, link, programs>>
polling == <<poll, lastPolled, polled, matchedAt>>

vars == <<env, row, disk, task, handle, polling, phase, asked, raced, spent>>

NoProgram == 0

EmptyProgram ==
  [mode |-> <<>>, from |-> <<0>>, calls |-> <<>>, at |-> NoMinute, days |-> {}]

Free == [pc |-> "free", prog |-> NoProgram, def |-> EmptyProgram, idx |-> 0,
         start |-> 0, end |-> 0, left |-> 0, sent |-> FALSE]

PollOff == [pc |-> "off", minute |-> NoMinute, due |-> {}, seen |-> NoProgram,
            list |-> [p \in ProgramIds |-> Absent]]

PollIdle == [PollOff EXCEPT !.pc = "idle"]

Init ==
  /\ clock = 0 /\ link = TRUE /\ programs \in Library
  /\ row = NoRow /\ disk = NoRow
  /\ task = [c \in Tasks |-> Free] /\ handle = NoTimer
  /\ poll = PollOff /\ lastPolled = NoMinute
  /\ phase = "down" /\ asked = Standby
  /\ polled = FALSE /\ matchedAt = -1 /\ raced = FALSE
  /\ spent = [drops |-> 0, crashes |-> 0, edits |-> 0, late |-> 0]

-----------------------------------------------------------------------------
\* await self._ble.set_mode(m): the daemon is asked for mode m.
Reaches(m) == link /\ m \notin Unsupported
AskMode(m) == asked' = IF Reaches(m) THEN m ELSE asked


\* A call that had its effect is answered; it raises if it had none, or if
\* the answer is lost with the link.
CanFail(j) == ~j.sent \/ ~link

\* The coroutine that applies step i of d and will hold it until minute e.
Applying(p, d, i, s, e) ==
  [pc |-> "calling", prog |-> p, def |-> d, idx |-> i, start |-> s, end |-> e,
   left |-> d.calls[i], sent |-> Reaches(d.mode[i])]

\* Mutant: start_time and started_at swapped.
RowStartedNow(j) ==
  [prog |-> j.prog, def |-> j.def, idx |-> j.idx, start |-> clock]

\* set_active_sequence writes this row; def is history, not a column.
RowOf(j) == [prog |-> j.prog, def |-> j.def, idx |-> j.idx, start |-> j.start]

ProgramOf(r) == IF r = NoRow THEN NoProgram ELSE r.prog

Goto(c, pc) == task' = [task EXCEPT ![c].pc = pc]

\* activate_program is running in c; step timer t has not reached its DELETE.
Activating(c) ==
  /\ c \notin Timers
  /\ task[c].pc \in {"calling", "deleting", "inserting", "committing"}
Driving(t) ==
  /\ t \in Timers
  /\ task[t].pc \in {"sleeping", "calling", "updating", "committing", "off"}

\* Mutant: the handle is forgotten without a cancel().
AfterForgetting == task

\* if self._timer_task: self._timer_task.cancel(); self._timer_task = None
AfterCancel == [c \in Tasks |-> IF c = handle THEN Free ELSE task[c]]

\* activate_program(p, s) up to its first await: seek, then ask for the mode;
\* others are the tasks that c leaves running.
Activate(c, p, d, s, others) ==
  \E i \in Steps(d) :
    /\ IsStepAt(d, i, Delta(clock, s))
    /\ task' = [others EXCEPT ![c] =
                  Applying(p, d, i, s, clock + Remaining(d, i, Delta(clock, s)))]
    /\ AskMode(d.mode[i])

ActivateRaises(d, s) == NothingAt(d, Delta(clock, s))

\* Bound: an activation starts only if a slot will be left for its timer.
SlotLeft(slots) ==
  Cardinality({c \in Tasks : Activating(c)}) < Cardinality(slots)

FreeTimers == {t \in Timers : task[t].pc = "free"}

-----------------------------------------------------------------------------
\* HTTP requests.

\* POST /programs/{p}/activate.  An empty or elapsed program is a 400.
ActivateProgram(r, p, offset) ==
  /\ phase = "up" /\ task[r].pc = "free"
  /\ clock =< LastStart /\ SlotLeft(FreeTimers)
  /\ programs[p] # Absent
  /\ Activate(r, p, programs[p], clock - offset, task)
  /\ raced' = (raced \/ \E c \in Tasks : Activating(c) \/ Driving(c))
  /\ UNCHANGED <<env, row, disk, handle, polling, phase, spent>>

\* POST /programs/stop: cancel the timer and send the DELETE (its COMMIT is
\* below).
StopProgram(r) ==
  /\ phase = "up" /\ task[r].pc = "free"
  /\ task' = [AfterCancel EXCEPT ![r].pc = "stopping"]
  /\ handle' = NoTimer
  /\ row' = NoRow
  /\ raced' = (raced \/ \E c \in Tasks : Activating(c))
  /\ UNCHANGED <<env, disk, polling, phase, asked, spent>>

\* PUT and DELETE /programs/{p}.  Nothing looks at active_sequence: foreign
\* keys are not enforced on this connection.
EditProgram(p, d) ==
  /\ phase = "up"
  /\ spent.edits < MaxEdits
  /\ programs[p] # Absent /\ programs[p] # d
  /\ programs' = [programs EXCEPT ![p] = d]
  /\ disk' = row
  /\ spent' = [spent EXCEPT !.edits = @ + 1]
  /\ UNCHANGED <<clock, link, row, task, handle, polling, phase, asked, raced>>

\* Any other coroutine's commit() (telemetry, preferences) commits the
\* statements that a scheduler coroutine has sent so far: one connection.
OtherCommit ==
  /\ phase = "up" /\ disk # row
  /\ disk' = row
  /\ UNCHANGED <<env, row, task, handle, polling, phase, asked, raced, spent>>

-----------------------------------------------------------------------------
\* Steps shared by the coroutines.

\* Mutant: the end of the calls is not looked at.
CallsOn(c) ==
  /\ task[c].pc = "calling" /\ task[c].sent
  /\ task' = [task EXCEPT ![c].left = @ - 1, ![c].sent = link]
  /\ UNCHANGED <<env, row, disk, handle, polling, phase, asked, raced, spent>>

\* A call is answered, more remain: send the next.
Calls(c) ==
  /\ task[c].pc = "calling" /\ task[c].left > 0 /\ task[c].sent
  /\ task' = [task EXCEPT ![c].left = @ - 1, ![c].sent = link]
  /\ UNCHANGED <<env, row, disk, handle, polling, phase, asked, raced, spent>>

AllAnswered(c) == task[c].pc = "calling" /\ task[c].left = 0 /\ task[c].sent

\* Mutant: the commit() is missing.
GoesOnUncommitted(c) ==
  /\ task[c].pc \in {"inserting", "updating"}
  /\ Goto(c, "committing")
  /\ UNCHANGED <<env, row, disk, handle, polling, phase, asked, raced, spent>>

\* A COMMIT with more to do after its answer.
Commits(c) ==
  /\ task[c].pc \in {"inserting", "updating"}
  /\ disk' = row
  /\ Goto(c, "committing")
  /\ UNCHANGED <<env, row, handle, polling, phase, asked, raced, spent>>

\* The task ends; _timer_task may still name it, which then means nothing.
Ends(c) ==
  /\ task' = [task EXCEPT ![c] = Free]
  /\ handle' = IF handle = c THEN NoTimer ELSE handle

\* A COMMIT that is the last thing the coroutine does.
CommitsAndEnds(c) ==
  /\ \/ task[c].pc = "stopping"
     \/ c \in Timers /\ task[c].pc = "deleting"
  /\ disk' = row
  /\ Ends(c)
  /\ UNCHANGED <<env, row, polling, phase, asked, raced, spent>>

-----------------------------------------------------------------------------
\* The rest of activate_program: set_active_sequence's DELETE,
ActivationDeletes(c) ==
  /\ c \notin Timers /\ AllAnswered(c)
  /\ row' = NoRow
  /\ Goto(c, "deleting")
  /\ UNCHANGED <<env, disk, handle, polling, phase, asked, raced, spent>>

\* its INSERT, which needs an empty table (PRIMARY KEY, id = 1), its COMMIT
\* (Commits),
ActivationInserts(c) ==
  /\ c \notin Timers /\ task[c].pc = "deleting"
  /\ row = NoRow
  /\ row' = RowOf(task[c])
  /\ Goto(c, "inserting")
  /\ UNCHANGED <<env, disk, handle, polling, phase, asked, raced, spent>>

\* What the caller does when activate_program has returned or raised: the
\* request answers, the poll goes back to sleep, start() creates the poll.
CallerGoesOn(c) ==
  /\ poll' = IF c \in {"poll", "boot"} THEN PollIdle ELSE poll
  /\ phase' = IF c = "boot" THEN "up" ELSE phase
  /\ UNCHANGED <<lastPolled, polled, matchedAt>>

\* and the step timer.  The task it replaces is not cancelled.
ActivationArms(c) ==
  /\ c \notin Timers /\ task[c].pc = "committing"
  /\ \E t \in FreeTimers :
       /\ task' = [task EXCEPT ![t] = [task[c] EXCEPT !.pc = "sleeping"], ![c] = Free]
       /\ handle' = t
  /\ CallerGoesOn(c)
  /\ UNCHANGED <<env, row, disk, asked, raced, spent>>

\* Mutant: a failed resume leaves the row.
KeepsRow(c, r) == r

\* Only _resume cleans up after an activation that failed.
AfterFailure(c, r) == IF c = "boot" THEN NoRow ELSE r

\* A call failed, or the INSERT did.
ActivationFails(c) ==
  /\ c \notin Timers
  /\ \/ task[c].pc = "calling" /\ CanFail(task[c])
     \/ task[c].pc = "deleting" /\ row # NoRow
  /\ row' = AfterFailure(c, row) /\ disk' = AfterFailure(c, disk)
  /\ task' = [task EXCEPT ![c] = Free]
  /\ CallerGoesOn(c)
  /\ UNCHANGED <<env, handle, asked, raced, spent>>

-----------------------------------------------------------------------------
\* _step_timer.

\* Mutant: a minute too early.
DueEarly(t) ==
  t \in Timers /\ task[t].pc = "sleeping" /\ task[t].end =< clock + 1

Due(t) == t \in Timers /\ task[t].pc = "sleeping" /\ task[t].end =< clock

IsLastStep(t) == task[t].idx = Len(task[t].def.mode)

\* Woken during shutdown: return.
TimerQuits(t) ==
  /\ Due(t) /\ phase = "stopping"
  /\ Ends(t)
  /\ UNCHANGED <<env, row, disk, polling, phase, asked, raced, spent>>

\* The step is over: ask for the mode of the next one.
TimerAdvances(t) ==
  /\ Due(t) /\ phase # "stopping" /\ ~IsLastStep(t)
  /\ LET j == task[t] IN
       /\ task' = [task EXCEPT ![t] =
                     Applying(j.prog, j.def, j.idx + 1, j.start, j.end)]
       /\ AskMode(j.def.mode[j.idx + 1])
  /\ UNCHANGED <<env, row, disk, handle, polling, phase, raced, spent>>

\* update_active_sequence_step updates whatever row is there, commits it
\* (Commits),
TimerUpdates(t) ==
  /\ t \in Timers /\ AllAnswered(t)
  /\ row' = IF row = NoRow THEN NoRow ELSE [row EXCEPT !.idx = task[t].idx]
  /\ Goto(t, "updating")
  /\ UNCHANGED <<env, disk, handle, polling, phase, asked, raced, spent>>

\* and the next timer sleeps for the whole step, counted from now.
TimerRearms(t) ==
  /\ t \in Timers /\ task[t].pc = "committing"
  /\ LET j == task[t] IN
       task' = [task EXCEPT ![t].pc = "sleeping",
                            ![t].end = clock + Duration(j.def, j.idx)]
  /\ handle' = t
  /\ UNCHANGED <<env, row, disk, polling, phase, asked, raced, spent>>

\* The last step is over: ask for standby if the device reports another mode
\* (what it reports is its own affair), else go on to the DELETE.
TimerSwitchesOff(t) ==
  /\ Due(t) /\ phase # "stopping" /\ IsLastStep(t)
  /\ task' = [task EXCEPT ![t].pc = "off", ![t].sent = Reaches(Standby)]
  /\ AskMode(Standby)
  /\ UNCHANGED <<env, row, disk, handle, polling, phase, raced, spent>>

TimerDeletes(t) ==
  /\ \/ Due(t) /\ phase # "stopping" /\ IsLastStep(t)
     \/ t \in Timers /\ task[t].pc = "off" /\ task[t].sent
  /\ row' = NoRow
  /\ Goto(t, "deleting")
  /\ UNCHANGED <<env, disk, handle, polling, phase, asked, raced, spent>>

\* A call failed: the exception ends the task and nothing observes it.
TimerFails(t) ==
  /\ t \in Timers
  /\ task[t].pc \in {"calling", "off"} /\ CanFail(task[t])
  /\ Ends(t)
  /\ UNCHANGED <<env, row, disk, polling, phase, asked, raced, spent>>

-----------------------------------------------------------------------------
\* _poll_loop and _poll_schedules.

DuePrograms(list, now) ==
  {p \in ProgramIds : list[p] # Absent /\ IsScheduled(list[p], now)}

\* This minute has been dealt with: return.
PollSkipsMinute ==
  /\ phase = "up" /\ poll.pc = "idle"
  /\ lastPolled = MinuteOfDay(clock)
  /\ polled' = TRUE
  /\ UNCHANGED <<env, row, disk, task, handle, poll, lastPolled, matchedAt,
                 phase, asked, raced, spent>>

\* Read the clock and list the programs; the pass ends if none is scheduled.
PollWakes ==
  /\ phase = "up" /\ poll.pc = "idle"
  /\ lastPolled # MinuteOfDay(clock)
  /\ polled' = TRUE
  /\ LET due == DuePrograms(programs, clock) IN
       poll' = IF due = {} THEN poll
               ELSE [pc |-> "listing", minute |-> MinuteOfDay(clock),
                     due |-> due, seen |-> NoProgram, list |-> programs]
  /\ UNCHANGED <<env, row, disk, task, handle, lastPolled, matchedAt, phase,
                 asked, raced, spent>>

\* get_active_sequence for the first scheduled program of the list.
PollAsks ==
  /\ poll.pc = "listing"
  /\ poll' = [poll EXCEPT !.pc = "asking", !.seen = ProgramOf(row)]
  /\ UNCHANGED <<env, row, disk, task, handle, lastPolled, polled, matchedAt,
                 phase, asked, raced, spent>>

PollCandidate(p) ==
  /\ poll.pc = "asking"
  /\ p \in poll.due /\ \A q \in poll.due : p =< q

\* It is the active one: look at the next, asking for the row again.
PollSkips(p) ==
  /\ PollCandidate(p) /\ poll.seen = p
  /\ poll' = IF poll.due = {p} THEN PollIdle
             ELSE [poll EXCEPT !.due = @ \ {p}, !.seen = ProgramOf(row)]
  /\ UNCHANGED <<env, row, disk, task, handle, lastPolled, polled, matchedAt,
                 phase, asked, raced, spent>>

\* It is not: cancel the timer, remember the minute, activate it and stop
\* looking.  An activation that raises is logged.
PollActivates(p) ==
  /\ PollCandidate(p) /\ poll.seen # p
  /\ SlotLeft(FreeTimers \cup ({handle} \cap Timers))
  /\ handle' = NoTimer
  /\ lastPolled' = poll.minute
  /\ matchedAt' = clock
  /\ LET d == poll.list[p] IN
       \/ /\ Activate("poll", p, d, clock, AfterCancel)
          /\ poll' = [PollIdle EXCEPT !.pc = "activating"]
       \/ /\ ActivateRaises(d, clock)
          /\ task' = AfterCancel /\ poll' = PollIdle /\ UNCHANGED asked
  /\ raced' = (raced \/ \E c \in Tasks \ {handle} : Activating(c) \/ Driving(c))
  /\ UNCHANGED <<env, row, disk, polled, phase, spent>>

-----------------------------------------------------------------------------
\* The hub process.

\* Everything in memory is gone, uncommitted statements are rolled back.
ProcessEnds ==
  /\ phase' = "down"
  /\ row' = disk
  /\ task' = [c \in Tasks |-> Free] /\ handle' = NoTimer
  /\ poll' = PollOff /\ lastPolled' = NoMinute
  /\ UNCHANGED <<env, disk, asked, polled, matchedAt, raced>>

Crash ==
  /\ phase # "down"
  /\ spent.crashes < MaxCrashes
  /\ ProcessEnds
  /\ spent' = [spent EXCEPT !.crashes = @ + 1]

\* SIGTERM: the server has drained its requests, Scheduler.stop() cancels the
\* timer it knows of and the poll.
Shutdown ==
  /\ phase = "up"
  /\ spent.crashes < MaxCrashes
  /\ \A r \in Requests : task[r].pc = "free"
  /\ phase' = "stopping"
  /\ task' = [AfterCancel EXCEPT !["poll"] = Free] /\ handle' = NoTimer
  /\ poll' = PollOff
  /\ spent' = [spent EXCEPT !.crashes = @ + 1]
  /\ UNCHANGED <<env, row, disk, lastPolled, polled, matchedAt, asked, raced>>

Exit == phase = "stopping" /\ ProcessEnds /\ UNCHANGED spent

\* systemd starts the hub; it waits for the daemon's socket.
Boot ==
  /\ phase = "down"
  /\ phase' = "starting"
  /\ UNCHANGED <<env, row, disk, task, handle, polling, asked, raced, spent>>

RowsProgram == programs[row.prog]

\* Mutant: so is "Fully elapsed".
EveryErrorReRaised(d) == TRUE

\* _resume re-raises the ValueError "No steps".
ReRaised(d) == Steps(d) = {}

\* start() without a sequence to resume: none, its program deleted or elapsed.
StartsClean ==
  /\ phase = "starting"
  /\ row # NoRow /\ RowsProgram # Absent =>
       ActivateRaises(RowsProgram, row.start) /\ ~ReRaised(RowsProgram)
  /\ phase' = "up"
  /\ poll' = PollIdle
  /\ row' = NoRow /\ disk' = NoRow
  /\ UNCHANGED <<env, task, handle, lastPolled, polled, matchedAt, asked, raced,
                 spent>>

\* The exception leaves start() and ends main().
StartRaises ==
  /\ phase = "starting"
  /\ row # NoRow /\ RowsProgram # Absent
  /\ ActivateRaises(RowsProgram, row.start) /\ ReRaised(RowsProgram)
  /\ ProcessEnds
  /\ UNCHANGED spent

Resume ==
  /\ phase = "starting"
  /\ row # NoRow /\ RowsProgram # Absent
  /\ Activate("boot", row.prog, RowsProgram, row.start, task)
  /\ phase' = "booting"
  /\ UNCHANGED <<env, row, disk, handle, polling, raced, spent>>

-----------------------------------------------------------------------------
\* The environment.

LinkDrops ==
  /\ link /\ spent.drops < MaxDrops
  /\ link' = FALSE
  /\ spent' = [spent EXCEPT !.drops = @ + 1]
  /\ UNCHANGED <<clock, programs, row, disk, task, handle, polling, phase,
                 asked, raced>>

LinkReturns ==
  /\ ~link
  /\ link' = TRUE
  /\ UNCHANGED <<clock, programs, row, disk, task, handle, polling, phase,
                 asked, raced, spent>>

\* The hub has something to do in this minute: an answer to take, a timer to
\* wake, or the first look of a poll that sleeps 20 seconds.
Working ==
  \/ phase \in {"starting", "booting", "stopping"}
  \/ \E c \in Tasks : task[c].pc \notin {"free", "sleeping"} \/ Due(c)
  \/ poll.pc \notin {"off", "idle"}
  \/ phase = "up" /\ ~polled

\* Time passes while the hub is idle or down; it is late at most MaxLate
\* minutes in all.
Tick ==
  /\ clock < MaxClock
  /\ Working => spent.late < MaxLate
  /\ clock' = clock + 1
  /\ polled' = FALSE
  /\ spent' = IF Working THEN [spent EXCEPT !.late = @ + 1] ELSE spent
  /\ UNCHANGED <<link, programs, row, disk, task, handle, poll, lastPolled,
                 matchedAt, phase, asked, raced>>

-----------------------------------------------------------------------------
TaskStep(c) ==
  \/ Calls(c) \/ Commits(c) \/ CommitsAndEnds(c)
  \/ ActivationDeletes(c) \/ ActivationInserts(c)
  \/ ActivationArms(c) \/ ActivationFails(c)
  \/ TimerQuits(c) \/ TimerAdvances(c) \/ TimerUpdates(c) \/ TimerRearms(c)
  \/ TimerSwitchesOff(c) \/ TimerDeletes(c) \/ TimerFails(c)

PollStep ==
  \/ PollSkipsMinute \/ PollWakes \/ PollAsks
  \/ \E p \in ProgramIds : PollSkips(p) \/ PollActivates(p)

StartStep == Boot \/ StartsClean \/ StartRaises \/ Resume

ClientStep ==
  \/ \E r \in Requests, p \in ProgramIds, offset \in StartOffsets :
       ActivateProgram(r, p, offset)
  \/ \E r \in Requests : StopProgram(r)
  \/ \E p \in ProgramIds, d \in Catalogue \cup {Absent} : EditProgram(p, d)

Next ==
  \/ ClientStep
  \/ \E c \in Tasks : TaskStep(c)
  \/ PollStep
  \/ StartStep
  \/ OtherCommit
  \/ Crash \/ Shutdown \/ Exit
  \/ LinkDrops \/ LinkReturns
  \/ Tick

Spec == Init /\ [][Next]_vars

=============================================================================
