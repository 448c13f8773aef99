-------------------------------- MODULE Store --------------------------------
(***************************************************************************)
(* The hub's database (db/database.py) under the coroutines that use it:   *)
(* the program and preference routes, the scheduler and the telemetry      *)
(* loop.  They share ONE connection, and so one implicit transaction: the  *)
(* first INSERT, UPDATE or DELETE opens it, and the commit() of any of     *)
(* them ends it for all.  Between two statements of a method another       *)
(* method's statements run.  A method is the sequence of its statements.   *)
(*                                                                         *)
(* A value written is represented by the number of the call that wrote it; *)
(* 0 stands for what was there at the start.  Timestamps are left out.     *)
(***************************************************************************)
EXTENDS Naturals, Sequences, FiniteSets, SequencesExt

CONSTANTS
  Programs,     \* program ids (uuid4)
  Stored,       \* the programs there at the start, of two steps each
  Keys,         \* preference keys
  Asked,        \* the sets of columns that a request may carry values for
  MaxCalls,     \* bound on the calls
  AtOnce,       \* bound on the calls under way at a time
  MaxSteps,     \* bound on the steps of a request
  MaxWide,      \* bound on the requests with a number SQLite cannot hold
  MaxCrashes    \* bound on the crashes

Columns == {"name", "start", "days"}    \* name, start_time_hhmm, days

ASSUME StoreAssumption ==
  /\ Stored \subseteq Programs /\ IsFiniteSet(Keys)
  /\ Asked \subseteq SUBSET Columns
  /\ MaxCalls \in Nat /\ AtOnce \in Nat /\ MaxSteps \in Nat /\ MaxWide \in Nat /\ MaxCrashes \in Nat

VARIABLES
  table,    \* what the connection sees, uncommitted statements included
  disk,     \* what a crash leaves: the state at the last commit
  call,     \* the calls, numbered in the order they begin
  wide,     \* requests refused so far
  crashes

vars == <<table, disk, call, wide, crashes>>

None == "none"
Null == MaxSteps + 1    \* "steps": null

StepRow(p, i, c) == [program |-> p, position |-> i, by |-> c]

Empty ==
  [rows |-> [p \in Stored |-> [f \in Columns |-> 0]],
   steps |-> {StepRow(p, i, 0) : p \in Stored, i \in 0 .. 1},
   prefs |-> [k \in Keys |-> 0],
   active |-> {},   \* at most one row
   telemetry |-> {}]

StoreInit ==
  /\ table = Empty /\ disk = Empty
  /\ call = <<>> /\ wide = 0 /\ crashes = 0

-----------------------------------------------------------------------------
\* What the methods ask SQLite to do.

Stmt(verb, arg) == [verb |-> verb, arg |-> arg]
Each(verb, args) == [i \in 1 .. Len(args) |-> Stmt(verb, args[i])]
Inserts(n) == [i \in 1 .. n |-> Stmt("insert_step", i - 1)]
Commit == <<Stmt("commit", 0)>>

\* get_program, with _get_steps.
Gets == <<Stmt("select_program", 0), Stmt("select_steps", 0)>>

\* create_program.
Creates(n) == <<Stmt("insert_program", 0)>> \o Inserts(n) \o Commit \o Gets

\* if steps is not None: DELETE, then an INSERT for each.
Replaces(n) ==
  IF n = Null THEN <<>> ELSE <<Stmt("delete_steps", 0)>> \o Inserts(n)

\* A column whose new value is None is left as it is.
SetIf(f, fields) == IF f \in fields THEN <<Stmt("set", f)>> ELSE <<>>
Sets(fields) == SetIf("name", fields) \o SetIf("start", fields) \o SetIf("days", fields)

\* Mutant: the new steps are inserted before the old ones are deleted.
UpdatesInsertsFirst(fields, n) ==
  Gets \o Sets(fields)
  \o (IF n = Null THEN <<>> ELSE Inserts(n) \o <<Stmt("delete_steps", 0)>>)
  \o Commit \o Gets

\* update_program.
Updates(fields, n) == Gets \o Sets(fields) \o Replaces(n) \o Commit \o Gets

\* Mutant: the answer is given without a commit.
DeletesOnly == <<Stmt("delete_program", 0)>>

\* delete_program: the steps' ON DELETE CASCADE is not in force, for the
\* connection never enables foreign keys.
Deletes == <<Stmt("delete_program", 0)>> \o Commit

\* Mutant: the commit comes first.
PrefersAfterCommit(keys) == Commit \o Each("set_preference", SetToSeq(keys))

\* update_preferences, with the fields that the request carries.
Prefers(keys) == Each("set_preference", SetToSeq(keys)) \o Commit

\* set_active_sequence, update_active_sequence_step, delete_active_sequence,
\* add_telemetry.
Begins == <<Stmt("delete_active", 0), Stmt("insert_active", 0)>> \o Commit
Advances == <<Stmt("move_active", 0)>> \o Commit
Ends == <<Stmt("delete_active", 0)>> \o Commit
Logs == <<Stmt("insert_telemetry", 0)>> \o Commit

-----------------------------------------------------------------------------
\* The calls.

Running(c) == call[c].state = "running"
Busy == {c \in DOMAIN call : Running(c)}
Used == Stored \cup {call[c].program : c \in {d \in DOMAIN call : call[d].op = "create"}}

\* Call: a coroutine begins op on program p; fields are the columns or the
\* keys the request sets, n its number of steps, todo its statements.
Call(op, p, fields, n, todo) ==
  /\ Len(call) < MaxCalls /\ Cardinality(Busy) < AtOnce
  /\ call' = Append(call,
       [op |-> op, program |-> p, fields |-> fields, steps |-> n, todo |-> todo,
        state |-> "running", answer |-> "done", row |-> <<>>, got |-> {},
        before |-> DOMAIN call \ Busy])
  /\ UNCHANGED <<table, disk, wide, crashes>>

CallCreate == \E p \in Programs \ Used, f \in Asked, n \in 0 .. MaxSteps :
                Call("create", p, {"name"} \cup f, n, Creates(n))
CallGet    == \E p \in Programs : Call("get", p, {}, Null, Gets)
CallUpdate == \E p \in Programs, f \in Asked, n \in 0 .. Null :
                Call("update", p, f, n, Updates(f, n))
CallDelete == \E p \in Programs : Call("delete", p, {}, Null, Deletes)
CallPrefer == \E k \in SUBSET Keys : Call("prefer", None, k, Null, Prefers(k))
CallBegin  == Call("begin", None, {}, Null, Begins)
CallAdvance == Call("advance", None, {}, Null, Advances)
CallEnd    == Call("end", None, {}, Null, Ends)
CallLog    == Call("log", None, {}, Null, Logs)

\* The connection's thread runs the next statement of call c; the call goes
\* on with the next one, and the last one ends it.
Runs(c, verb) == Running(c) /\ Head(call[c].todo).verb = verb
Arg(c) == Head(call[c].todo).arg
WithNext(c) ==
  [call[c] EXCEPT !.todo = Tail(@), !.state = IF Len(call[c].todo) = 1 THEN call[c].answer ELSE @]
Ended(c, state) == [call[c] EXCEPT !.todo = <<>>, !.state = state]

Writes(c, t) ==
  /\ table' = t
  /\ call' = [call EXCEPT ![c] = WithNext(c)]
  /\ UNCHANGED <<disk, wide, crashes>>

Refused(c) ==
  /\ call' = [call EXCEPT ![c] = Ended(c, "refused")]
  /\ UNCHANGED <<table, disk, crashes>>

InsertProgram(c) ==
  /\ Runs(c, "insert_program")
  /\ Writes(c, [table EXCEPT !.rows = [p \in DOMAIN @ \cup {call[c].program} |->
       IF p # call[c].program THEN @[p]
       ELSE [f \in Columns |-> IF f \in call[c].fields THEN c ELSE 0]]])

\* UPDATE ... WHERE id=?: no row, no change.
SetColumn(c) ==
  /\ Runs(c, "set")
  /\ Writes(c, [table EXCEPT !.rows = [p \in DOMAIN @ |->
       IF p = call[c].program THEN [@[p] EXCEPT ![Arg(c)] = c] ELSE @[p]]])

DeleteSteps(c) ==
  /\ Runs(c, "delete_steps")
  /\ Writes(c, [table EXCEPT !.steps = {s \in @ : s.program # call[c].program}])

InsertStep(c) ==
  /\ Runs(c, "insert_step")
  /\ Writes(c, [table EXCEPT !.steps = @ \cup {StepRow(call[c].program, Arg(c), c)}])

\* An integer of the step is wider than 64 bits (no request model bounds it):
\* OverflowError.  Nothing rolls back what the method has written so far.
RefuseStep(c) ==
  /\ Runs(c, "insert_step") /\ wide < MaxWide
  /\ wide' = wide + 1
  /\ Refused(c)

\* delete_program answers by the number of rows that went.
DeleteProgram(c) ==
  /\ Runs(c, "delete_program")
  /\ IF call[c].program \in DOMAIN table.rows
     THEN Writes(c, [table EXCEPT !.rows =
            [p \in DOMAIN @ \ {call[c].program} |-> @[p]]])
     ELSE /\ call' = [call EXCEPT ![c] = [WithNext(c) EXCEPT !.answer = "missing"]]
          /\ UNCHANGED <<table, disk, wide, crashes>>

SetPreference(c) ==
  /\ Runs(c, "set_preference")
  /\ Writes(c, [table EXCEPT !.prefs[Arg(c)] = c])

DeleteActive(c) ==
  /\ Runs(c, "delete_active")
  /\ Writes(c, [table EXCEPT !.active = {}])

\* Mutant: the table takes any number of rows.
InsertActiveAgain(c) ==
  /\ Runs(c, "insert_active")
  /\ Writes(c, [table EXCEPT !.active = @ \cup {[by |-> c, at |-> c]}])

\* The row's id is always 1: a second row is an IntegrityError.
InsertActive(c) ==
  /\ Runs(c, "insert_active")
  /\ IF table.active = {}
     THEN Writes(c, [table EXCEPT !.active = {[by |-> c, at |-> c]}])
     ELSE Refused(c) /\ UNCHANGED wide

MoveActive(c) ==
  /\ Runs(c, "move_active")
  /\ Writes(c, [table EXCEPT !.active = {[r EXCEPT !.at = c] : r \in @}])

InsertTelemetry(c) ==
  /\ Runs(c, "insert_telemetry")
  /\ Writes(c, [table EXCEPT !.telemetry = @ \cup {c}])

Commits(c) ==
  /\ Runs(c, "commit")
  /\ disk' = table
  /\ call' = [call EXCEPT ![c] = WithNext(c)]
  /\ UNCHANGED <<table, wide, crashes>>

\* SELECT * FROM programs WHERE id=?: with no row, update_program and
\* get_program return None, and the route answers 404.
SelectProgram(c) ==
  /\ Runs(c, "select_program")
  /\ call' = [call EXCEPT ![c] =
       IF call[c].program \in DOMAIN table.rows
       THEN [WithNext(c) EXCEPT !.row = table.rows[call[c].program]]
       ELSE Ended(c, "missing")]
  /\ UNCHANGED <<table, disk, wide, crashes>>

\* Mutant: the answer keeps the steps that were read first.
SelectStepsOnce(c) ==
  /\ Runs(c, "select_steps")
  /\ call' = [call EXCEPT ![c] =
       IF call[c].got # {} THEN WithNext(c)
       ELSE [WithNext(c) EXCEPT !.got = {s \in table.steps : s.program = call[c].program}]]
  /\ UNCHANGED <<table, disk, wide, crashes>>

SelectSteps(c) ==
  /\ Runs(c, "select_steps")
  /\ call' = [call EXCEPT ![c] =
       [WithNext(c) EXCEPT !.got = {s \in table.steps : s.program = call[c].program}]]
  /\ UNCHANGED <<table, disk, wide, crashes>>

\* The process dies or closes the connection: the open transaction is rolled
\* back and the calls are gone.  The next hub opens the file (initialize);
\* a preference without a row reads as its default.  (A crash with no
\* call under way and nothing uncommitted would change nothing.)
Crashes ==
  /\ crashes < MaxCrashes /\ (Busy # {} \/ table # disk)
  /\ crashes' = crashes + 1
  /\ table' = disk
  /\ call' = [c \in DOMAIN call |-> IF Running(c) THEN Ended(c, "killed") ELSE call[c]]
  /\ UNCHANGED <<disk, wide>>

Calls ==
  \/ CallCreate \/ CallGet \/ CallUpdate \/ CallDelete \/ CallPrefer
  \/ CallBegin \/ CallAdvance \/ CallEnd \/ CallLog

Statement(c) ==
  \/ InsertProgram(c) \/ SetColumn(c) \/ DeleteSteps(c) \/ InsertStep(c)
  \/ RefuseStep(c) \/ DeleteProgram(c) \/ SetPreference(c) \/ DeleteActive(c)
  \/ InsertActive(c) \/ MoveActive(c) \/ InsertTelemetry(c) \/ Commits(c)
  \/ SelectProgram(c) \/ SelectSteps(c)

StoreNext == Calls \/ (\E c \in DOMAIN call : Statement(c)) \/ Crashes

StoreSpec == StoreInit /\ [][StoreNext]_vars

=============================================================================
