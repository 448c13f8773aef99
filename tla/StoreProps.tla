------------------------------ MODULE StoreProps ------------------------------
(* What the shared connection still guarantees to each of its callers. *)
EXTENDS Store

StepsIn(t, p) == {s \in t.steps : s.program = p}
StepsBy(c) == {StepRow(call[c].program, i, c) : i \in 0 .. call[c].steps - 1}

\* The rows that a call writes: those of a program, the preferences it names,
\* the active sequence, the telemetry.
Touches(c, d) ==
  \/ /\ call[c].op \in {"create", "update", "delete"}
     /\ call[d].op \in {"create", "update", "delete"}
     /\ call[c].program = call[d].program
  \/ /\ call[c].op = "prefer" /\ call[d].op = "prefer"
     /\ call[c].fields \cap call[d].fields # {}
  \/ /\ call[c].op \in {"begin", "advance", "end"}
     /\ call[d].op \in {"begin", "advance", "end"}

\* Nobody wrote the same rows at the time of call c, or after it.
LastAlone(c) ==
  \A d \in DOMAIN call : d # c /\ Touches(c, d) => d \in call[c].before

\* The tables t hold what call c asked for.
Holds(t, c) ==
  /\ call[c].op \in {"create", "update"} =>
       /\ call[c].program \in DOMAIN t.rows
       /\ \A f \in call[c].fields : t.rows[call[c].program][f] = c
       /\ call[c].steps # Null => StepsIn(t, call[c].program) = StepsBy(c)
  /\ call[c].op = "delete"  => call[c].program \notin DOMAIN t.rows
  /\ call[c].op = "prefer"  => \A k \in call[c].fields : t.prefs[k] = c
  /\ call[c].op = "begin"   => t.active = {[by |-> c, at |-> c]}
  /\ call[c].op = "advance" => \A r \in t.active : r.at = c
  /\ call[c].op = "end"     => t.active = {}
  /\ call[c].op = "log"     => c \in t.telemetry

TypeOK ==
  /\ \A t \in {table, disk} :
       /\ DOMAIN t.rows \subseteq Programs
       /\ \A p \in DOMAIN t.rows : t.rows[p] \in [Columns -> 0 .. MaxCalls]
       /\ t.prefs \in [Keys -> 0 .. MaxCalls]
       /\ t.active \subseteq [by : 1 .. MaxCalls, at : 1 .. MaxCalls] /\ Cardinality(t.active) =< 1
       /\ t.telemetry \subseteq 1 .. MaxCalls
  /\ \A c \in DOMAIN call :
       /\ call[c].state \in {"running", "done", "missing", "refused", "killed"}
       /\ Running(c) <=> call[c].todo # <<>>

\* A write that was answered is on the disk, whole and alone, if nobody wrote
\* the same rows while it ran or since: whatever the other callers of the
\* connection committed between its statements, whatever a refused call left
\* in the transaction, and across a crash.
AnsweredIsOnDisk ==
  \A c \in DOMAIN call :
    call[c].state = "done" /\ LastAlone(c) => Holds(disk, c)

\* Two updates of a program may interleave and leave the steps of both; but
\* the steps of at least one answered request are there in full, if no call
\* that replaces the steps was refused, killed or is still at work, and the
\* program is not deleted.
OneUpdateIsWhole ==
  \A p \in Programs :
    LET replacing == {c \in DOMAIN call : /\ call[c].op \in {"create", "update"}
                                          /\ call[c].program = p
                                          /\ call[c].steps # Null
                                          /\ call[c].state # "missing"}
    IN  /\ replacing # {}
        /\ \A d \in DOMAIN call : call[d].op = "delete" => call[d].program # p
        /\ \A c \in replacing : call[c].state = "done"
        => \E c \in replacing : StepsBy(c) \subseteq StepsIn(disk, p)

\* A deleted program does not come back: an update that was under way when
\* the program went can bring back neither the row nor, after a crash, the
\* scheduler's reason to start it.
DeletedStaysDeleted ==
  \A c \in DOMAIN call :
    call[c].op = "delete" /\ call[c].state = "done" =>
      call[c].program \notin DOMAIN table.rows \cup DOMAIN disk.rows

\* Whoever reads a program after its last write was answered, or in the
\* answer itself, reads that write; if no other call wrote the program at
\* that time or since.
ReadsTheWrite ==
  \A c, d \in DOMAIN call :
    /\ call[c].state = "done" /\ call[c].op \in {"create", "update"}
    /\ LastAlone(c)
    /\ \/ d = c
       \/ /\ call[d].op = "get" /\ call[d].program = call[c].program
          /\ call[d].state = "done" /\ c \in call[d].before
    => /\ \A f \in call[c].fields : call[d].row[f] = c
       /\ call[c].steps # Null => call[d].got = StepsBy(c)

=============================================================================
