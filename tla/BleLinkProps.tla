---------------------------- MODULE BleLinkProps ----------------------------
(* What the daemon promises of its link, and what the documents say of it. *)
EXTENDS BleLink

WorkerType ==
  [pc : {"none", "idle", "dead"}, cmd : {0}, conn : {0}]
    \cup [pc : {"writing", "answered"}, cmd : Commands, conn : Links]

\* Every variable has its type: connections stay within their bound, and a
\* worker only writes a command to a connection that was made.
TypeOK ==
  /\ near \in BOOLEAN /\ mute \in BOOLEAN /\ losing \in BOOLEAN
  /\ conns \in {0} \cup Links
  /\ live \in 0 .. conns /\ attempt \in 0 .. conns /\ client \in 0 .. conns
  /\ pc \in {"off", "searching", "subscribing", "subscribed", "reading", "asking",
             "settling", "watching", "ended"}
  /\ pc \in {"subscribing", "subscribed", "reading", "asking", "settling"} => attempt # 0
  /\ connected \in BOOLEAN /\ (connected => client # 0)
  /\ queue \in Seq(Commands) /\ written \in Seq(Commands)
  /\ worker \in [Links -> WorkerType]
  /\ handle \in 0 .. conns
  /\ heard \in {"never", "fresh", "stale"}
  /\ silent \in BOOLEAN
  /\ proc \in {"down", "starting", "up", "closing", "leaving"}
  /\ ordered \in BOOLEAN /\ attached \in BOOLEAN
  /\ accepted \in 0 .. MaxCmds
  /\ spent \in [drops : 0 .. MaxDrops, mutes : 0 .. MaxMutes,
                restarts : 0 .. MaxRestarts, failures : 0 .. MaxFailures]

Alive(w) == worker[w].pc \in {"idle", "writing", "answered"}

\* The manager is connected, and to the connection there is.
Attuned == connected /\ live # 0 /\ client = live

\* When connect() is over and the connection it made still holds, the queue
\* has a worker of that connection, whatever happened to the workers of
\* earlier ones: a command that is accepted will be written.  (As long as no
\* write fails on a live connection: the worker does not survive that.)
QueueHasServer ==
  spent.failures = 0 /\ pc = "watching" /\ Attuned => Alive(live)

Writing(w) == IF worker[w].pc = "writing" THEN <<worker[w].cmd>> ELSE <<>>

\* On the daemon's first connection no command is lost, doubled or overtaken,
\* also those that came during the initial reads, before there was a worker:
\* what was written, is being written and is queued is what was accepted.
NothingLost ==
  /\ conns =< 1 /\ live = conns /\ proc \in {"starting", "up"}
  /\ spent.failures = 0 /\ spent.restarts = 0
  => written \o (IF conns = 1 THEN Writing(1) ELSE <<>>) \o queue
       = [i \in 1 .. accepted |-> i]

-----------------------------------------------------------------------------
\* Liveness.  The event loop runs every coroutine that can run; GATT
\* operations end; a device that is away comes back; a live connection that
\* is not mute notifies; time passes; systemd restarts the daemon and kills
\* one that does not stop.  No hub has to come or go.

Fairness ==
  /\ WF_vars(ConnectStep)
  /\ \A w \in Links : WF_vars(WorkerStep(w))
  /\ WF_vars(LossNoticed)
  /\ WF_vars(DeviceReturns)
  /\ WF_vars(Notification)
  /\ WF_vars(Silence)
  /\ WF_vars(Boot)
  /\ WF_vars(WatchdogFires)
  /\ WF_vars(ServerCloses)
  /\ WF_vars(Exit)
  /\ WF_vars(Kill)

FairSpec == Spec /\ Fairness

Serving == proc = "up" /\ Attuned /\ Sounding /\ Alive(live)

\* A connection from which this process has heard nothing since it started.
Unheard == connected /\ ~Sounding /\ heard = "never"

\* A write has failed on a live connection and taken its worker along.
Unserved == spent.failures > 0 /\ Attuned /\ ~Alive(live)

\* Whatever was lost, went mute, crashed or was restarted, the daemon comes
\* back, each time, to serving commands on a connection that notifies, or it
\* stays for good in one of two states: a connection that never notified, or
\* one whose worker a failed write took along.  An interpreter whose server
\* waits for its clients at the end (WaitsForClients) needs one thing more: a
\* hub that comes and goes.
Recovers ==
  (WaitsForClients => []<>~attached) =>
    []<>Serving \/ <>[]Unheard \/ <>[]Unserved

=============================================================================
