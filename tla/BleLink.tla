------------------------------- MODULE BleLink -------------------------------
(***************************************************************************)
(* The BLE daemon's link to the device: the connection life cycle and the  *)
(* command queue of hub/bedjet_hub/ble/manager.py, and the main task and   *)
(* the watchdog of hub/bedjet_hub/ble_daemon.py.                           *)
(*                                                                         *)
(* Connections are numbered as the radio makes them.  connect() creates a  *)
(* command worker at its end, so worker n is the one of connection n; a    *)
(* worker outlives its connection until it takes a command and fails.      *)
(* Commands are numbered in the order in which _enqueue_command accepts    *)
(* them.  The device is a V3 (a V2 has no initial reads).                  *)
(***************************************************************************)
EXTENDS Integers, Sequences, FiniteSets

CONSTANTS
  MaxCmds,         \* bound: commands accepted
  MaxDrops,        \* bound: connections lost to the radio
  MaxMutes,        \* bound: connections that stop notifying without a loss
  MaxRestarts,     \* bound: crashes and SIGTERMs
  MaxFailures,     \* bound: GATT operations that fail on a live connection
  WaitsForClients  \* Server.wait_closed() waits for connected clients, as it
                   \* does from Python 3.12.1 on

ASSUME BleLinkAssumption ==
  /\ MaxCmds \in Nat /\ MaxDrops \in Nat /\ MaxMutes \in Nat
  /\ MaxRestarts \in Nat /\ MaxFailures \in Nat
  /\ WaitsForClients \in BOOLEAN

\* A connection ends in a loss, a failure or a restart; a loss or a mute may
\* cause one restart more.
Links == 1 .. 1 + 2 * MaxDrops + MaxMutes + MaxRestarts + MaxFailures

Commands == 1 .. MaxCmds

VARIABLES
  near,       \* the device can be found and connected to
  live,       \* the connection the radio holds, 0 if none
  mute,       \* it does not notify any more
  conns,      \* connections made so far
  losing,     \* a disconnected_callback is about to run
  pc,         \* where connect() and the reconnect loop are
  attempt,    \* connect()'s local client
  client,     \* BleManager._client
  connected,  \* BleManager._connected
  queue,      \* BleManager._command_queue
  worker,     \* the command workers
  handle,     \* BleManager._command_worker_task
  heard,      \* _last_notification_time: never, or within 60 seconds, or not
  proc,       \* the daemon's main(); the watchdog runs while it is "up"
  ordered,    \* systemd has sent SIGTERM
  attached,   \* the hub is connected to the daemon's socket
  accepted,   \* history: commands accepted so far
  written,    \* history: commands the device executed
  silent,     \* history: 60 seconds without a notification while connected
  spent       \* bounds used up so far

radio == <<near, live, mute, conns, losing>>
manager == <<pc, attempt, client, connected>>
commands == <<queue, worker, handle, accepted, written>>
watch == <<heard, silent>>
process == <<proc, ordered, attached>>

vars == <<radio, manager, commands, watch, process, spent>>

NoWorker == [pc |-> "none", cmd |-> 0, conn |-> 0]
Idle == [pc |-> "idle", cmd |-> 0, conn |-> 0]
Dead == [pc |-> "dead", cmd |-> 0, conn |-> 0]

Init ==
  /\ near \in BOOLEAN /\ live = 0 /\ mute = FALSE /\ conns = 0 /\ losing = FALSE
  /\ pc = "off" /\ attempt = 0 /\ client = 0 /\ connected = FALSE
  /\ queue = <<>> /\ worker = [w \in Links |-> NoWorker] /\ handle = 0
  /\ accepted = 0 /\ written = <<>>
  /\ heard = "never" /\ silent = FALSE
  /\ proc = "down" /\ ordered = FALSE /\ attached = FALSE
  /\ spent = [drops |-> 0, mutes |-> 0, restarts |-> 0, failures |-> 0]

\* An operation on connection n fails: the connection is gone, or bad luck.
FailsOn(n) ==
  \/ live # n /\ UNCHANGED spent
  \/ /\ live = n /\ spent.failures < MaxFailures
     /\ spent' = [spent EXCEPT !.failures = @ + 1]

-----------------------------------------------------------------------------
\* connect(), called by main() first and by the reconnect loop later.

\* connect() is over: main() goes on to the watchdog, the loop to its sleep.
ConnectReturns ==
  /\ pc' = "watching" /\ attempt' = 0
  /\ proc' = IF proc = "starting" THEN "up" ELSE proc
  /\ UNCHANGED <<watch, ordered, attached>>

\* Mutant: an exception ends the reconnect loop.
LoopDies ==
  /\ pc' = "ended" /\ attempt' = 0
  /\ proc' = IF proc = "starting" THEN "up" ELSE proc
  /\ UNCHANGED <<watch, ordered, attached>>

\* Both callers of connect() catch what it raises.
ConnectRaises == ConnectReturns

\* The lookup and establish_connection come to nothing.
SearchFails ==
  /\ pc = "searching"
  /\ ~near
  /\ ConnectRaises
  /\ UNCHANGED <<radio, client, connected, commands, spent>>

\* establish_connection returns a client.  BlueZ reports a loss before it
\* connects again.
SearchFinds ==
  /\ pc = "searching"
  /\ near /\ live = 0 /\ ~losing
  /\ conns' = conns + 1 /\ live' = conns' /\ mute' = FALSE
  /\ attempt' = conns' /\ pc' = "subscribing"
  /\ UNCHANGED <<near, losing, client, connected, commands, watch, process, spent>>

\* start_notify is answered; the coroutine is not back yet.
SubscribeAnswers ==
  /\ pc = "subscribing" /\ live = attempt
  /\ pc' = "subscribed"
  /\ UNCHANGED <<radio, attempt, client, connected, commands, watch, process, spent>>

\* It fails: the client is disconnected and forgotten.
SubscribeFails ==
  /\ pc = "subscribing"
  /\ FailsOn(attempt)
  /\ live' = 0 /\ client' = 0
  /\ ConnectRaises
  /\ UNCHANGED <<near, mute, conns, losing, connected, commands>>

\* The coroutine goes on, whatever the disconnected_callback has done
\* meanwhile.
TakesOver ==
  /\ pc = "subscribed"
  /\ client' = attempt /\ connected' = TRUE
  /\ pc' = "reading"
  /\ silent' = FALSE
  /\ UNCHANGED <<radio, attempt, commands, heard, process, spent>>

\* _perform_v3_initial_reads: the name and status, then biodata requests,
\* which are written to the command characteristic directly; what fails there
\* is logged.
InitialReads ==
  /\ \/ pc = "reading" /\ pc' \in {"asking", "settling"}
     \/ pc = "asking" /\ pc' = "settling"
  /\ UNCHANGED <<radio, attempt, client, connected, commands, watch, process, spent>>

\* Mutant: only if there is none.
CreatesOneWorker ==
  /\ pc = "settling"
  /\ worker' = IF handle = 0 THEN [worker EXCEPT ![attempt] = Idle] ELSE worker
  /\ handle' = IF handle = 0 THEN attempt ELSE handle
  /\ ConnectReturns
  /\ UNCHANGED <<radio, client, connected, queue, accepted, written, spent>>

\* The state is ready or 5 seconds are over: create a worker.
CreatesWorker ==
  /\ pc = "settling"
  /\ worker' = [worker EXCEPT ![attempt] = Idle] /\ handle' = attempt
  /\ ConnectReturns
  /\ UNCHANGED <<radio, client, connected, queue, accepted, written, spent>>

\* The reconnect loop sees that the connection is lost.
Reconnects ==
  /\ pc = "watching" /\ ~connected
  /\ pc' = "searching"
  /\ UNCHANGED <<radio, attempt, client, connected, commands, watch, process, spent>>

-----------------------------------------------------------------------------
\* Commands.

\* Mutant: the newest command first.
Stacks == queue' = <<accepted + 1>> \o queue

Enqueues == queue' = Append(queue, accepted + 1)

\* A set_* or activate_* request of the hub; not connected is an error.
EnqueueCommand ==
  /\ attached /\ connected
  /\ accepted < MaxCmds
  /\ Enqueues
  /\ accepted' = accepted + 1
  /\ UNCHANGED <<radio, manager, worker, handle, written, watch, process, spent>>

\* Mutant: _write_command does not look at the client.
WritesBlindly ==
  [pc |-> "writing", cmd |-> Head(queue), conn |-> client]

\* _write_command: "Not connected" ends the worker.
BeginsWrite ==
  IF connected /\ client # 0
  THEN [pc |-> "writing", cmd |-> Head(queue), conn |-> client]
  ELSE Dead

WorkerTakes(w) ==
  /\ worker[w].pc = "idle" /\ queue # <<>>
  /\ queue' = Tail(queue)
  /\ worker' = [worker EXCEPT ![w] = BeginsWrite]
  /\ UNCHANGED <<radio, manager, handle, accepted, written, watch, process, spent>>

WriteReaches(w) ==
  /\ worker[w].pc = "writing" /\ worker[w].conn = live
  /\ written' = Append(written, worker[w].cmd)
  /\ worker' = [worker EXCEPT ![w].pc = "answered"]
  /\ UNCHANGED <<radio, manager, queue, handle, accepted, watch, process, spent>>

WriteReturns(w) ==
  /\ worker[w].pc = "answered"
  /\ worker' = [worker EXCEPT ![w] = Idle]
  /\ UNCHANGED <<radio, manager, queue, handle, accepted, written, watch, process, spent>>

\* Nothing catches what the write raises: the worker ends.
WriteFails(w) ==
  /\ worker[w].pc \in {"writing", "answered"}
  /\ FailsOn(worker[w].conn)
  /\ worker' = [worker EXCEPT ![w] = Dead]
  /\ UNCHANGED <<radio, manager, queue, handle, accepted, written, watch, process>>

-----------------------------------------------------------------------------
\* The radio and the device.

LinkDrops ==
  /\ live # 0 /\ spent.drops < MaxDrops
  /\ live' = 0 /\ mute' = FALSE /\ losing' = TRUE
  /\ near' \in BOOLEAN
  /\ spent' = [spent EXCEPT !.drops = @ + 1]
  /\ UNCHANGED <<conns, manager, commands, watch, process>>

\* _on_disconnect.
LossNoticed ==
  /\ losing
  /\ losing' = FALSE /\ connected' = FALSE
  /\ UNCHANGED <<near, live, mute, conns, pc, attempt, client, commands, watch, process, spent>>

DeviceReturns ==
  /\ ~near
  /\ near' = TRUE
  /\ UNCHANGED <<live, mute, conns, losing, manager, commands, watch, process, spent>>

GoesMute ==
  /\ live # 0 /\ ~mute /\ spent.mutes < MaxMutes
  /\ mute' = TRUE
  /\ spent' = [spent EXCEPT !.mutes = @ + 1]
  /\ UNCHANGED <<near, live, conns, losing, manager, commands, watch, process>>

Sounding == live # 0 /\ ~mute

\* _on_notification; the device sends several in a second.
Notification ==
  /\ Sounding /\ pc # "subscribing"
  /\ heard # "fresh" \/ silent
  /\ heard' = "fresh" /\ silent' = FALSE
  /\ UNCHANGED <<radio, manager, commands, process, spent>>

\* 60 seconds without a notification.
Silence ==
  /\ proc # "down" /\ ~Sounding
  /\ heard = "fresh" \/ (connected /\ ~silent)
  /\ heard' = IF heard = "fresh" THEN "stale" ELSE heard
  /\ silent' = connected
  /\ UNCHANGED <<radio, manager, commands, process, spent>>

-----------------------------------------------------------------------------
\* The daemon process.

\* ExecStartPre clears a half-open session; main() opens the socket and calls
\* connect().
Boot ==
  /\ proc = "down"
  /\ proc' = "starting"
  /\ pc' = "searching"
  /\ UNCHANGED <<radio, attempt, client, connected, commands, watch, ordered, attached, spent>>

\* Everything in memory is gone, and so is the session.
ProcessEnds ==
  /\ proc' = "down" /\ ordered' = FALSE /\ attached' = FALSE
  /\ live' = 0 /\ mute' = FALSE /\ losing' = FALSE
  /\ pc' = "off" /\ attempt' = 0 /\ client' = 0 /\ connected' = FALSE
  /\ queue' = <<>> /\ worker' = [w \in Links |-> NoWorker] /\ handle' = 0
  /\ heard' = "never" /\ silent' = FALSE
  /\ UNCHANGED <<near, conns, accepted, written>>

Crash ==
  /\ proc # "down" /\ spent.restarts < MaxRestarts
  /\ ProcessEnds
  /\ spent' = [spent EXCEPT !.restarts = @ + 1]

\* stale_data_watchdog: cancel the main task, and end.
WatchdogFires ==
  /\ proc = "up"
  /\ connected /\ heard = "stale"
  /\ proc' = "closing"
  /\ UNCHANGED <<radio, manager, commands, heard, silent, ordered, attached, spent>>

\* SIGTERM cancels the main task; during the first connect() nothing catches
\* that.
Terminate ==
  /\ proc \in {"starting", "up", "closing"} /\ ~ordered
  /\ spent.restarts < MaxRestarts
  /\ spent' = [spent EXCEPT !.restarts = @ + 1]
  /\ \/ proc = "starting" /\ ProcessEnds
     \/ /\ proc # "starting"
        /\ proc' = "closing" /\ ordered' = TRUE
        /\ UNCHANGED <<radio, manager, commands, watch, attached>>

\* server.close() and wait_closed(), then disconnect(): the worker it knows of
\* and the reconnect loop are cancelled.
ServerCloses ==
  /\ proc = "closing"
  /\ WaitsForClients => ~attached
  /\ proc' = "leaving"
  /\ pc' = "ended" /\ attempt' = 0
  /\ worker' = [w \in Links |-> IF w = handle THEN Dead ELSE worker[w]]
  /\ UNCHANGED <<radio, client, connected, queue, handle, accepted, written, watch,
                 ordered, attached, spent>>

\* The client is disconnected, or 5 seconds are over.
Exit == proc = "leaving" /\ ProcessEnds /\ UNCHANGED spent

\* systemd's TimeoutStopSec is over.
Kill == ordered /\ ProcessEnds /\ UNCHANGED spent

HubAttaches ==
  /\ proc \in {"starting", "up"} /\ ~attached
  /\ attached' = TRUE
  /\ UNCHANGED <<radio, manager, commands, watch, proc, ordered, spent>>

HubDetaches ==
  /\ attached
  /\ attached' = FALSE
  /\ UNCHANGED <<radio, manager, commands, watch, proc, ordered, spent>>

-----------------------------------------------------------------------------
ConnectStep ==
  \/ SearchFails \/ SearchFinds \/ SubscribeAnswers \/ SubscribeFails
  \/ TakesOver \/ InitialReads \/ CreatesWorker \/ Reconnects

WorkerStep(w) ==
  WorkerTakes(w) \/ WriteReaches(w) \/ WriteReturns(w) \/ WriteFails(w)

Next ==
  \/ ConnectStep
  \/ \E w \in Links : WorkerStep(w)
  \/ EnqueueCommand
  \/ LinkDrops \/ LossNoticed \/ DeviceReturns \/ GoesMute
  \/ Notification \/ Silence
  \/ Boot \/ Crash \/ WatchdogFires \/ Terminate \/ ServerCloses \/ Exit \/ Kill
  \/ HubAttaches \/ HubDetaches

Spec == Init /\ [][Next]_vars

=============================================================================
