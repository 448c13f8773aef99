---------------------------------- MODULE Ipc ----------------------------------
(***************************************************************************)
(* The socket between the hub and the BLE daemon: the proxy client of      *)
(* hub/bedjet_hub/ble/ipc_client.py, the server of ble/ipc_server.py, and  *)
(* the WebSocket push of api/websocket.py that its cache feeds.            *)
(*                                                                         *)
(* A state or the metadata is a version number: a later one is a change.   *)
(* Connections are numbered as the daemon's socket accepts them, requests  *)
(* in the order in which the hub sends them (_req_id, which a new hub      *)
(* would count from one again).  Only the hub's newest connection carries  *)
(* messages to it; a handler of an older one goes on with what it was sent.*)
(***************************************************************************)
EXTENDS Integers, Sequences, SequencesExt

CONSTANTS
  NumRequests,  \* bound: calls to the daemon
  Led,          \* the requests that are set_led or set_muted
  Watchers,     \* the WebSockets
  MaxUpsets     \* bound: ends of the daemon and of the hub, and changes of
                \* the state and of the metadata, together

ASSUME IpcAssumption ==
  /\ NumRequests \in Nat /\ Led \subseteq 1 .. NumRequests
  /\ MaxUpsets \in Nat

Requests == 1 .. NumRequests
Lives == 1 .. 1 + MaxUpsets
Conns == 1 .. 1 + MaxUpsets

VARIABLES
  daemon,    \* the daemon runs and listens
  upsets,    \* the bound used up so far
  held,      \* BleManager._state and _metadata
  conns,     \* connections accepted so far
  conn,      \* the daemon's end of them: _handle_client
  told,      \* history: what the clients were last told
  client,    \* the proxy: connect(), connected, disconnect(); or no hub
  hubs,      \* starts of the hub so far
  link,      \* BleProxyClient.reader and writer: a connection, or 0
  down,      \* what that connection holds that the hub has not read
  cache,     \* BleProxyClient._state and _metadata
  pending,   \* BleProxyClient._pending_requests
  call,      \* each call and its future
  life,      \* history: the run of the hub that made it
  wrote,     \* history: the state a set_led produced
  executed,  \* history: the calls that had their effect
  watch      \* the WebSocket handlers

server == <<daemon, held, conns, conn, told>>
proxy == <<client, hubs, link, cache, pending>>
calls == <<call, life>>
effects == <<wrote, executed>>

vars == <<upsets, server, proxy, down, calls, effects, watch>>

NoHandler == [pc |-> "none", up |-> <<>>, job |-> 0, ok |-> FALSE]
NoWatcher == [pc |-> "off", shown |-> 0, queue |-> <<>>, missed |-> FALSE]
Defaults == [state |-> 0, meta |-> 0]

Init ==
  /\ daemon = FALSE /\ upsets = 0 /\ held = Defaults
  /\ conns = 0 /\ conn = [n \in Conns |-> NoHandler]
  /\ told = Defaults
  /\ client = "off" /\ hubs = 0 /\ link = 0 /\ down = <<>>
  /\ cache = Defaults /\ pending = {}
  /\ call = [r \in Requests |-> "idle"] /\ life = [r \in Requests |-> 0]
  /\ wrote = [r \in Requests |-> 0] /\ executed = {}
  /\ watch = [w \in Watchers |-> NoWatcher]

Upsets == upsets < MaxUpsets /\ upsets' = upsets + 1

Open(n) == conn[n].pc \in {"reading", "answering"}

\* What the daemon writes to connection n; the hub only has its newest one.
Writes(n, msgs) == down' = IF n = link THEN down \o msgs ELSE down

StateEvent(v) == [kind |-> "state", val |-> v, ok |-> TRUE]
MetaEvent(v) == [kind |-> "meta", val |-> v, ok |-> TRUE]
Reply(r, ok) == [kind |-> "reply", val |-> r, ok |-> ok]

\* _broadcast_state and _broadcast_metadata: to every attached client.
Broadcast(attached, msgs) ==
  down' = IF attached THEN down \o msgs ELSE down

HasClient == link # 0 /\ Open(link)

-----------------------------------------------------------------------------
\* The daemon's end: _handle_client, and the changes it broadcasts.

\* Mutant: the snapshot is left to the next change.
AttachesSilently(n) ==
  /\ conn[n].pc = "accepted"
  /\ conn' = [conn EXCEPT ![n].pc = "reading"]
  /\ UNCHANGED <<upsets, daemon, held, conns, told, proxy, down, calls, effects, watch>>

\* The handler starts: the client is added and all clients get a snapshot.
Attaches(n) ==
  /\ conn[n].pc = "accepted"
  /\ conn' = [conn EXCEPT ![n].pc = "reading"]
  /\ told' = held
  /\ Broadcast(HasClient \/ n = link, <<StateEvent(held.state), MetaEvent(held.meta)>>)
  /\ UNCHANGED <<upsets, daemon, held, conns, proxy, calls, effects, watch>>

\* The handler is through with the request it has read.
Answered(n, ok) ==
  [conn EXCEPT ![n] = [pc |-> "answering", up |-> Tail(@.up), job |-> Head(@.up), ok |-> ok]]

\* Mutant: the clients learn of a set_led only by the next notification.
SetsQuietly(r) ==
  /\ held' = [held EXCEPT !.state = @ + 1]
  /\ wrote' = [wrote EXCEPT ![r] = held'.state]
  /\ UNCHANGED <<told, down>>

\* set_led and set_muted change the state and tell the clients.
Sets(r) ==
  /\ held' = [held EXCEPT !.state = @ + 1]
  /\ wrote' = [wrote EXCEPT ![r] = held'.state]
  /\ told' = [told EXCEPT !.state = held'.state]
  /\ Broadcast(HasClient, <<StateEvent(held'.state)>>)

\* The next line is read and the manager's coroutine has its effect; set_mode
\* may still raise after its button was queued.
Executes(n) ==
  LET r == Head(conn[n].up) IN
  /\ conn[n].pc = "reading" /\ conn[n].up # <<>>
  /\ executed' = executed \cup {r}
  /\ \/ r \in Led /\ Sets(r) /\ conn' = Answered(n, TRUE)
     \/ /\ r \notin Led
        /\ \E ok \in BOOLEAN : conn' = Answered(n, ok)
        /\ UNCHANGED <<held, told, wrote, down>>
  /\ UNCHANGED <<upsets, daemon, conns, proxy, calls, watch>>

\* It raises, or there is no such command: nothing was done.
Refuses(n) ==
  /\ conn[n].pc = "reading" /\ conn[n].up # <<>>
  /\ conn' = Answered(n, FALSE)
  /\ UNCHANGED <<upsets, daemon, held, conns, told, proxy, down, calls, effects, watch>>

\* The response is written.
Replies(n) ==
  /\ conn[n].pc = "answering"
  /\ conn' = [conn EXCEPT ![n] = [@ EXCEPT !.pc = "reading", !.job = 0, !.ok = FALSE]]
  /\ Writes(n, <<Reply(conn[n].job, conn[n].ok)>>)
  /\ UNCHANGED <<upsets, daemon, held, conns, told, proxy, calls, effects, watch>>

\* The hub is gone: the handler meets the end of its input, or its write fails.
HandlerEnds(n) ==
  /\ n # link
  /\ \/ conn[n].pc = "reading" /\ conn[n].up = <<>>
     \/ conn[n].pc = "answering"
  /\ conn' = [conn EXCEPT ![n] = [NoHandler EXCEPT !.pc = "closed"]]
  /\ UNCHANGED <<upsets, daemon, held, conns, told, proxy, down, calls, effects, watch>>

\* A status notification: _on_notification tells the subscribers, or the
\* jitter filter keeps it to itself.
Notification ==
  /\ daemon /\ Upsets
  /\ held' = [held EXCEPT !.state = @ + 1]
  /\ \/ told' = [told EXCEPT !.state = held'.state]
        /\ Broadcast(HasClient, <<StateEvent(held'.state)>>)
     \/ UNCHANGED <<told, down>>
  /\ UNCHANGED <<daemon, conns, conn, proxy, calls, effects, watch>>

\* The initial reads are over: _notify_metadata_subscribers.
MetadataRead ==
  /\ daemon /\ Upsets
  /\ held' = [held EXCEPT !.meta = @ + 1]
  /\ told' = [told EXCEPT !.meta = held'.meta]
  /\ Broadcast(HasClient, <<MetaEvent(held'.meta)>>)
  /\ UNCHANGED <<daemon, conns, conn, proxy, calls, effects, watch>>

\* start(): a new process, with a state and metadata of its own.
DaemonBoots ==
  /\ ~daemon
  /\ daemon' = TRUE
  /\ held' = [state |-> held.state + 1, meta |-> held.meta + 1]
  /\ UNCHANGED <<upsets, conns, conn, told, proxy, down, calls, effects, watch>>

\* The process ends: its sockets are closed, what it wrote can still be read.
DaemonEnds ==
  /\ daemon /\ Upsets
  /\ daemon' = FALSE
  /\ conn' = [n \in Conns |-> IF conn[n].pc = "none" THEN conn[n]
                              ELSE [NoHandler EXCEPT !.pc = "closed"]]
  /\ UNCHANGED <<held, conns, told, proxy, down, calls, effects, watch>>

-----------------------------------------------------------------------------
\* The hub's end: BleProxyClient.

\* main() creates the proxy and waits in connect() before it serves anyone.
HubBoots ==
  /\ client = "off"
  /\ client' = "starting" /\ hubs' = hubs + 1
  /\ UNCHANGED <<upsets, server, link, cache, pending, down, calls, effects, watch>>

InProgress(r) == call[r] \in {"waiting", "answered", "expired", "dropped"}

\* The hub dies, and everything that waits in it.
HubEnds ==
  /\ client # "off" /\ Upsets
  /\ client' = "off" /\ link' = 0 /\ down' = <<>>
  /\ cache' = Defaults /\ pending' = {}
  /\ call' = [r \in Requests |-> IF InProgress(r) THEN "failed" ELSE call[r]]
  /\ watch' = [w \in Watchers |-> NoWatcher]
  /\ UNCHANGED <<server, hubs, life, effects>>

\* open_unix_connection succeeds as soon as the daemon listens; the handler
\* has not run yet.
Connects ==
  /\ client \in {"starting", "retrying"}
  /\ daemon /\ conns + 1 \in Conns
  /\ conns' = conns + 1 /\ link' = conns'
  /\ conn' = [conn EXCEPT ![conns'].pc = "accepted"]
  /\ client' = "connected" /\ down' = <<>>
  /\ UNCHANGED <<upsets, daemon, held, told, hubs, cache, pending, calls, effects, watch>>

\* _send_command, up to the wait for the answer.  Nobody reads the line if the
\* daemon has closed its end; drain() may notice, and raise with the entry in
\* _pending_requests left.
Send(r) ==
  /\ call[r] = "idle" /\ \A q \in Requests : q < r => call[q] # "idle"
  /\ client = "connected"
  /\ pending' = pending \cup {r}
  /\ life' = [life EXCEPT ![r] = hubs]
  /\ conn' = [conn EXCEPT ![link].up = Append(@, r)]
  /\ \E s \in {"waiting", "dropped"} :
       /\ s = "dropped" => conn[link].pc = "closed"
       /\ call' = [call EXCEPT ![r] = s]
  /\ UNCHANGED <<upsets, daemon, held, conns, told, client, hubs, link, cache, down, effects, watch>>

\* Mutant: the queue holds one state and drops what comes while it is full.
NotifiedIfRoom(handler, v) ==
  IF handler.pc = "streaming" /\ handler.queue = <<>>
  THEN [handler EXCEPT !.queue = <<v>>] ELSE handler

\* _notify_subscribers: each open WebSocket has a queue.
Notified(handler, v) ==
  IF handler.pc = "streaming" THEN [handler EXCEPT !.queue = Append(@, v)] ELSE handler

\* The read loop reads an event: cache and subscribers.
ReadEvent ==
  /\ client = "connected" /\ down # <<>>
  /\ LET e == Head(down) IN
     /\ e.kind \in {"state", "meta"}
     /\ cache' = [cache EXCEPT ![e.kind] = e.val]
     /\ watch' = IF e.kind = "meta" THEN watch
                 ELSE [w \in Watchers |-> Notified(watch[w], e.val)]
  /\ down' = Tail(down)
  /\ UNCHANGED <<upsets, server, client, hubs, link, pending, calls, effects>>

\* Mutant: responses are taken for those of the oldest entries.
ReadReplyInOrder ==
  /\ client = "connected" /\ down # <<>> /\ Head(down).kind = "reply"
  /\ LET ok == Head(down).ok
         oldest == {r \in pending : \A q \in pending : r =< q}
     IN /\ pending' = pending \ oldest
        /\ call' = [r \in Requests |->
                      IF r \in oldest /\ call[r] = "waiting"
                      THEN IF ok THEN "answered" ELSE "failed" ELSE call[r]]
  /\ down' = Tail(down)
  /\ UNCHANGED <<upsets, server, client, hubs, link, cache, life, effects, watch>>

\* The read loop reads a response.  An entry that is gone or a future that is
\* done leaves it without effect.
ReadReply ==
  /\ client = "connected" /\ down # <<>>
  /\ LET e == Head(down) IN
     /\ e.kind = "reply"
     /\ pending' = pending \ {e.val}
     /\ call' = IF e.val \in pending /\ call[e.val] = "waiting"
                THEN [call EXCEPT ![e.val] = IF e.ok THEN "answered" ELSE "failed"]
                ELSE call
  /\ down' = Tail(down)
  /\ UNCHANGED <<upsets, server, client, hubs, link, cache, life, effects, watch>>

\* Mutant: disconnect() forgets the futures without failing them.
FailsNone == call

\* disconnect(): "Cancel all pending requests so they don't hang".
FailsWaiting ==
  [r \in Requests |-> IF r \in pending /\ call[r] = "waiting" THEN "failed" ELSE call[r]]

\* Mutant: disconnect() leaves _connected set.
EndsConnected ==
  /\ client = "connected" /\ down = <<>> /\ conn[link].pc = "closed"
  /\ link' = 0
  /\ call' = FailsWaiting
  /\ pending' = {}
  /\ UNCHANGED <<upsets, server, client, hubs, cache, down, life, effects, watch>>

\* The read loop meets the end of the stream, or the error of a write to the
\* closed end, which discards what was not read; it calls disconnect().
ReadEnd ==
  /\ client = "connected" /\ conn[link].pc = "closed"
  /\ down = <<>> \/ conn[link].up # <<>>
  /\ client' = "closing" /\ link' = 0 /\ down' = <<>>
  /\ call' = FailsWaiting
  /\ pending' = {}
  /\ UNCHANGED <<upsets, server, hubs, cache, life, effects, watch>>

\* The writer is closed; a task is created for connect().
Reconnects ==
  /\ client = "closing"
  /\ client' = "retrying"
  /\ UNCHANGED <<upsets, server, hubs, link, cache, pending, down, calls, effects, watch>>

\* The ten seconds of wait_for are over: the future is cancelled; or (from
\* Python 3.12 on) the task is, although its future has just been answered.
Expires(r) ==
  /\ \/ call[r] = "waiting" /\ call' = [call EXCEPT ![r] = "expired"]
     \/ call[r] = "answered" /\ call' = [call EXCEPT ![r] = "failed"]
  /\ UNCHANGED <<upsets, server, proxy, down, life, effects, watch>>

\* Mutant: the entry stays.
ResumesOnly(r) ==
  /\ call[r] \in {"answered", "expired", "dropped"}
  /\ call' = [call EXCEPT ![r] = IF @ = "answered" THEN "ok" ELSE "failed"]
  /\ UNCHANGED <<upsets, server, proxy, down, life, effects, watch>>

\* The coroutine goes on; after a time-out it removes its entry.
Resumes(r) ==
  /\ call[r] \in {"answered", "expired", "dropped"}
  /\ call' = [call EXCEPT ![r] = IF @ = "answered" THEN "ok" ELSE "failed"]
  /\ pending' = IF call[r] = "expired" THEN pending \ {r} ELSE pending
  /\ UNCHANGED <<upsets, server, client, hubs, link, cache, down, life, effects, watch>>

-----------------------------------------------------------------------------
\* The WebSocket handlers of the hub.

\* accept() and get_state(); _build_state then awaits the database.
Opens(w) ==
  /\ watch[w].pc = "off" /\ client \notin {"off", "starting"}
  /\ watch' = [watch EXCEPT ![w] = [NoWatcher EXCEPT !.pc = "opening", !.shown = cache.state]]
  /\ UNCHANGED <<upsets, server, proxy, down, calls, effects>>

\* The first state is sent; only then does the handler subscribe.
Subscribes(w) ==
  /\ watch[w].pc = "opening"
  /\ watch' = [watch EXCEPT ![w].pc = "streaming", ![w].missed = watch[w].shown # cache.state]
  /\ UNCHANGED <<upsets, server, proxy, down, calls, effects>>

\* q.get(), _build_state and send_json.
Delivers(w) ==
  /\ watch[w].pc = "streaming" /\ watch[w].queue # <<>>
  /\ watch' = [watch EXCEPT ![w] = [@ EXCEPT !.shown = Head(watch[w].queue),
                                            !.queue = Tail(watch[w].queue),
                                            !.missed = FALSE]]
  /\ UNCHANGED <<upsets, server, proxy, down, calls, effects>>

\* The browser leaves, and the next state or ping cannot be sent.
Leaves(w) ==
  /\ watch[w].pc \in {"opening", "streaming"}
  /\ watch' = [watch EXCEPT ![w] = NoWatcher]
  /\ UNCHANGED <<upsets, server, proxy, down, calls, effects>>

-----------------------------------------------------------------------------

HandlerStep(n) ==
  \/ Attaches(n) \/ Executes(n) \/ Refuses(n)
  \/ Replies(n) \/ HandlerEnds(n)

ReadStep == ReadEvent \/ ReadReply \/ ReadEnd

Next ==
  \/ \E n \in Conns : HandlerStep(n)
  \/ Notification \/ MetadataRead
  \/ DaemonBoots \/ DaemonEnds
  \/ HubBoots \/ HubEnds
  \/ Connects \/ ReadStep \/ Reconnects
  \/ \E r \in Requests : Send(r) \/ Expires(r) \/ Resumes(r)
  \/ \E w \in Watchers :
       Opens(w) \/ Subscribes(w) \/ Delivers(w) \/ Leaves(w)

Spec == Init /\ [][Next]_vars
=============================================================================
