-------------------------------- MODULE IpcProps --------------------------------
(* What the hub's routes, caches and WebSockets rely on. *)
EXTENDS Ipc

HandlerType ==
  [pc : {"none", "accepted", "reading", "answering", "closed"},
   up : Seq(Requests), job : {0} \cup Requests, ok : BOOLEAN]

EventType == [kind : {"state", "meta"}, val : Nat, ok : {TRUE}]
ReplyType == [kind : {"reply"}, val : Requests, ok : BOOLEAN]

Messages == EventType \cup ReplyType

WatcherType ==
  [pc : {"off", "opening", "streaming"}, shown : Nat, queue : Seq(Nat),
   missed : BOOLEAN]

\* Every variable has its type, and a handler that works has a request to
\* answer.
TypeOK ==
  /\ daemon \in BOOLEAN /\ upsets \in 0 .. MaxUpsets
  /\ held \in [state : Nat, meta : Nat] /\ told \in [state : Nat, meta : Nat]
  /\ cache \in [state : Nat, meta : Nat]
  /\ conns \in {0} \cup Conns /\ link \in 0 .. conns
  /\ conn \in [Conns -> HandlerType]
  /\ \A n \in Conns : conn[n].pc = "answering" => conn[n].job \in Requests
  /\ client \in {"off", "starting", "connected", "closing", "retrying"}
  /\ client = "connected" => link # 0
  /\ hubs \in {0} \cup Lives
  /\ down \in Seq(Messages)
  /\ pending \subseteq Requests
  /\ call \in [Requests -> {"idle", "waiting", "answered", "expired", "dropped", "ok",
                            "failed"}]
  /\ life \in [Requests -> {0} \cup Lives] /\ wrote \in [Requests -> Nat]
  /\ executed \subseteq Requests
  /\ watch \in [Watchers -> WatcherType]

\* The version of a topic that the hub will have read last of all.
Of(topic) == {i \in DOMAIN down : down[i].kind = topic}
Newest(topic) == CHOOSE i \in Of(topic) : \A j \in Of(topic) : j =< i
Arriving(topic) == IF Of(topic) = {} THEN cache[topic] ELSE down[Newest(topic)].val

\* Once the daemon's handler runs, what the hub has cached or will read last
\* is what the daemon told last, for the state and for the metadata: no
\* interleaving of a snapshot, a broadcast, a second connection and a crash
\* leaves the cache behind.
CacheFollows ==
  client = "connected" /\ Open(link)
    => \A topic \in {"state", "meta"} : Arriving(topic) = told[topic]

\* When set_led or set_muted has returned, get_state() shows its effect.
ReadYourWrites ==
  \A r \in Led : call[r] = "ok" /\ life[r] = hubs /\ client # "off"
    => cache.state >= wrote[r]

\* As long as the hub is connected it can match an answer to every call that
\* waits, and it keeps no entry of a call that is over, but for one that met
\* a closed connection; when it is not connected, nobody waits.
PendingMatchesCalls ==
  LET Waiting == {r \in Requests : call[r] = "waiting"} IN
  /\ Waiting \subseteq pending
  /\ \A r \in pending : \/ call[r] \in {"waiting", "expired"}
                        \/ call[r] \in {"dropped", "failed"} /\ conn[link].pc = "closed"
  /\ client # "connected" => pending = {}

\* A WebSocket that is open will last of all show the state the hub has, but
\* for a change between its first message and its subscription, which it
\* misses until the next one.
WatcherFollows ==
  \A w \in Watchers : watch[w].pc = "streaming"
    => \/ Last(<<watch[w].shown>> \o watch[w].queue) = cache.state
       \/ watch[w].queue = <<>> /\ watch[w].missed

\* The socket implements the calls that the hub relies on.
Calls ==
  INSTANCE Rpc WITH
    status <- [r \in Requests |-> IF InProgress(r) THEN "open" ELSE call[r]]

RpcHolds == Calls!Spec

-----------------------------------------------------------------------------
\* Liveness.  The event loops of both processes run what can run; systemd
\* restarts both.  No notification has to come, no call has to be made, no
\* time-out has to fire.

Fairness ==
  /\ \A n \in Conns : WF_vars(HandlerStep(n))
  /\ WF_vars(DaemonBoots) /\ WF_vars(HubBoots)
  /\ WF_vars(Connects) /\ WF_vars(ReadStep) /\ WF_vars(Reconnects)
  /\ \A r \in Requests : WF_vars(Resumes(r))
  /\ \A w \in Watchers : WF_vars(Subscribes(w)) /\ WF_vars(Delivers(w))

FairSpec == Spec /\ Fairness

Synchronous ==
  /\ client = "connected" /\ cache = told
  /\ \A r \in Requests : ~InProgress(r)

\* After the last crash, loss and call, the hub is connected with a cache that
\* shows what the daemon told last, and no call is left waiting.
Settles == <>[]Synchronous

=============================================================================
