---------------------------------- MODULE Api ----------------------------------
(***************************************************************************)
(* The way of one request through the system: from an MCP tool call        *)
(* (mcp/server.py) or any other caller of the hub's HTTP API, through the  *)
(* gate (Gate), a route with its request model (api/routes_*.py), the      *)
(* socket to the daemon (ipc_client.py, ipc_server.py) and the BLE         *)
(* manager's method, and back.  Caller, hub and daemon each go on by       *)
(* themselves when another one has given up.  What the device makes of the *)
(* commands is module Panel's.                                             *)
(***************************************************************************)
EXTENDS Gate, Seek

CONSTANTS
  Percents,     \* values that callers give for a fan speed
  MaxSteps,     \* bound on the steps of a program
  MaxDuration   \* bound on a step's minutes

ASSUME ApiAssumption ==
  Percents \subseteq Int /\ MaxSteps \in Nat /\ MaxDuration \in Nat

VARIABLES
  env,       \* the hub's environment
  model,     \* the device's: "v2" or "v3"
  request,   \* the request
  stage,     \* how far it has come in the hub
  line,      \* and in the daemon: asked, accepted, its reply under way
  answer,    \* the hub's answer: an HTTP status and what the body says
  told,      \* the MCP server's result: flagged as an error, and its text
  done       \* the operation was carried out; a device command: the manager
             \* has queued it, or found the device in the mode asked for

vars == <<env, model, request, stage, line, answer, told, done>>

Nobody == [status |-> 0, says |-> "nothing"]
NoResult == [isError |-> FALSE, says |-> "nothing"]

DefaultEnv ==
  [token |-> "secret", wsQuery |-> "unclear", team |-> "unset", audience |-> "blank",
   emails |-> {}]
Trusted == [NoCredentials EXCEPT !.authorization = "bearer_secret"]

-----------------------------------------------------------------------------
\* What can be asked for.

Ask(op, arg) == [op |-> op, arg |-> arg]

DeviceOps == {"fan", "temperature", "runtime", "mode", "memory", "led", "mute", "clock"}

Durations == UNION {[1 .. n -> 0 .. MaxDuration] : n \in 0 .. MaxSteps}

Commands ==
  {Ask("fan", p) : p \in Percents}
  \cup {Ask("runtime", hm) : hm \in {<<0, 0>>, <<2, 30>>, <<255, 59>>, <<1, 60>>, <<-1, 5>>}}
  \cup {Ask("mode", m) : m \in {"heat", "dry", "extended_heat", "wait"}}
  \cup {Ask("memory", n) : n \in 0 .. 4}
  \cup {Ask(op, on) : op \in {"led", "mute"}, on \in BOOLEAN}
  \cup {Ask(op, "none") : op \in {"clock", "temperature"}}

\* A start time as ISO 8601 with an offset, without one, or something else.
Activations ==
  [known : BOOLEAN, time : {"aware", "naive", "other"},
   steps : Durations, delta : 0 .. MaxSteps * MaxDuration + 1]

ProgramCalls ==
  {Ask("activate", x) : x \in Activations}
  \cup {Ask("update", x) : x \in [known : BOOLEAN, minutes : {-1, 0}]}

PathOf(a) ==
  IF a.op = "activate" THEN <<"api", "programs", "id", "activate">>
  ELSE IF a.op = "update" THEN <<"api", "programs", "id">>
  ELSE IF a.op = "memory" THEN <<"api", "device", "memory", "id">>
  ELSE IF a.op = "clock" THEN <<"api", "device", "clock", "sync">>
  ELSE IF a.op \in DeviceOps THEN <<"api", "device", a.op>>
  ELSE <<"api", "device">>

Http(a, cred) ==
  [via |-> "http", scope |-> "http", method |-> "POST", path |-> PathOf(a),
   cred |-> cred, ask |-> a]

Probe(scope, method, path, cred) ==
  [via |-> "http", scope |-> scope, method |-> method, path |-> path, cred |-> cred,
   ask |-> Ask("get", "none")]

Get == Probe("http", "GET", <<"api", "device">>, NoCredentials)

\* Short paths of all segments, and the routes with a segment of their own.
ShortPaths == UNION {[1 .. n -> Segments] : n \in 0 .. 3}

Paths ==
  ShortPaths
  \cup {<<"api", "programs", s, "activate">> : s \in Segments}
  \cup {<<"api", "device", "memory", s>> : s \in Segments}
  \cup {<<"api", "device", "biorhythm", s>> : s \in Segments}

\* Any path without credentials, with any method; any credentials on two.
Probes ==
  {Probe(s, m, p, NoCredentials) :
     s \in {"http", "websocket"}, p \in Paths, m \in {"GET", "OPTIONS"}}
  \cup {Probe(s, "GET", p, c) :
          s \in {"http", "websocket"}, p \in {<<"api", "device">>, <<"ws">>},
          c \in Credentials}

\* What an MCP client sends: tools/list, initialize, a notification, a method
\* that does not exist; calls of a tool, some of which cannot be made.
Messages == {Ask("message", m) :
               m \in {"initialize", "notifications/initialized", "tools/list", "ping"}}
BadCalls == {Ask("unknown_tool", "none"), Ask("argument_missing", "none")}
ToolCalls == Commands \cup ProgramCalls \cup {Ask("get", "none")}

Mcp(a) == [Http(a, Trusted) EXCEPT !.via = "mcp"]

\* The inputSchema of the tools.
InSchema(a) ==
  CASE a.op = "fan" -> a.arg \in 5 .. 100
    [] a.op = "runtime" -> a.arg[1] >= 0 /\ a.arg[2] \in 0 .. 59
    [] a.op = "mode" -> a.arg \in {"standby", "heat", "turbo", "extended_heat", "cool", "dry"}
    [] a.op = "memory" -> a.arg \in 1 .. 3
    [] OTHER -> TRUE

-----------------------------------------------------------------------------
\* The routers' patterns.  A parameter is one segment, any but the empty one.
Param == "{}"

Patterns ==
  {<<"api", "device">>, <<"api", "device", "clock", "sync">>,
   <<"api", "device", "memory", Param>>, <<"api", "device", "biorhythm", Param>>,
   <<"api", "programs">>, <<"api", "programs", Param>>,
   <<"api", "programs", Param, "activate">>, <<"api", "preferences">>}
  \cup {<<"api", "device", op>> :
          op \in {"mode", "fan", "temperature", "led", "mute", "runtime"}}
  \cup {<<"api", "programs", op>> : op \in {"stop", "active"}}

Matches(path, pattern) ==
  /\ Len(path) = Len(pattern)
  /\ \A i \in 1 .. Len(path) :
       path[i] = pattern[i] \/ (pattern[i] = Param /\ path[i] # "")

\* Which methods a pattern is for is left out.
Routed(r) ==
  \/ r.scope = "http" /\ r.method # "OPTIONS" /\ \E p \in Patterns : Matches(r.path, p)
  \/ r.scope = "http" /\ r.path \in {<<"docs">>, <<"openapi.json">>} /\ r.method = "GET"
  \/ r.scope = "websocket" /\ r.path = <<"ws">>

\* Mutant: the fan's lowest speed is refused.
ValidFanLate(a) ==
  CASE a.op = "fan" -> a.arg \in 6 .. 100
    [] OTHER -> TRUE

\* The request models, MODE_MAP and the slot's check; otherwise 422.
Valid(a) ==
  CASE a.op = "fan" -> a.arg \in 5 .. 100
    [] a.op = "runtime" -> a.arg[1] >= 0 /\ a.arg[2] \in 0 .. 59
    [] a.op = "mode" -> a.arg \in {"standby", "heat", "turbo", "extended_heat", "cool", "dry"}
    [] a.op = "memory" -> a.arg \in {1, 2, 3}
    [] a.op = "update" -> a.arg.minutes >= 0
    [] OTHER -> TRUE

\* A "detail" is the JSON of an HTTPException with 4xx; a "reason" that of the
\* 500 in activate_program; "plain" the text of an exception nobody caught.
Out(status, says, carriedOut) == [status |-> status, says |-> says, done |-> carriedOut]

\* Mutant: the answer to an error is given no status code.
BreaksUnseen(says) == {Out(200, says, d) : d \in BOOLEAN}

\* Something raises half way.
Breaks(says) == {Out(500, says, d) : d \in BOOLEAN}

\* update_program: get_program looks first; a deletion may come before the
\* last get_program; a statement may be refused half way.
UpdateOutcomes(a) ==
  IF ~a.arg.known THEN {Out(404, "detail", FALSE)}
  ELSE {Out(200, "data", TRUE), Out(404, "detail", TRUE)}
       \cup Breaks("plain")

\* activate_program.  An aware "now" minus a naive start is a TypeError; the
\* device, the database or a closing hub may raise half way.
ActivateOutcomes(a) ==
  IF ~a.arg.known THEN {Out(404, "detail", FALSE)}
  ELSE IF a.arg.steps = <<>> THEN {Out(400, "detail", FALSE)}
  ELSE IF a.arg.time = "other" THEN {Out(422, "detail", FALSE)}
  ELSE IF a.arg.time = "naive" THEN {Out(500, "plain", FALSE)}
  ELSE IF Sought(a.arg.steps, a.arg.delta).found = 0 THEN {Out(400, "detail", FALSE)}
  ELSE {Out(200, "ok", TRUE)} \cup Breaks("reason") \cup Breaks("plain")

\* What a V2 has no command for; its manager's method returns without a word.
Supports(a) ==
  \/ model = "v3"
  \/ a.op \notin {"runtime", "memory", "clock"}
     /\ ~(a.op = "mode" /\ a.arg \in {"extended_heat", "dry"})

-----------------------------------------------------------------------------
\* Either a hub in any environment, or any device behind a hub that wants a
\* token.
Init ==
  /\ \/ stage = "set_up" /\ env \in Environments /\ model = "v3"
     \/ stage = "idle" /\ env = DefaultEnv /\ model \in {"v2", "v3"}
  /\ request = Get /\ line = "none"
  /\ answer = Nobody /\ told = NoResult /\ done = FALSE

\* A caller sends a request.
Sends(r) ==
  /\ request' = r
  /\ stage' = "sent"
  /\ UNCHANGED <<env, model, line, answer, told, done>>

Tries == stage = "set_up" /\ \E r \in Probes : Sends(r)
Posts == stage = "idle" /\ \E a \in Commands : Sends(Http(a, Trusted))

\* tools/call, call_tool: the call becomes a request of the hub.
Calls == stage = "idle" /\ \E a \in ToolCalls : Sends(Mcp(a))

Tell(isError, says) == told' = [isError |-> isError, says |-> says]

\* handle_message: what needs no hub is answered at once; of the calls, an
\* unknown tool (RpcError) and a missing argument (KeyError) are errors.
Handles ==
  /\ stage = "idle"
  /\ \E a \in Messages \cup BadCalls :
       /\ request' = Mcp(a)
       /\ CASE a.arg \in {"initialize", "tools/list"} -> Tell(FALSE, "data")
            [] a.arg = "notifications/initialized" -> Tell(FALSE, "nothing")
            [] OTHER -> Tell(TRUE, "error")
  /\ stage' = "over"
  /\ UNCHANGED <<env, model, line, answer, done>>

AgentWaits == request.via = "mcp" /\ told = NoResult /\ stage \notin {"set_up", "idle", "over"}

\* URLError: the request has not left.
HubUnreachable ==
  /\ AgentWaits /\ stage = "sent"
  /\ Tell(TRUE, "unreachable")
  /\ stage' = "over"
  /\ UNCHANGED <<env, model, request, line, answer, done>>

\* The 10 seconds of urlopen are over, or the hub has died; the hub, if it
\* lives, goes on.
AgentGivesUp ==
  /\ AgentWaits
  /\ Tell(TRUE, "timed_out")
  /\ UNCHANGED <<env, model, request, stage, line, answer, done>>

-----------------------------------------------------------------------------
\* The hub.

Answers(status, says) ==
  /\ answer' = [status |-> status, says |-> says]
  /\ stage' = "answered"

\* The gate: on to the router, or 401 (a WebSocket is closed).
PassesGate(keys) ==
  /\ stage = "sent"
  /\ IF LetsThrough(env, request, keys)
     THEN stage' = "passed" /\ UNCHANGED answer
     ELSE Answers(401, "detail")
  /\ UNCHANGED <<env, model, request, line, told, done>>

\* No such route, an argument that the request model or the route refuses.
Refuses ==
  /\ stage = "passed"
  /\ ~Routed(request) \/ ~Valid(request.ask)
  /\ Answers(IF Routed(request) THEN 422 ELSE 404, "detail")
  /\ UNCHANGED <<env, model, request, line, told, done>>

Accepts(ops) ==
  stage = "passed" /\ Routed(request) /\ Valid(request.ask) /\ request.ask.op \in ops

\* GET: the cached state.
Reads ==
  /\ Accepts({"get"})
  /\ Answers(200, "data") /\ done' = TRUE
  /\ UNCHANGED <<env, model, request, line, told>>

ServesProgram ==
  /\ Accepts({"activate", "update"})
  /\ \E o \in IF request.ask.op = "update" THEN UpdateOutcomes(request.ask)
                                           ELSE ActivateOutcomes(request.ask) :
       Answers(o.status, o.says) /\ done' = o.done
  /\ UNCHANGED <<env, model, request, line, told>>

\* _send_command: the command is written to the socket ...
Forwards ==
  /\ Accepts(DeviceOps)
  /\ stage' = "asking" /\ line' = "asked"
  /\ UNCHANGED <<env, model, request, answer, told, done>>

\* ... or there is none: ConnectionError.
NotConnected ==
  /\ Accepts(DeviceOps)
  /\ Answers(200, "failed")
  /\ UNCHANGED <<env, model, request, line, told, done>>

\* The reply is read; a raised error becomes {"ok": False}, with status 200.
HearsDaemon ==
  /\ stage = "asking" /\ line \in {"ok", "error"}
  /\ Answers(200, IF line = "ok" THEN "ok" ELSE "failed")
  /\ line' = "none"
  /\ UNCHANGED <<env, model, request, told, done>>

\* Mutant: the route does not look at what the client raised.
GivesUpSilently ==
  /\ stage = "asking"
  /\ Answers(200, "ok")
  /\ UNCHANGED <<env, model, request, line, told, done>>

\* No reply in 10 seconds, or the socket is closed; the daemon, if it lives,
\* goes on.
GivesUp ==
  /\ stage = "asking"
  /\ Answers(200, "failed")
  /\ UNCHANGED <<env, model, request, line, told, done>>

-----------------------------------------------------------------------------
\* The daemon: _handle_client and the manager's method.

\* The packet is in the queue.  (set_mode of a V2 may find the mode reported.)
ManagerAccepts ==
  /\ line = "asked" /\ Supports(request.ask)
  /\ line' = "accepted" /\ done' = TRUE
  /\ UNCHANGED <<env, model, request, stage, answer, told>>

\* set_mode waits for the report, and on a V3 may write the runtime back.
ManagerReturns ==
  /\ line = "accepted"
  /\ line' = "ok"
  /\ UNCHANGED <<env, model, request, stage, answer, told, done>>

ManagerIgnores ==
  /\ line = "asked" /\ ~Supports(request.ask)
  /\ line' = "ok"
  /\ UNCHANGED <<env, model, request, stage, answer, told, done>>

\* Not connected to the device, or a value that is no byte; set_mode may also
\* find out when it writes the runtime back.
ManagerRaises ==
  /\ \/ line = "asked" /\ Supports(request.ask)
     \/ line = "accepted" /\ request.ask.op = "mode" /\ model = "v3"
  /\ line' = "error"
  /\ UNCHANGED <<env, model, request, stage, answer, told, done>>

DaemonEnds ==
  /\ line # "none"
  /\ line' = "none"
  /\ UNCHANGED <<env, model, request, stage, answer, told, done>>

-----------------------------------------------------------------------------
\* hub_get, hub_put and hub_delete turn an HTTP error into an RpcError;
\* hub_post returns the body of one if that is JSON, unless it is a 401.
IsPost(op) == op \in DeviceOps \cup {"activate"}

Tells ==
  /\ AgentWaits /\ stage = "answered"
  /\ CASE answer.status = 401 -> Tell(TRUE, "unauthorized")
       [] answer.says = "plain" -> Tell(TRUE, "error")
       [] answer.status \notin {200, 401} /\ ~IsPost(request.ask.op) -> Tell(TRUE, "error")
       [] OTHER -> Tell(FALSE, answer.says)
  /\ UNCHANGED <<env, model, request, stage, line, answer, done>>

Next ==
  \/ Tries \/ Posts \/ Calls \/ Handles \/ HubUnreachable \/ AgentGivesUp
  \/ (\E keys \in BOOLEAN : PassesGate(keys))
  \/ Refuses \/ Reads \/ ServesProgram
  \/ Forwards \/ NotConnected \/ HearsDaemon \/ GivesUp
  \/ ManagerAccepts \/ ManagerReturns \/ ManagerIgnores \/ ManagerRaises \/ DaemonEnds
  \/ Tells

Spec == Init /\ [][Next]_vars

=============================================================================
