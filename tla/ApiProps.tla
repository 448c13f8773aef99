------------------------------- MODULE ApiProps -------------------------------
(* What a caller of the hub, or an agent behind the MCP server, can rely on. *)
EXTENDS Api

Says == {"nothing", "detail", "reason", "plain", "data", "ok", "failed"}

\* A refusal has a detail, an error a reason or plain text, a result is a 200.
HubAnswers ==
  {Nobody} \cup [status : {400, 401, 404, 422}, says : {"detail"}]
  \cup [status : {500}, says : {"reason", "plain"}]
  \cup [status : {200}, says : {"data", "ok", "failed"}]

ToolResults ==
  [isError : BOOLEAN,
   says : Says \cup {"error", "unreachable", "timed_out", "unauthorized"}]

TypeOK ==
  /\ env \in Environments /\ model \in {"v2", "v3"}
  /\ stage \in {"set_up", "idle", "sent", "passed", "asking", "answered", "over"}
  /\ line \in {"none", "asked", "accepted", "ok", "error"}
  /\ answer \in HubAnswers /\ told \in ToolResults /\ done \in BOOLEAN

\* The request carries what a mechanism that is configured asks for.
CarriesToken(r) ==
  /\ env.token = "secret"
  /\ \/ r.cred.authorization = "bearer_secret"
     \/ r.scope = "websocket" /\ env.wsQuery # "off" /\ r.cred.query = "secret"
CarriesAssertion(r) ==
  /\ env.team = "bare" /\ env.audience = "aud"
  /\ \/ r.cred.assertion = "listed"
     \/ r.cred.assertion \in {"unlisted", "no_email"} /\ env.emails = {}

\* The gate cuts the path where the routers cut it: each segment decodes to
\* one.
CutAlike(path) ==
  \A i \in 1 .. Len(path) : Unquoted[path[i]] \in [1 .. 1 -> STRING]

\* With a mechanism configured, what the routers serve is served only to a
\* request that satisfies one of them, HTTP or WebSocket, with any segment,
\* dots or escapes included, as a route's parameter; and the shared token's
\* holder is never turned away, not even while the signing keys cannot be
\* fetched.  (For the paths that the gate cuts as the routers do; the
\* docstring of is_protected_path does not make that exception.)
ServesTheEntitled ==
  /\ /\ stage \in {"passed", "asking", "answered"} /\ answer.status # 401
     /\ Routed(request) /\ CutAlike(request.path)
     /\ env.token = "secret" \/ (env.team = "bare" /\ env.audience = "aud")
     => CarriesToken(request) \/ CarriesAssertion(request)
  /\ answer.status = 401 =>
       ~(env.token = "secret" /\ request.cred.authorization = "bearer_secret")

\* An update that a deletion overtakes writes steps and answers 404.
Overtaken == request.ask.op = "update"

\* Whoever has been told that an operation went well, by the hub or through
\* the MCP server, can rely on it that it was carried out, unless the device
\* is a V2 that cannot do it.  A refusal (4xx, whether flagged as an error or
\* not) and "unreachable" mean that it was not and never will be, although
\* the daemon may go on after the hub gave up, and the hub after the agent.
ToldTheTruth ==
  /\ answer.says \in {"ok", "data"} => done \/ ~Supports(request.ask)
  /\ answer.says = "detail" => ~done \/ Overtaken
  /\ request.ask.op # "message" =>
       /\ told.says \in {"ok", "data"} => done \/ ~Supports(request.ask)
       /\ told.says = "detail" => ~done \/ Overtaken
       /\ told.says \in {"unauthorized", "unreachable"} => ~done

\* What the schema of a device tool admits, the hub's request models and
\* routes admit.
ToolsFitTheHub ==
  /\ stage = "answered" /\ request.via = "mcp"
  /\ request.ask.op \in DeviceOps /\ InSchema(request.ask)
  => answer.status # 422

\* The loop stops at exactly the step that the running totals name, with the
\* remaining time they give, and falls through exactly when they name none:
\* among others, when the last step is just over and when every step has
\* duration zero.  A program is activated in the first case only.
SeekFindsTheStep ==
  request.ask.op = "activate" =>
    LET a == request.ask.arg
        s == Sought(a.steps, a.delta)
        d == AsProgram(a.steps)
    IN  /\ IF s.found = 0 THEN NothingAt(d, a.delta)
           ELSE /\ IsStepAt(d, s.found, a.delta)
                /\ a.steps[s.found] - s.elapsed = Remaining(d, s.found, a.delta)
        /\ stage = "answered" /\ answer.says = "ok" => ~NothingAt(d, a.delta)

======================================================================
