--------------------------------- MODULE Gate ---------------------------------
(***************************************************************************)
(* Who is let through to the hub's API: AuthConfig (config.py), the        *)
(* AuthMiddleware with its JwtVerifier (auth.py), and create_app, which    *)
(* puts it in front of the routers (api/server.py).  A path is what the    *)
(* server hands over as scope["path"], cut at its slashes: the routers     *)
(* match its segments as they come, the gate decodes them.                 *)
(***************************************************************************)
EXTENDS Sequences, SequencesExt

CONSTANTS
  Segments,    \* path segments that callers try
  Unquoted     \* for each of them, what unquote() and split("/") make of it

\* The names in the routers' patterns hold no "%".
RouteNames ==
  {"api", "ws", "docs", "openapi.json", "device", "mode", "fan", "temperature",
   "led", "mute", "clock", "sync", "runtime", "memory", "biorhythm", "programs",
   "stop", "active", "activate", "preferences"}

ASSUME GateAssumption == \A s \in RouteNames : Unquoted[s] = <<s>>

\* The hub's environment.  "blank" is white space, which counts as unset;
\* "unclear" stands for any flag that is not a clear no.
Environments ==
  [token : {"unset", "blank", "secret"},
   wsQuery : {"off", "unclear"},
   team : {"unset", "bare"},
   audience : {"blank", "aud"},
   emails : SUBSET {"listed"}]

\* AuthConfig.from_env.
Bearer(env) == env.token = "secret"
WsQuery(env) == env.wsQuery # "off"       \* unclear: the default, True
Jwt(env) == env.team # "unset" /\ env.audience = "aud"
Enabled(env) == Bearer(env) \/ Jwt(env)

-----------------------------------------------------------------------------
\* unquote() is applied to the whole path before that is split at its slashes:
\* what was one segment may become several.
Joins(names, segment) == names \o Unquoted[segment]

Decoded(path) == FoldLeft(Joins, <<>>, path)

\* _normalized_segments.
Resolve(segments, name) ==
  CASE name \in {"", "."} -> segments
    [] name = ".." -> IF segments = <<>> THEN segments ELSE Front(segments)
    [] OTHER -> Append(segments, name)

Normalized(path) == FoldLeft(Resolve, <<>>, Decoded(path))

IsProtectedPath(path) ==
  LET n == Normalized(path)
  IN  \/ Len(n) = 1 /\ n[1] \in {"api", "ws", "docs", "redoc", "openapi.json"}
      \/ Len(n) > 1 /\ n[1] = "api"

-----------------------------------------------------------------------------
\* A request: its scope, path and credentials.
\* The "authorization" header, the query's "token", the signed assertion.
Credentials ==
  [authorization : {"none", "bearer_secret", "bearer_other", "basic"},
   query : {"none", "secret", "other"},
   assertion : {"none", "malformed", "expired", "listed", "unlisted", "no_email"}]

NoCredentials == [authorization |-> "none", query |-> "none", assertion |-> "none"]

\* _presented_token: the header first, and the query only for a WebSocket.
Presented(env, r) ==
  CASE r.cred.authorization = "bearer_secret" -> "secret"
    [] r.cred.authorization = "bearer_other" -> "other"
    [] OTHER -> IF r.scope = "websocket" /\ WsQuery(env) THEN r.cred.query ELSE "none"

\* JwtVerifier.verify; keys says whether the signing key can be had.
Verified(env, r, keys) ==
  /\ keys /\ r.cred.assertion \in {"listed", "unlisted", "no_email"}
  /\ env.emails # {} => r.cred.assertion \in env.emails

\* _authenticate: one of the mechanisms that are configured.
Authenticates(env, r, keys) ==
  \/ Bearer(env) /\ Presented(env, r) = "secret"
  \/ Jwt(env) /\ Verified(env, r, keys)

\* Mutant: the middleware sees HTTP requests only.
LetsThroughSockets(env, r, keys) ==
  \/ r.scope # "http" \/ ~Enabled(env) \/ ~IsProtectedPath(r.path)
  \/ r.method = "OPTIONS"
  \/ Authenticates(env, r, keys)

\* AuthMiddleware.__call__.
LetsThrough(env, r, keys) ==
  \/ ~Enabled(env)
  \/ ~IsProtectedPath(r.path)
  \/ r.scope = "http" /\ r.method = "OPTIONS"
  \/ Authenticates(env, r, keys)

=============================================================================
