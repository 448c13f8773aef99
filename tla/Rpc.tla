---------------------------------- MODULE Rpc ----------------------------------
(***************************************************************************)
(* What the hub may rely on when it calls the BLE daemon, whatever happens *)
(* to the socket and to the two processes: a call is executed at most      *)
(* once, never before it is made, and within one run of the hub in the     *)
(* order of the calls; "ok" means executed; after a failure the caller     *)
(* cannot tell, and an execution may still follow.                         *)
(***************************************************************************)
EXTENDS Naturals

CONSTANTS
  Requests,  \* the calls, numbered in the order in which they are made
  Lives      \* the runs of the hub, numbered from 1

VARIABLES
  status,    \* status[r]: where the call is, as its caller sees it
  life,      \* life[r]: the run of the hub that made it
  executed   \* the calls that have had their effect

vars == <<status, life, executed>>

Init ==
  /\ status = [r \in Requests |-> "idle"]
  /\ life = [r \in Requests |-> 0]
  /\ executed = {}

Call(r, l) ==
  /\ status[r] = "idle"
  /\ \A q \in Requests : life[q] =< l
  /\ status' = [status EXCEPT ![r] = "open"]
  /\ life' = [life EXCEPT ![r] = l]
  /\ UNCHANGED executed

Execute(r) ==
  /\ status[r] # "idle"
  /\ r \notin executed
  /\ \A q \in executed : life[q] = life[r] => q < r
  /\ executed' = executed \cup {r}
  /\ UNCHANGED <<status, life>>

\* The calls of a hub that dies end together.
End(R, how) ==
  /\ \A r \in R : status[r] = "open"
  /\ how = "ok" => R \subseteq executed
  /\ status' = [r \in Requests |-> IF r \in R THEN how ELSE status[r]]
  /\ UNCHANGED <<life, executed>>

Next ==
  \/ \E r \in Requests, l \in Lives : Call(r, l)
  \/ \E r \in Requests : Execute(r)
  \/ \E R \in SUBSET Requests, how \in {"ok", "failed"} : End(R, how)

Spec == Init /\ [][Next]_vars
=============================================================================
