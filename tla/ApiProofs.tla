------------------------------- MODULE ApiProofs -------------------------------
(***************************************************************************)
(* Theorems about Api: every property of ApiProps holds, for all values of *)
(* the constants.  The folds of the model (Decoded, Normalized, Sought)    *)
(* are brought within the provers' reach by QueueLemmas: a fold is a run,  *)
(* a function that gives the result after each element.                    *)
(***************************************************************************)
EXTENDS ApiProps, QueueLemmas

-----------------------------------------------------------------------------
\* Folds.

\* The loop of activate_program.
LEMMA FoldLook ==
  ASSUME NEW n \in Nat, NEW A, NEW b \in A, NEW seq, DOMAIN seq = 1 .. n,
         \A k \in 1 .. n, s \in A : Look(s, seq[k]) \in A
  PROVE  \E r : /\ FoldRun(r, n, A, b, [k \in 1 .. n |-> [s \in A |-> Look(s, seq[k])]])
               /\ FoldLeft(Look, b, seq) = r[n]
<1> DEFINE step == [k \in 1 .. n |-> [s \in A |-> Look(s, seq[k])]]
<1> DEFINE F(g) == [s \in SUBSET (1 .. n) |->
                      IF s = {} THEN b ELSE Look(g[s \ {Max(s)}], seq[Max(s)])]
<1>1. step \in [1 .. n -> [A -> A]]
  OBVIOUS
<1>2. \A s \in SUBSET (1 .. n) : s # {} => Max(s) \in 1 .. n
  BY MaxIn
<1>3. \E g : g = F(g)
  <2>1. PICK g : Iterates(g, n, A, b, step)
    <3> HIDE DEF step
    <3> QED
      BY <1>1, IterExists
  <2>2. \A s \in SUBSET (1 .. n) : s \ {Max(s)} \in SUBSET (1 .. n)
    OBVIOUS
  <2>3. ASSUME NEW s \in SUBSET (1 .. n), s # {}
        PROVE  step[Max(s)][g[s \ {Max(s)}]] = Look(g[s \ {Max(s)}], seq[Max(s)])
    <3>1. Max(s) \in 1 .. n /\ g[s \ {Max(s)}] \in A
      BY <1>2, <2>1, <2>2, <2>3 DEF Iterates
    <3> QED
      BY <3>1
  <2>4. g = [s \in SUBSET (1 .. n) |-> g[s]]
    BY <2>1 DEF Iterates
  <2>5. \A s \in SUBSET (1 .. n) :
          g[s] = IF s = {} THEN b ELSE Look(g[s \ {Max(s)}], seq[Max(s)])
    <3> HIDE DEF step
    <3> QED
      BY <2>1, <2>3 DEF Iterates
  <2> QED
    BY <2>4, <2>5
<1> DEFINE h == CHOOSE g : g = F(g)
<1>4. h = F(h)
  <2> HIDE DEF F
  <2> QED
    BY <1>3
<1>5. FoldLeft(Look, b, seq) = h[1 .. n]
  BY DEF FoldLeft, MapThenFoldSet
<1> HIDE DEF h
<1>6. h = [s \in SUBSET (1 .. n) |-> h[s]] /\ h[{}] = b
  BY <1>4
<1>7. ASSUME NEW s \in SUBSET (1 .. n), s # {}, h[s \ {Max(s)}] \in A
      PROVE  h[s] = step[Max(s)][h[s \ {Max(s)}]]
  <2>1. h[s] = Look(h[s \ {Max(s)}], seq[Max(s)])
    BY <1>4, <1>7
  <2> QED
    BY <1>2, <1>7, <2>1
<1>8. Chosen(h, n, A, b, step)
  <2> HIDE DEF step, F
  <2> QED
    BY <1>6, <1>7 DEF Chosen
<1>9. \E r : FoldRun(r, n, A, b, step) /\ h[1 .. n] = r[n]
  <2> HIDE DEF step, F
  <2> QED
    BY <1>1, <1>8, IterChosen
<1> QED
  BY <1>5, <1>9

\* The loop of _normalized_segments.
LEMMA FoldResolve ==
  ASSUME NEW n \in Nat, NEW A, NEW b \in A, NEW seq, DOMAIN seq = 1 .. n,
         \A k \in 1 .. n, s \in A : Resolve(s, seq[k]) \in A
  PROVE  \E r : /\ FoldRun(r, n, A, b, [k \in 1 .. n |-> [s \in A |-> Resolve(s, seq[k])]])
               /\ FoldLeft(Resolve, b, seq) = r[n]
<1> DEFINE step == [k \in 1 .. n |-> [s \in A |-> Resolve(s, seq[k])]]
<1> DEFINE F(g) == [s \in SUBSET (1 .. n) |->
                      IF s = {} THEN b ELSE Resolve(g[s \ {Max(s)}], seq[Max(s)])]
<1>1. step \in [1 .. n -> [A -> A]]
  OBVIOUS
<1>2. \A s \in SUBSET (1 .. n) : s # {} => Max(s) \in 1 .. n
  BY MaxIn
<1>3. \E g : g = F(g)
  <2>1. PICK g : Iterates(g, n, A, b, step)
    <3> HIDE DEF step
    <3> QED
      BY <1>1, IterExists
  <2>2. \A s \in SUBSET (1 .. n) : s \ {Max(s)} \in SUBSET (1 .. n)
    OBVIOUS
  <2>3. ASSUME NEW s \in SUBSET (1 .. n), s # {}
        PROVE  step[Max(s)][g[s \ {Max(s)}]] = Resolve(g[s \ {Max(s)}], seq[Max(s)])
    <3>1. Max(s) \in 1 .. n /\ g[s \ {Max(s)}] \in A
      BY <1>2, <2>1, <2>2, <2>3 DEF Iterates
    <3> QED
      BY <3>1
  <2>4. g = [s \in SUBSET (1 .. n) |-> g[s]]
    BY <2>1 DEF Iterates
  <2>5. \A s \in SUBSET (1 .. n) :
          g[s] = IF s = {} THEN b ELSE Resolve(g[s \ {Max(s)}], seq[Max(s)])
    <3> HIDE DEF step
    <3> QED
      BY <2>1, <2>3 DEF Iterates
  <2> QED
    BY <2>4, <2>5
<1> DEFINE h == CHOOSE g : g = F(g)
<1>4. h = F(h)
  <2> HIDE DEF F
  <2> QED
    BY <1>3
<1>5. FoldLeft(Resolve, b, seq) = h[1 .. n]
  BY DEF FoldLeft, MapThenFoldSet
<1> HIDE DEF h
<1>6. h = [s \in SUBSET (1 .. n) |-> h[s]] /\ h[{}] = b
  BY <1>4
<1>7. ASSUME NEW s \in SUBSET (1 .. n), s # {}, h[s \ {Max(s)}] \in A
      PROVE  h[s] = step[Max(s)][h[s \ {Max(s)}]]
  <2>1. h[s] = Resolve(h[s \ {Max(s)}], seq[Max(s)])
    BY <1>4, <1>7
  <2> QED
    BY <1>2, <1>7, <2>1
<1>8. Chosen(h, n, A, b, step)
  <2> HIDE DEF step, F
  <2> QED
    BY <1>6, <1>7 DEF Chosen
<1>9. \E r : FoldRun(r, n, A, b, step) /\ h[1 .. n] = r[n]
  <2> HIDE DEF step, F
  <2> QED
    BY <1>1, <1>8, IterChosen
<1> QED
  BY <1>5, <1>9

\* unquote() over the whole path.
LEMMA FoldJoins ==
  ASSUME NEW n \in Nat, NEW A, NEW b \in A, NEW seq, DOMAIN seq = 1 .. n,
         \A k \in 1 .. n, s \in A : Joins(s, seq[k]) \in A
  PROVE  \E r : /\ FoldRun(r, n, A, b, [k \in 1 .. n |-> [s \in A |-> Joins(s, seq[k])]])
               /\ FoldLeft(Joins, b, seq) = r[n]
<1> DEFINE step == [k \in 1 .. n |-> [s \in A |-> Joins(s, seq[k])]]
<1> DEFINE F(g) == [s \in SUBSET (1 .. n) |->
                      IF s = {} THEN b ELSE Joins(g[s \ {Max(s)}], seq[Max(s)])]
<1>1. step \in [1 .. n -> [A -> A]]
  OBVIOUS
<1>2. \A s \in SUBSET (1 .. n) : s # {} => Max(s) \in 1 .. n
  BY MaxIn
<1>3. \E g : g = F(g)
  <2>1. PICK g : Iterates(g, n, A, b, step)
    <3> HIDE DEF step
    <3> QED
      BY <1>1, IterExists
  <2>2. \A s \in SUBSET (1 .. n) : s \ {Max(s)} \in SUBSET (1 .. n)
    OBVIOUS
  <2>3. ASSUME NEW s \in SUBSET (1 .. n), s # {}
        PROVE  step[Max(s)][g[s \ {Max(s)}]] = Joins(g[s \ {Max(s)}], seq[Max(s)])
    <3>1. Max(s) \in 1 .. n /\ g[s \ {Max(s)}] \in A
      BY <1>2, <2>1, <2>2, <2>3 DEF Iterates
    <3> QED
      BY <3>1
  <2>4. g = [s \in SUBSET (1 .. n) |-> g[s]]
    BY <2>1 DEF Iterates
  <2>5. \A s \in SUBSET (1 .. n) :
          g[s] = IF s = {} THEN b ELSE Joins(g[s \ {Max(s)}], seq[Max(s)])
    <3> HIDE DEF step
    <3> QED
      BY <2>1, <2>3 DEF Iterates
  <2> QED
    BY <2>4, <2>5
<1> DEFINE h == CHOOSE g : g = F(g)
<1>4. h = F(h)
  <2> HIDE DEF F
  <2> QED
    BY <1>3
<1>5. FoldLeft(Joins, b, seq) = h[1 .. n]
  BY DEF FoldLeft, MapThenFoldSet
<1> HIDE DEF h
<1>6. h = [s \in SUBSET (1 .. n) |-> h[s]] /\ h[{}] = b
  BY <1>4
<1>7. ASSUME NEW s \in SUBSET (1 .. n), s # {}, h[s \ {Max(s)}] \in A
      PROVE  h[s] = step[Max(s)][h[s \ {Max(s)}]]
  <2>1. h[s] = Joins(h[s \ {Max(s)}], seq[Max(s)])
    BY <1>4, <1>7
  <2> QED
    BY <1>2, <1>7, <2>1
<1>8. Chosen(h, n, A, b, step)
  <2> HIDE DEF step, F
  <2> QED
    BY <1>6, <1>7 DEF Chosen
<1>9. \E r : FoldRun(r, n, A, b, step) /\ h[1 .. n] = r[n]
  <2> HIDE DEF step, F
  <2> QED
    BY <1>1, <1>8, IterChosen
<1> QED
  BY <1>5, <1>9

-----------------------------------------------------------------------------
\* What the caller is told.

Early == {"set_up", "idle", "sent", "passed"}

\* The operation is carried out, or a V2 cannot do it.
Excused == done \/ ~Supports(request.ask)

\* What has been told was answered before; a refusal comes before anything is
\* asked of the daemon.
TruthInv ==
  /\ stage \in Early \cup {"over"} => ~done /\ line = "none" /\ answer = Nobody
  /\ stage \in {"set_up", "idle"} => told = NoResult
  /\ stage = "asking" => answer = Nobody
  /\ line = "accepted" => done
  /\ line = "ok" => Excused
  /\ answer.status = 401 => ~done /\ line = "none"
  /\ answer.says = "detail" => line = "none" /\ (~done \/ Overtaken)
  /\ answer.says \in {"ok", "data"} => Excused
  /\ answer.says \notin {"unauthorized", "unreachable"}
  /\ request.ask.op # "message" =>
       /\ told.says \in {"ok", "data", "detail"} => answer.says = told.says
       /\ told.says = "unauthorized" => answer.status = 401
       /\ told.says = "unreachable" => stage = "over"

\* It says more than ToldTheTruth.
LEMMA TruthMeans == TruthInv => ToldTheTruth
  BY DEF TruthInv, ToldTheTruth, Excused, Nobody

\* The fields of the results and answers.
LEMMA Fields ==
  /\ NoResult.says = "nothing" /\ Nobody.says = "nothing" /\ Nobody.status = 0
  /\ \A e, s : [isError |-> e, says |-> s].says = s
  /\ \A n, s : [status |-> n, says |-> s].says = s /\ [status |-> n, says |-> s].status = n
  BY DEF NoResult, Nobody

\* An outcome of a program route: what went well was carried out, and what was
\* refused was not, but for an update that is overtaken.
Plausible(o, a) ==
  /\ [status |-> o.status, says |-> o.says] \in HubAnswers /\ o.status # 401
  /\ o.says \in {"ok", "data", "detail", "reason", "plain"} /\ o.done \in BOOLEAN
  /\ o.says \in {"ok", "data"} => o.done
  /\ o.says = "detail" => ~o.done \/ a.op = "update"

NotFound == Out(404, "detail", FALSE)
BadRequest == Out(400, "detail", FALSE)
Unprocessable == Out(422, "detail", FALSE)
NaiveTime == Out(500, "plain", FALSE)
Activated == Out(200, "ok", TRUE)
Updated == Out(200, "data", TRUE)
DeletedMeanwhile == Out(404, "detail", TRUE)

\* The outcomes that a route names.
LEMMA Outcomes ==
  ASSUME NEW a
  PROVE  /\ \A o \in {NotFound, BadRequest, Unprocessable, NaiveTime} :
              Plausible(o, a) /\ o.says # "ok"
         /\ Plausible(Activated, a) /\ Plausible(Updated, a)
         /\ a.op = "update" => Plausible(DeletedMeanwhile, a)
<1>1. /\ Plausible(NotFound, a) /\ Plausible(BadRequest, a) /\ Plausible(Unprocessable, a)
      /\ Plausible(NaiveTime, a) /\ Plausible(Activated, a) /\ Plausible(Updated, a)
      /\ a.op = "update" => Plausible(DeletedMeanwhile, a)
  BY DEF NotFound, BadRequest, Unprocessable, NaiveTime, Activated, Updated,
         DeletedMeanwhile, Plausible, Out, HubAnswers
<1>2. /\ NotFound.says # "ok" /\ BadRequest.says # "ok" /\ Unprocessable.says # "ok"
      /\ NaiveTime.says # "ok"
  BY DEF NotFound, BadRequest, Unprocessable, NaiveTime, Out
<1> QED
  BY <1>1, <1>2

\* The outcomes of an error half way.
LEMMA BreaksPlausible ==
  ASSUME NEW a, NEW s \in {"reason", "plain"}, NEW o \in Breaks(s)
  PROVE  Plausible(o, a) /\ o.says # "ok"
<1>1. \A d \in BOOLEAN : Plausible(Out(500, s, d), a) /\ Out(500, s, d).says # "ok"
  BY DEF Plausible, Out, HubAnswers
<1>2. PICK d \in BOOLEAN : o = Out(500, s, d)
  BY Zenon DEF Breaks
<1> QED
  BY <1>1, <1>2

\* The outcomes of an update.
LEMMA UpdatePlausible ==
  ASSUME NEW a, a.op = "update", NEW o \in UpdateOutcomes(a)
  PROVE  Plausible(o, a)
<1>1. o \in {NotFound, Updated, DeletedMeanwhile} \cup Breaks("plain")
  BY Zenon DEF UpdateOutcomes, NotFound, Updated, DeletedMeanwhile
<1> QED
  BY <1>1, Outcomes, BreaksPlausible

\* An activation answers "ok" only if the loop has found a step.
LEMMA ActivatePlausible ==
  ASSUME NEW a, NEW o \in ActivateOutcomes(a)
  PROVE  /\ Plausible(o, a)
         /\ o.says = "ok" => Sought(a.arg.steps, a.arg.delta).found # 0
<1>1. \/ o \in {NotFound, BadRequest, Unprocessable, NaiveTime}
      \/ /\ o \in {Activated} \cup Breaks("reason") \cup Breaks("plain")
         /\ Sought(a.arg.steps, a.arg.delta).found # 0
  BY Zenon DEF ActivateOutcomes, NotFound, BadRequest, Unprocessable, NaiveTime, Activated
<1> QED
  BY <1>1, Outcomes, BreaksPlausible

\* A program route answers with one of these.
LEMMA ProgramServed ==
  ASSUME ServesProgram
  PROVE  \E o : /\ Plausible(o, request.ask)
                /\ answer' = [status |-> o.status, says |-> o.says] /\ done' = o.done
<1>1. request.ask.op \in {"activate", "update"}
  BY DEF ServesProgram, Accepts
<1>2. PICK o \in IF request.ask.op = "update" THEN UpdateOutcomes(request.ask)
                 ELSE ActivateOutcomes(request.ask) :
        Answers(o.status, o.says) /\ done' = o.done
  BY DEF ServesProgram
<1>3. Plausible(o, request.ask)
  BY <1>1, <1>2, UpdatePlausible, ActivatePlausible
<1> QED
  BY <1>2, <1>3 DEF Answers

\* What Tells makes of an answer.
LEMMA Retold ==
  ASSUME Tells
  PROVE  /\ stage = "answered" /\ told = NoResult
         /\ UNCHANGED <<env, model, request, stage, line, answer, done>>
         /\ \/ answer.status = 401 /\ told' = [isError |-> TRUE, says |-> "unauthorized"]
            \/ told' = [isError |-> TRUE, says |-> "error"]
            \/ told' = [isError |-> FALSE, says |-> answer.says]
  BY DEF Tells, Tell, AgentWaits

\* What Handles says: an error, or the answer to a message.
LEMMA Handled ==
  ASSUME Handles
  PROVE  /\ stage = "idle" /\ stage' = "over"
         /\ UNCHANGED <<env, model, line, answer, done>>
         /\ \E e \in BOOLEAN, s \in {"data", "nothing", "error"} : told' = [isError |-> e, says |-> s]
         /\ \/ told' = [isError |-> TRUE, says |-> "error"]
            \/ request'.ask.op = "message"
<1>1. PICK a \in Messages \cup BadCalls :
        /\ request' = Mcp(a)
        /\ CASE a.arg \in {"initialize", "tools/list"} -> Tell(FALSE, "data")
             [] a.arg = "notifications/initialized" -> Tell(FALSE, "nothing")
             [] OTHER -> Tell(TRUE, "error")
  BY DEF Handles
<1>2. request'.ask = a
  BY <1>1 DEF Mcp, Http
<1>3. ASSUME a \in BadCalls PROVE Tell(TRUE, "error")
  <2>1. a = [op |-> "unknown_tool", arg |-> "none"] \/ a = [op |-> "argument_missing", arg |-> "none"]
    BY <1>3 DEF BadCalls, Ask
  <2>2. a.arg = "none"
    BY <2>1
  <2> QED
    BY <1>1, <2>2
<1>4. ASSUME a \in Messages PROVE a.op = "message"
  BY <1>4 DEF Messages, Ask
<1>5. Tell(FALSE, "data") \/ Tell(FALSE, "nothing") \/ Tell(TRUE, "error")
  BY <1>1
<1>6. \E e \in BOOLEAN, s \in {"data", "nothing", "error"} : told' = [isError |-> e, says |-> s]
  BY <1>5 DEF Tell
<1>7. told' = [isError |-> TRUE, says |-> "error"] \/ request'.ask.op = "message"
  BY <1>1, <1>2, <1>3, <1>4 DEF Tell
<1> QED
  BY <1>6, <1>7 DEF Handles

\* Nothing has been told at the start.
LEMMA TruthStarts == Init => TruthInv
  BY Fields DEF Init, TruthInv, Early, Excused

\* Every step keeps it.
LEMMA TruthKept == TruthInv /\ [Next]_vars => TruthInv'
<1> SUFFICES ASSUME TruthInv, [Next]_vars PROVE TruthInv'
  OBVIOUS
<1> USE DEF TruthInv, Early, Excused, Supports, Overtaken
<1>1. CASE UNCHANGED vars
  BY <1>1 DEF vars
<1>2. CASE Tries \/ Posts \/ Calls
  BY <1>2, Fields DEF Tries, Posts, Calls, Sends
<1>3. CASE Handles
  BY <1>3, Handled, Fields
<1>4. CASE HubUnreachable \/ AgentGivesUp
  BY <1>4, Fields DEF HubUnreachable, AgentGivesUp, AgentWaits, Tell
<1>5. ASSUME NEW keys \in BOOLEAN, PassesGate(keys) PROVE TruthInv'
  BY <1>5, Fields DEF PassesGate, Answers
<1>6. CASE Refuses
  BY <1>6, Fields DEF Refuses, Answers
<1>7. CASE Reads
  BY <1>7, Fields DEF Reads, Accepts, Answers
<1>8. CASE ServesProgram
  <2>1. PICK o : /\ Plausible(o, request.ask)
                 /\ answer' = [status |-> o.status, says |-> o.says] /\ done' = o.done
    BY <1>8, ProgramServed
  <2>2. answer'.status = o.status /\ answer'.says = o.says
    BY <2>1, Fields
  <2>3. /\ stage = "passed" /\ stage' = "answered"
        /\ UNCHANGED <<env, model, request, line, told>>
    BY <1>8 DEF ServesProgram, Accepts, Answers
  <2> QED
    BY <2>1, <2>2, <2>3, Fields DEF Plausible
<1>9. CASE Forwards \/ NotConnected
  BY <1>9, Fields DEF Forwards, NotConnected, Accepts, Answers
<1>10. CASE HearsDaemon
  BY <1>10, Fields DEF HearsDaemon, Answers
<1>11. CASE GivesUp
  BY <1>11, Fields DEF GivesUp, Answers
<1>12. CASE ManagerAccepts \/ ManagerReturns
  BY <1>12, Fields DEF ManagerAccepts, ManagerReturns
<1>13. CASE ManagerIgnores \/ ManagerRaises \/ DaemonEnds
  BY <1>13, Fields DEF ManagerIgnores, ManagerRaises, DaemonEnds
<1>14. CASE Tells
  <2>1. /\ stage = "answered" /\ told = NoResult
        /\ UNCHANGED <<env, model, request, stage, line, answer, done>>
    BY <1>14, Retold
  <2>2. CASE answer.status = 401 /\ told' = [isError |-> TRUE, says |-> "unauthorized"]
    <3>1. told'.says = "unauthorized"
      BY <2>2
    <3> QED
      BY <2>1, <2>2, <3>1
  <2>3. CASE told' = [isError |-> TRUE, says |-> "error"]
    <3>1. told'.says = "error"
      BY <2>3
    <3> QED
      BY <2>1, <3>1
  <2>4. CASE told' = [isError |-> FALSE, says |-> answer.says]
    <3>1. told'.says = answer.says
      BY <2>4
    <3>2. answer.says \notin {"unauthorized", "unreachable"}
      BY DEF TruthInv
    <3> QED
      BY <2>1, <3>1, <3>2
  <2> QED
    BY <1>14, <2>2, <2>3, <2>4, Retold
<1> QED
  BY <1>1, <1>2, <1>3, <1>4, <1>5, <1>6, <1>7, <1>8, <1>9, <1>10, <1>11, <1>12, <1>13,
     <1>14 DEF Next

\* ToldTheTruth holds for all requests, outcomes and times at which the hub or
\* the agent gives up: "ok" means that it was carried out, or that the device
\* is a V2 that cannot, and after a refusal it never will be.
THEOREM TruthHolds == Spec => []ToldTheTruth
  BY TruthMeans, TruthStarts, TruthKept, PTL DEF Spec

-----------------------------------------------------------------------------
\* Types.

\* The start is typed.
LEMMA TypeStarts == Init => TypeOK
<1>1. DefaultEnv \in Environments
  BY DEF DefaultEnv, Environments
<1>2. Nobody \in HubAnswers /\ NoResult \in ToolResults
  BY DEF Nobody, NoResult, HubAnswers, ToolResults, Says
<1> QED
  BY Zenon, <1>1, <1>2 DEF Init, TypeOK

\* The hub's answers.
LEMMA Typed ==
  /\ [status |-> 401, says |-> "detail"] \in HubAnswers
  /\ [status |-> 422, says |-> "detail"] \in HubAnswers
  /\ [status |-> 404, says |-> "detail"] \in HubAnswers
  /\ [status |-> 200, says |-> "data"] \in HubAnswers
  /\ [status |-> 200, says |-> "ok"] \in HubAnswers
  /\ [status |-> 200, says |-> "failed"] \in HubAnswers
  BY DEF HubAnswers

\* The MCP server's results.
LEMMA Resulted ==
  ASSUME NEW e \in BOOLEAN,
         NEW s \in Says \cup {"error", "unreachable", "timed_out", "unauthorized"}
  PROVE  [isError |-> e, says |-> s] \in ToolResults
  BY DEF ToolResults

\* Every step keeps the types.
LEMMA TypeKept == TypeOK /\ [Next]_vars => TypeOK'
<1> SUFFICES ASSUME TypeOK, [Next]_vars PROVE TypeOK'
  OBVIOUS
<1> USE DEF TypeOK
<1>1. CASE UNCHANGED vars
  BY <1>1 DEF vars
<1>2. CASE Tries \/ Posts \/ Calls
  BY <1>2 DEF Tries, Posts, Calls, Sends
<1>3. CASE Handles
  <2>1. PICK e \in BOOLEAN, s \in {"data", "nothing", "error"} : told' = [isError |-> e, says |-> s]
    BY <1>3, Handled
  <2>2. s \in Says \cup {"error", "unreachable", "timed_out", "unauthorized"}
    BY DEF Says
  <2>3. told' \in ToolResults
    BY <2>1, <2>2, Resulted
  <2> QED
    BY <1>3, <2>3, Handled
<1>4. CASE HubUnreachable \/ AgentGivesUp
  <2>1. told' = [isError |-> TRUE, says |-> "unreachable"] \/ told' = [isError |-> TRUE, says |-> "timed_out"]
    BY <1>4 DEF HubUnreachable, AgentGivesUp, Tell
  <2>2. told' \in ToolResults
    <3>1. /\ [isError |-> TRUE, says |-> "unreachable"] \in ToolResults
          /\ [isError |-> TRUE, says |-> "timed_out"] \in ToolResults
      BY DEF ToolResults
    <3> QED
      BY <2>1, <3>1
  <2>3. UNCHANGED <<env, model, line, answer, done>> /\ stage' \in {stage, "over"}
    BY <1>4 DEF HubUnreachable, AgentGivesUp
  <2> QED
    BY <2>2, <2>3
<1>5. ASSUME NEW keys \in BOOLEAN, PassesGate(keys) PROVE TypeOK'
  <2>1. UNCHANGED answer \/ answer' = [status |-> 401, says |-> "detail"]
    BY <1>5 DEF PassesGate, Answers
  <2>2. UNCHANGED <<env, model, line, told, done>> /\ stage' \in {"passed", "answered"}
    BY <1>5 DEF PassesGate, Answers
  <2> QED
    BY <2>1, <2>2, Typed
<1>6. CASE Refuses
  BY <1>6, Typed DEF Refuses, Answers
<1>7. CASE Reads
  BY <1>7, Typed DEF Reads, Answers
<1>8. CASE ServesProgram
  <2>1. PICK o : /\ Plausible(o, request.ask)
                 /\ answer' = [status |-> o.status, says |-> o.says] /\ done' = o.done
    BY <1>8, ProgramServed
  <2>2. answer' \in HubAnswers /\ done' \in BOOLEAN
    BY <2>1 DEF Plausible
  <2> QED
    BY <1>8, <2>2 DEF ServesProgram, Answers
<1>9. CASE Forwards
  BY <1>9 DEF Forwards
<1>10. CASE NotConnected \/ HearsDaemon \/ GivesUp
  <2>1. answer' \in HubAnswers /\ stage' = "answered"
    BY <1>10, Typed DEF NotConnected, HearsDaemon, GivesUp, Answers
  <2>2. UNCHANGED <<env, model, told, done>> /\ line' \in {line, "none"}
    BY <1>10 DEF NotConnected, HearsDaemon, GivesUp
  <2> QED
    BY <2>1, <2>2
<1>11. CASE ManagerAccepts \/ ManagerReturns \/ ManagerIgnores
  BY <1>11 DEF ManagerAccepts, ManagerReturns, ManagerIgnores
<1>12. CASE ManagerRaises \/ DaemonEnds
  BY <1>12 DEF ManagerRaises, DaemonEnds
<1>13. CASE Tells
  <2>1. answer.says \in Says
    BY DEF HubAnswers, Says, Nobody
  <2>2. \A s \in Says \cup {"error", "unauthorized"} :
          s \in Says \cup {"error", "unreachable", "timed_out", "unauthorized"}
    OBVIOUS
  <2>3. \A e \in BOOLEAN, s \in Says \cup {"error", "unauthorized"} :
          [isError |-> e, says |-> s] \in ToolResults
    BY <2>2, Resulted
  <2>4. told' \in ToolResults
    <3>1. /\ [isError |-> TRUE, says |-> "unauthorized"] \in ToolResults
          /\ [isError |-> TRUE, says |-> "error"] \in ToolResults
          /\ [isError |-> FALSE, says |-> answer.says] \in ToolResults
      BY <2>1, <2>3
    <3>2. \/ told' = [isError |-> TRUE, says |-> "unauthorized"]
          \/ told' = [isError |-> TRUE, says |-> "error"]
          \/ told' = [isError |-> FALSE, says |-> answer.says]
      BY <1>13, Retold
    <3> QED
      BY <3>1, <3>2
  <2> QED
    BY <1>13, <2>4, Retold
<1> QED
  BY <1>1, <1>2, <1>3, <1>4, <1>5, <1>6, <1>7, <1>8, <1>9, <1>10, <1>11, <1>12, <1>13 DEF Next

\* TypeOK holds for every request that a caller may send.
THEOREM TypeHolds == Spec => []TypeOK
  BY TypeStarts, TypeKept, PTL DEF Spec

-----------------------------------------------------------------------------
\* The tools' schema and the hub's validation.

\* What the schema of a device tool admits, the hub accepts.
LEMMA SchemaIsValid ==
  ASSUME NEW a, a.op \in DeviceOps, InSchema(a)
  PROVE  Valid(a)
  BY DEF InSchema, Valid, DeviceOps

\* Only Refuses answers 422, and it refuses nothing that the schema admits.
LEMMA ToolsFitKept == ToolsFitTheHub /\ [Next]_vars => ToolsFitTheHub'
<1> SUFFICES ASSUME ToolsFitTheHub, [Next]_vars PROVE ToolsFitTheHub'
  OBVIOUS
<1> USE DEF ToolsFitTheHub
<1>1. CASE UNCHANGED vars
  BY <1>1 DEF vars
<1>2. CASE Tries \/ Posts \/ Calls
  BY <1>2 DEF Tries, Posts, Calls, Sends
<1>3. CASE Handles
  BY <1>3, Handled
<1>4. CASE HubUnreachable \/ AgentGivesUp
  BY <1>4 DEF HubUnreachable, AgentGivesUp, Tell
<1>5. ASSUME NEW keys \in BOOLEAN, PassesGate(keys) PROVE ToolsFitTheHub'
  BY <1>5 DEF PassesGate, Answers
<1>6. CASE Refuses
  BY <1>6, SchemaIsValid DEF Refuses, Answers
<1>7. CASE Reads \/ Forwards \/ NotConnected
  BY <1>7 DEF Reads, Forwards, NotConnected, Answers
<1>8. CASE ServesProgram
  <2>1. request'.ask.op \notin DeviceOps
    BY <1>8 DEF ServesProgram, Accepts, DeviceOps
  <2> QED
    BY <2>1
<1>9. CASE HearsDaemon \/ GivesUp
  BY <1>9 DEF HearsDaemon, GivesUp, Answers
<1>10. CASE ManagerAccepts \/ ManagerReturns \/ ManagerIgnores \/ ManagerRaises \/ DaemonEnds
  BY <1>10 DEF ManagerAccepts, ManagerReturns, ManagerIgnores, ManagerRaises, DaemonEnds
<1>11. CASE Tells
  BY <1>11, Retold
<1> QED
  BY <1>1, <1>2, <1>3, <1>4, <1>5, <1>6, <1>7, <1>8, <1>9, <1>10, <1>11 DEF Next

\* ToolsFitTheHub holds: what the inputSchema of a device tool admits is never
\* refused with a 422 by the request models, MODE_MAP or the slot's check.
THEOREM ToolsFitHolds == Spec => []ToolsFitTheHub
<1>1. Init => ToolsFitTheHub
  BY DEF Init, ToolsFitTheHub
<1> QED
  BY <1>1, ToolsFitKept, PTL DEF Spec

-----------------------------------------------------------------------------
\* The gate.

\* A path is a sequence.
Alphabet == RouteNames \cup Segments \cup {"id"}
IsPath(p) == p \in Seq(Alphabet)

\* Paths of one to four segments.
LEMMA RoutePaths ==
  /\ \A a \in RouteNames : IsPath(<<a>>)
  /\ \A a, b \in RouteNames : IsPath(<<a, b>>)
  /\ \A a, b, c \in Alphabet : IsPath(<<a, b, c>>)
  /\ \A a, b, c, d \in Alphabet : IsPath(<<a, b, c, d>>)
  BY DEF IsPath, Alphabet

\* What segments decode to.
Names == STRING \cup RouteNames

\* A path of n segments that the gate cuts where the routers do, and what each
\* segment decodes to.
Cut(p, n, names) ==
  /\ n \in Nat /\ p \in Seq(Alphabet) /\ Len(p) = n
  /\ names \in [1 .. n -> Names]
  /\ \A k \in 1 .. n : Unquoted[p[k]] = <<names[k]>>

\* Decoding appends one name after another.
LEMMA DecodesAlike ==
  ASSUME NEW p, NEW n, NEW names, Cut(p, n, names)
  PROVE  Decoded(p) = names
<1> DEFINE A == Seq(Names)
<1>1. n \in Nat /\ DOMAIN p = 1 .. n /\ names \in [1 .. n -> Names]
  BY DEF Cut
<1>2. \A k \in 1 .. n, s \in A : Joins(s, p[k]) = Append(s, names[k]) /\ Append(s, names[k]) \in A
  <2> SUFFICES ASSUME NEW k \in 1 .. n, NEW s \in A
               PROVE  Joins(s, p[k]) = Append(s, names[k]) /\ Append(s, names[k]) \in A
    OBVIOUS
  <2>1. names[k] \in Names /\ Unquoted[p[k]] = <<names[k]>>
    BY <1>1 DEF Cut
  <2> HIDE DEF A
  <2>2. s \o <<names[k]>> = Append(s, names[k]) /\ Append(s, names[k]) \in A
    BY <2>1, SendsOne, EnqueueAdds DEF A
  <2> QED
    BY <2>1, <2>2 DEF Joins
<1>3. <<>> \in A /\ \A k \in 1 .. n, s \in A : Joins(s, p[k]) \in A
  BY <1>2
<1>4. PICK r : /\ FoldRun(r, n, A, <<>>, [k \in 1 .. n |-> [s \in A |-> Joins(s, p[k])]])
               /\ FoldLeft(Joins, <<>>, p) = r[n]
  <2> HIDE DEF A
  <2> QED
    BY <1>1, <1>3, FoldJoins
<1>5. r[0] = <<>> /\ \A k \in 0 .. n : r[k] \in A
  BY <1>4 DEF FoldRun
<1>6. ASSUME NEW k \in 1 .. n PROVE r[k] = Append(r[k - 1], names[k])
  <2>1. r[k - 1] \in A
    BY <1>1, <1>5
  <2>2. r[k] = [s \in A |-> Joins(s, p[k])][r[k - 1]]
    BY <1>4 DEF FoldRun
  <2> QED
    BY <1>2, <2>1, <2>2
<1> DEFINE G == {k \in Nat : k =< n => Len(r[k]) = k /\ \A j \in 1 .. k : r[k][j] = names[j]}
<1>7. 0 \in G
  BY <1>5
<1>8. ASSUME NEW k \in Nat, k \in G PROVE k + 1 \in G
  <2> SUFFICES ASSUME k + 1 =< n
               PROVE  Len(r[k + 1]) = k + 1 /\ \A j \in 1 .. k + 1 : r[k + 1][j] = names[j]
    OBVIOUS
  <2>1. k + 1 \in 1 .. n /\ (k + 1) - 1 = k /\ k \in 0 .. n
    BY <1>1
  <2>2. r[k] \in Seq(Names) /\ r[k + 1] = Append(r[k], names[k + 1])
    BY <1>5, <1>6, <2>1
  <2>3. Len(r[k]) = k /\ \A j \in 1 .. k : r[k][j] = names[j]
    BY <1>1, <1>8, <2>1
  <2>4. names[k + 1] \in Names
    BY <1>1, <2>1
  <2>5. \A j \in 1 .. k + 1 : j \in 1 .. k \/ j = k + 1
    BY <2>1
  <2> HIDE DEF G, A
  <2> QED
    BY <2>2, <2>3, <2>4, <2>5, EnqueueAdds
<1>9. n \in G
  <2> HIDE DEF G
  <2> QED
    BY <1>1, <1>7, <1>8, SetInduction
<1>10. r[n] \in Seq(Names) /\ Len(r[n]) = n /\ \A j \in 1 .. n : r[n][j] = names[j]
  BY <1>1, <1>5, <1>9
<1>11. r[n] = names
  <2> HIDE DEF G, A
  <2> QED
    BY <1>1, <1>10
<1> QED
  BY <1>4, <1>11 DEF Decoded

\* Normalising them is one Resolve after another.
NormalRun(q, n, names) ==
  /\ q[0] = <<>> /\ \A k \in 0 .. n : q[k] \in Seq(Names)
  /\ \A k \in 1 .. n : q[k] = Resolve(q[k - 1], names[k])

\* Normalising leaves a sequence of names.
LEMMA ResolveKeeps ==
  ASSUME NEW s \in Seq(Names), NEW a \in Names
  PROVE  Resolve(s, a) \in Seq(Names)
<1>1. Append(s, a) \in Seq(Names) /\ (s # <<>> => Front(s) \in Seq(Names))
  <2>1. Append(s, a) \in Seq(Names)
    BY EnqueueAdds
  <2>2. ASSUME s # <<>> PROVE Front(s) \in Seq(Names)
    <3>1. Len(s) \in Nat /\ Len(s) # 0
      BY <2>2, EmptySeq, LenProperties
    <3>2. Len(s) - 1 \in Nat /\ \A i \in 1 .. Len(s) - 1 : i \in 1 .. Len(s)
      BY <3>1
    <3>3. \A i \in 1 .. Len(s) - 1 : s[i] \in Names
      BY <3>2, ElementOfSeq
    <3> QED
      BY <3>1, <3>2, <3>3 DEF Front
  <2> QED
    BY <2>1, <2>2
<1>2. Resolve(s, a) \in {s, Append(s, a)} \/ (s # <<>> /\ Resolve(s, a) = Front(s))
  <2>1. CASE a \in {"", "."}
    BY Zenon, <2>1 DEF Resolve
  <2>2. CASE a \notin {"", "."} /\ a = ".." /\ s = <<>>
    BY Zenon, <2>2 DEF Resolve
  <2>3. CASE a \notin {"", "."} /\ a = ".." /\ s # <<>>
    BY Zenon, <2>3 DEF Resolve
  <2>4. CASE a \notin {"", "."} /\ a # ".."
    BY Zenon, <2>4 DEF Resolve
  <2> QED
    BY <2>1, <2>2, <2>3, <2>4
<1> QED
  BY <1>1, <1>2

\* Such a run exists: the fold of Normalized is one.
LEMMA Normalizes ==
  ASSUME NEW p, NEW n, NEW names, Cut(p, n, names)
  PROVE  \E q : NormalRun(q, n, names) /\ Normalized(p) = q[n]
<1> DEFINE A == Seq(Names)
<1>1. n \in Nat /\ names \in [1 .. n -> Names] /\ DOMAIN names = 1 .. n
  BY DEF Cut
<1>2. <<>> \in A /\ \A k \in 1 .. n, s \in A : Resolve(s, names[k]) \in A
  <2>1. \A k \in 1 .. n : names[k] \in Names
    BY <1>1
  <2>2. \A k \in 1 .. n, s \in A : Resolve(s, names[k]) \in A
    BY <2>1, ResolveKeeps
  <2>3. <<>> \in A
    OBVIOUS
  <2> QED
    BY <2>2, <2>3
<1> HIDE DEF A
<1>3. PICK q : /\ FoldRun(q, n, A, <<>>, [k \in 1 .. n |-> [s \in A |-> Resolve(s, names[k])]])
               /\ FoldLeft(Resolve, <<>>, names) = q[n]
  BY <1>1, <1>2, FoldResolve
<1>4. q[0] = <<>> /\ \A k \in 0 .. n : q[k] \in A
  BY <1>3 DEF FoldRun
<1>5. ASSUME NEW k \in 1 .. n PROVE q[k] = Resolve(q[k - 1], names[k])
  <2>1. q[k - 1] \in A
    BY <1>1, <1>4
  <2>2. q[k] = [s \in A |-> Resolve(s, names[k])][q[k - 1]]
    BY <1>3 DEF FoldRun
  <2> QED
    BY <2>1, <2>2
<1>6. NormalRun(q, n, names)
  BY <1>4, <1>5 DEF NormalRun, A
<1>7. Normalized(p) = q[n]
  BY <1>3, DecodesAlike DEF Normalized
<1> QED
  BY <1>6, <1>7

\* Below "api", and how deep at least.
Deep(s, l) == s \in Seq(Names) /\ Len(s) >= l /\ l >= 1 /\ s[1] = "api"

\* The names of the routes are names: they lead deeper.
LEMMA Plain ==
  ASSUME NEW a \in RouteNames, NEW s
  PROVE  a \in Names /\ Resolve(s, a) = Append(s, a)
<1>1. /\ Resolve(s, "api") = Append(s, "api") /\ Resolve(s, "device") = Append(s, "device")
      /\ Resolve(s, "ws") = Append(s, "ws") /\ Resolve(s, "docs") = Append(s, "docs")
      /\ Resolve(s, "openapi.json") = Append(s, "openapi.json")
      /\ Resolve(s, "mode") = Append(s, "mode") /\ Resolve(s, "fan") = Append(s, "fan")
      /\ Resolve(s, "temperature") = Append(s, "temperature")
      /\ Resolve(s, "led") = Append(s, "led") /\ Resolve(s, "mute") = Append(s, "mute")
  BY Zenon DEF Resolve
<1>2. /\ Resolve(s, "clock") = Append(s, "clock") /\ Resolve(s, "sync") = Append(s, "sync")
      /\ Resolve(s, "runtime") = Append(s, "runtime")
      /\ Resolve(s, "memory") = Append(s, "memory")
      /\ Resolve(s, "biorhythm") = Append(s, "biorhythm")
      /\ Resolve(s, "programs") = Append(s, "programs")
      /\ Resolve(s, "stop") = Append(s, "stop") /\ Resolve(s, "active") = Append(s, "active")
      /\ Resolve(s, "activate") = Append(s, "activate")
      /\ Resolve(s, "preferences") = Append(s, "preferences")
  BY Zenon DEF Resolve
<1>3. a \in Names
  BY DEF Names
<1> QED
  BY Zenon, <1>1, <1>2, <1>3 DEF RouteNames

\* A name of a route leads one level deeper.
LEMMA Deeper ==
  ASSUME NEW l \in Nat, NEW s, Deep(s, l), NEW a \in RouteNames
  PROVE  Deep(Resolve(s, a), l + 1)
<1>1. a \in Names /\ Resolve(s, a) = Append(s, a) /\ s \in Seq(Names)
  BY Plain DEF Deep
<1>2. Append(s, a) \in Seq(Names) /\ Len(Append(s, a)) = Len(s) + 1 /\ Append(s, a)[1] = s[1]
  BY <1>1 DEF Deep
<1> QED
  BY <1>1, <1>2 DEF Deep

\* Any other name takes at most one level back.
LEMMA AtMostOneUp ==
  ASSUME NEW l \in Nat, l >= 1, NEW s, Deep(s, l + 1), NEW a \in Names
  PROVE  Deep(Resolve(s, a), l)
<1>1. s \in Seq(Names) /\ Len(s) >= 2 /\ Len(s) >= l + 1 /\ Len(s) \in Nat /\ s # <<>>
  BY DEF Deep
<1>2. Deep(s, l)
  BY <1>1 DEF Deep
<1>3. Deep(Append(s, a), l)
  BY <1>1 DEF Deep
<1>4. Deep(Front(s), l)
  BY <1>1 DEF Deep, Front
<1>5. Resolve(s, a) \in {s, Append(s, a), Front(s)}
  <2>1. CASE a \in {"", "."}
    BY Zenon, <2>1 DEF Resolve
  <2>2. CASE a \notin {"", "."} /\ a = ".."
    BY Zenon, <1>1, <2>2 DEF Resolve
  <2>3. CASE a \notin {"", "."} /\ a # ".."
    BY Zenon, <2>3 DEF Resolve
  <2> QED
    BY <2>1, <2>2, <2>3
<1> QED
  BY <1>2, <1>3, <1>4, <1>5

\* The routers' patterns: a name follows "api", and of the two segments that
\* may come behind it, one is a name.
LEMMA PatternShape ==
  ASSUME NEW p \in Patterns
  PROVE  /\ Len(p) \in {2, 3, 4} /\ p[1] = "api" /\ p[2] \in RouteNames
         /\ Len(p) = 4 => p[3] \in RouteNames \/ p[4] \in RouteNames
<1> DEFINE device == {"mode", "fan", "temperature", "led", "mute", "runtime"}
<1> DEFINE programs == {"stop", "active"}
<1>1. CASE \E op \in device : p = <<"api", "device", op>>
  BY <1>1 DEF RouteNames
<1>2. CASE \E op \in programs : p = <<"api", "programs", op>>
  BY <1>2 DEF RouteNames
<1>3. CASE p \in {<<"api", "device">>, <<"api", "programs">>, <<"api", "preferences">>}
  BY <1>3 DEF RouteNames
<1>4. CASE p \in {<<"api", "programs", Param>>}
  BY <1>4 DEF RouteNames
<1>5. CASE p \in {<<"api", "device", "clock", "sync">>, <<"api", "device", "memory", Param>>,
                  <<"api", "device", "biorhythm", Param>>, <<"api", "programs", Param, "activate">>}
  BY <1>5 DEF RouteNames
<1> QED
  BY <1>1, <1>2, <1>3, <1>4, <1>5 DEF Patterns

\* A segment that matches a name decodes to it.
LEMMA MatchedName ==
  ASSUME NEW p, NEW n, NEW names, Cut(p, n, names), NEW k \in 1 .. n,
         NEW a \in RouteNames, p[k] = a
  PROVE  names[k] = a
<1>1. Unquoted[a] = <<a>>
  BY GateAssumption
<1>2. <<names[k]>> = <<a>>
  BY <1>1 DEF Cut
<1> QED
  BY <1>2

\* A parameter is no name.
LEMMA NotParam == Param \notin RouteNames
  BY DEF Param, RouteNames

\* What a router's pattern matches is normalised to something below "api", or "api" itself.
LEMMA BelowApi ==
  ASSUME NEW p, NEW n, NEW names, Cut(p, n, names),
         NEW pattern \in Patterns, Matches(p, pattern)
  PROVE  IsProtectedPath(p)
<1>1. PICK q : NormalRun(q, n, names) /\ Normalized(p) = q[n]
  BY Normalizes
<1>2. n \in {2, 3, 4} /\ Len(p) = n /\ Len(pattern) = n /\ names \in [1 .. n -> Names]
  BY PatternShape DEF Matches, Cut
<1>3. ASSUME NEW k \in 1 .. n, pattern[k] \in RouteNames PROVE names[k] = pattern[k]
  <2>1. p[k] = pattern[k]
    BY <1>2, <1>3, NotParam DEF Matches
  <2> QED
    BY <1>3, <2>1, MatchedName
<1>4. names[1] = "api" /\ names[2] = pattern[2] /\ pattern[2] \in RouteNames
  <2>1. 1 \in 1 .. n /\ 2 \in 1 .. n /\ "api" \in RouteNames
    BY <1>2 DEF RouteNames
  <2> QED
    BY <1>3, <2>1, PatternShape
<1>5. Deep(q[1], 1)
  <2>1. q[1] = Resolve(<<>>, "api")
    <3>1. 1 \in 1 .. n /\ 1 - 1 = 0
      BY <1>2
    <3>2. q[1] = Resolve(q[1 - 1], names[1])
      BY <1>1, <3>1 DEF NormalRun
    <3> QED
      BY <1>1, <1>4, <3>1, <3>2 DEF NormalRun
  <2>2. Resolve(<<>>, "api") = Append(<<>>, "api")
    BY Plain DEF RouteNames
  <2>3. Append(<<>>, "api") \in Seq(Names) /\ Len(Append(<<>>, "api")) = 1
        /\ Append(<<>>, "api")[1] = "api"
    <3>1. <<>> \in Seq(Names) /\ "api" \in Names /\ Len(<<>>) + 1 = 1
      BY DEF Names, RouteNames
    <3> QED
      BY <3>1, EnqueueAdds
  <2> QED
    BY <2>1, <2>2, <2>3, 1 >= 1 DEF Deep
<1>6. Deep(q[2], 2)
  <2>1. 2 \in 1 .. n /\ 2 - 1 = 1 /\ 1 + 1 = 2 /\ 1 \in Nat
    BY <1>2
  <2>2. q[2] = Resolve(q[1], pattern[2])
    BY <1>1, <1>4, <2>1 DEF NormalRun
  <2> QED
    BY <1>4, <1>5, <2>1, <2>2, Deeper
<1>7. n >= 3 => q[3] = Resolve(q[2], names[3]) /\ names[3] \in Names
  <2>1. n >= 3 => 3 \in 1 .. n /\ 3 - 1 = 2
    BY <1>2
  <2> QED
    BY <1>1, <1>2, <2>1 DEF NormalRun
<1>8. n = 4 => q[4] = Resolve(q[3], names[4]) /\ names[4] \in Names
  <2>1. n = 4 => 4 \in 1 .. n /\ 4 - 1 = 3
    BY <1>2
  <2> QED
    BY <1>1, <1>2, <2>1 DEF NormalRun
<1>9. n >= 3 => Deep(q[3], 1)
  BY <1>6, <1>7, 1 + 1 = 2 /\ 1 \in Nat /\ 1 >= 1, AtMostOneUp
<1>10. n = 4 => Deep(q[4], 1)
  <2>1. CASE n = 4 /\ pattern[3] \in RouteNames
    <3>1. names[3] \in RouteNames
      BY <1>3, <2>1, 3 \in 1 .. n
    <3>2. Deep(q[3], 3)
      BY <1>6, <1>7, <2>1, <3>1, 2 + 1 = 3 /\ 2 \in Nat, Deeper
    <3>3. Deep(q[4], 2)
      BY <1>8, <2>1, <3>2, 2 + 1 = 3 /\ 2 \in Nat /\ 2 >= 1, AtMostOneUp
    <3> QED
      BY <3>3 DEF Deep
  <2>2. CASE n = 4 /\ pattern[4] \in RouteNames
    <3>1. names[4] \in RouteNames
      BY <1>3, <2>2, 4 \in 1 .. n
    <3>2. Deep(q[4], 2)
      BY <1>8, <1>9, <2>2, <3>1, 1 + 1 = 2 /\ 1 \in Nat, Deeper
    <3> QED
      BY <3>2 DEF Deep
  <2> QED
    BY <1>2, <2>1, <2>2, PatternShape
<1>11. Deep(q[n], 1)
  BY <1>2, <1>6, <1>9, <1>10 DEF Deep
<1>12. Len(Normalized(p)) \in Nat /\ Len(Normalized(p)) >= 1 /\ Normalized(p)[1] = "api"
  BY <1>1, <1>11 DEF Deep
<1> QED
  BY <1>12 DEF IsProtectedPath

\* A path of one name of a route is normalised to itself.
LEMMA OneName ==
  ASSUME NEW p, NEW a \in {"docs", "openapi.json", "ws"}, p = <<a>>
  PROVE  IsProtectedPath(p)
<1>0. a \in RouteNames /\ a \in Names
  BY DEF RouteNames, Names
<1>1. Cut(p, 1, <<a>>)
  <2>1. Unquoted[a] = <<a>>
    BY <1>0, GateAssumption
  <2>3. <<a>> \in [1 .. 1 -> Names] /\ <<a>>[1] = a /\ Len(<<a>>) = 1
    BY <1>0
  <2>4. IsPath(<<a>>)
    BY <1>0, RoutePaths
  <2> QED
    BY <2>1, <2>3, <2>4 DEF Cut, IsPath
<1>2. PICK q : NormalRun(q, 1, <<a>>) /\ Normalized(p) = q[1]
  BY <1>1, Normalizes
<1>3. q[1] = Resolve(<<>>, a)
  <2>1. 1 \in 1 .. 1 /\ 1 - 1 = 0 /\ <<a>>[1] = a
    OBVIOUS
  <2> QED
    BY <1>2, <2>1 DEF NormalRun
<1>4. Normalized(p) = Append(<<>>, a)
  BY <1>0, <1>2, <1>3, Plain
<1>5. Len(Normalized(p)) = 1 /\ Normalized(p)[1] = a
  BY <1>4
<1> QED
  BY <1>5 DEF IsProtectedPath

\* What is routed is protected.
LEMMA RoutedIsProtected ==
  ASSUME NEW r, Routed(r), CutAlike(r.path), IsPath(r.path)
  PROVE  IsProtectedPath(r.path)
<1>1. CASE \E p \in Patterns : Matches(r.path, p)
  <2>1. PICK pattern \in Patterns : Matches(r.path, pattern)
    BY <1>1
  <2> DEFINE n == Len(r.path)
  <2> DEFINE names == [k \in 1 .. n |-> Unquoted[r.path[k]][1]]
  <2>2. n \in Nat /\ r.path \in Seq(Alphabet)
    BY DEF IsPath
  <2>3. \A k \in 1 .. n : Unquoted[r.path[k]] \in [1 .. 1 -> STRING]
    BY DEF CutAlike
  <2>4. \A u \in [1 .. 1 -> STRING] : u[1] \in STRING /\ u = <<u[1]>>
    OBVIOUS
  <2>5. Cut(r.path, n, names)
    BY <2>2, <2>3, <2>4 DEF Cut, Names
  <2> HIDE DEF n, names
  <2> QED
    BY <2>1, <2>5, BelowApi
<1>2. CASE \E a \in {"docs", "openapi.json", "ws"} : r.path = <<a>>
  BY <1>2, OneName
<1> QED
  BY <1>1, <1>2 DEF Routed

\* What callers send is a path.
LEMMA AskedPaths ==
  ASSUME NEW a \in ToolCalls \cup Messages \cup BadCalls
  PROVE  IsPath(PathOf(a))
<1>1. CASE a.op \in {"activate", "update", "memory", "clock"}
  BY <1>1, RoutePaths DEF PathOf, RouteNames, Alphabet
<1>2. CASE a.op \notin {"activate", "update", "memory", "clock"} /\ a.op \in DeviceOps
  <2>1. PathOf(a) = <<"api", "device", a.op>>
    BY <1>2 DEF PathOf
  <2>2. a.op \in RouteNames /\ "api" \in RouteNames /\ "device" \in RouteNames
    BY <1>2 DEF RouteNames, DeviceOps
  <2> QED
    BY <2>1, <2>2, RoutePaths DEF Alphabet
<1>3. CASE a.op \notin {"activate", "update", "memory", "clock"} /\ a.op \notin DeviceOps
  BY <1>3, RoutePaths DEF PathOf, RouteNames
<1> QED
  BY <1>1, <1>2, <1>3

\* What is tried is a path.
LEMMA ProbedPaths ==
  ASSUME NEW p \in Paths
  PROVE  IsPath(p)
<1>1. CASE p \in ShortPaths
  <2>1. PICK n \in 0 .. 3 : p \in [1 .. n -> Segments]
    BY <1>1 DEF ShortPaths
  <2>2. n \in Nat /\ Segments \subseteq Alphabet
    BY DEF Alphabet
  <2>3. p \in [1 .. n -> Alphabet]
    BY <2>1, <2>2
  <2> HIDE DEF Alphabet
  <2> QED
    BY <2>2, <2>3 DEF IsPath
<1>2. CASE p \in {<<"api", "programs", s, "activate">> : s \in Segments}
  BY <1>2, RoutePaths DEF RouteNames, Alphabet
<1>3. CASE p \in {<<"api", "device", "memory", s>> : s \in Segments}
  BY <1>3, RoutePaths DEF RouteNames, Alphabet
<1>4. CASE p \in {<<"api", "device", "biorhythm", s>> : s \in Segments}
  BY <1>4, RoutePaths DEF RouteNames, Alphabet
<1> QED
  BY <1>1, <1>2, <1>3, <1>4 DEF Paths

\* What has gone through the gate was let through it; and who was not let
\* through did not carry the token.
Gated ==
  /\ env \in Environments /\ IsPath(request.path)
  /\ stage \in {"passed", "asking"} \/ (stage = "answered" /\ answer.status # 401)
     => \E keys \in BOOLEAN : LetsThrough(env, request, keys)
  /\ answer.status = 401 =>
       ~(env.token = "secret" /\ request.cred.authorization = "bearer_secret")
  /\ stage # "answered" => answer.status = 0

\* The header's token counts, whatever the query says.
LEMMA PresentsHeader ==
  ASSUME NEW e, NEW q, q.cred.authorization = "bearer_secret"
  PROVE  Presented(e, q) = "secret"
  BY DEF Presented

\* Where a secret is presented, the header or the query holds it.
LEMMA PresentsSecret ==
  ASSUME NEW e, NEW q, Presented(e, q) = "secret"
  PROVE  \/ q.cred.authorization = "bearer_secret"
         \/ q.scope = "websocket" /\ WsQuery(e) /\ q.cred.query = "secret"
  BY DEF Presented

\* A routed request that is let through carries what the hub asks for.
LEMMA LetThroughCarries ==
  ASSUME NEW keys \in BOOLEAN, env \in Environments, IsPath(request.path),
         Routed(request), CutAlike(request.path), LetsThrough(env, request, keys),
         env.token = "secret" \/ (env.team = "bare" /\ env.audience = "aud")
  PROVE  CarriesToken(request) \/ CarriesAssertion(request)
<1>1. IsProtectedPath(request.path)
  BY RoutedIsProtected
<1>2. ~(request.scope = "http" /\ request.method = "OPTIONS")
  BY DEF Routed
<1>3. Enabled(env)
  BY DEF Enabled, Bearer, Jwt
<1>4. Authenticates(env, request, keys)
  BY <1>1, <1>2, <1>3 DEF LetsThrough
<1>5. CASE Bearer(env) /\ Presented(env, request) = "secret"
  BY <1>5, PresentsSecret DEF CarriesToken, Bearer, WsQuery
<1>6. CASE Jwt(env) /\ Verified(env, request, keys)
  <2>1. env.team = "bare" /\ env.audience = "aud" /\ env.emails \subseteq {"listed"}
    BY <1>6 DEF Jwt, Environments
  <2>2. /\ request.cred.assertion \in {"listed", "unlisted", "no_email"}
        /\ env.emails # {} => request.cred.assertion \in env.emails
    BY <1>6 DEF Verified
  <2> QED
    BY <2>1, <2>2 DEF CarriesAssertion
<1> QED
  BY <1>4, <1>5, <1>6 DEF Authenticates

\* The first request has a path.
LEMMA GetPath == IsPath(Get.path)
<1>1. Get.path = <<"api", "device">>
  BY DEF Get, Probe
<1> QED
  BY <1>1, RoutePaths DEF RouteNames

\* Nobody has passed the gate at the start.
LEMMA GatedStarts == Init => Gated
<1> SUFFICES ASSUME Init PROVE Gated
  OBVIOUS
<1>1. env \in Environments
  <2>1. DefaultEnv \in Environments
    BY DEF DefaultEnv, Environments
  <2> QED
    BY <2>1 DEF Init
<1>2. IsPath(request.path)
  BY GetPath DEF Init
<1>3. stage \in {"set_up", "idle"} /\ answer.status = 0
  BY DEF Init, Nobody
<1> QED
  BY <1>1, <1>2, <1>3 DEF Gated

\* A request is sent on a path.
LEMMA SentPath ==
  ASSUME Tries \/ Posts \/ Calls \/ Handles
  PROVE  IsPath(request'.path)
<1>1. CASE Tries
  <2>1. PICK r \in Probes : request' = r
    BY <1>1 DEF Tries, Sends
  <2>2. CASE \E s \in {"http", "websocket"}, p \in Paths, m \in {"GET", "OPTIONS"} :
               r = Probe(s, m, p, NoCredentials)
    BY <2>1, <2>2, ProbedPaths DEF Probe
  <2>3. CASE \E s \in {"http", "websocket"}, p \in {<<"api", "device">>, <<"ws">>},
                c \in Credentials : r = Probe(s, "GET", p, c)
    <3>1. r.path \in {<<"api", "device">>, <<"ws">>}
      BY <2>3 DEF Probe
    <3> QED
      BY <2>1, <3>1, RoutePaths DEF RouteNames
  <2> QED
    BY <2>2, <2>3 DEF Probes
<1>2. CASE Posts \/ Calls \/ Handles
  <2>1. PICK a \in ToolCalls \cup Messages \cup BadCalls :
          request' = Http(a, Trusted) \/ request' = Mcp(a)
    BY <1>2 DEF Posts, Calls, Handles, Sends, ToolCalls
  <2>2. Http(a, Trusted).path = PathOf(a) /\ Mcp(a).path = PathOf(a)
    BY DEF Http, Mcp
  <2> QED
    BY <2>1, <2>2, AskedPaths
<1> QED
  BY <1>1, <1>2

\* Every step keeps Gated: only PassesGate lets a request through.
LEMMA GatedKept == Gated /\ [Next]_vars => Gated'
<1> SUFFICES ASSUME Gated, [Next]_vars PROVE Gated'
  OBVIOUS
<1> USE DEF Gated
<1>1. CASE UNCHANGED vars
  BY <1>1 DEF vars
<1>2. CASE Tries \/ Posts \/ Calls
  BY <1>2, SentPath DEF Tries, Posts, Calls, Sends
<1>3. CASE Handles
  BY <1>3, Handled, SentPath
<1>4. CASE HubUnreachable \/ AgentGivesUp
  BY <1>4 DEF HubUnreachable, AgentGivesUp, Tell
<1>5. ASSUME NEW keys \in BOOLEAN, PassesGate(keys) PROVE Gated'
  <2>1. CASE LetsThrough(env, request, keys)
    BY <1>5, <2>1 DEF PassesGate
  <2>2. CASE ~LetsThrough(env, request, keys)
    <3>1. ~(env.token = "secret" /\ request.cred.authorization = "bearer_secret")
      BY <2>2, PresentsHeader DEF LetsThrough, Authenticates, Bearer
    <3> QED
      BY <1>5, <2>2, <3>1 DEF PassesGate, Answers
  <2> QED
    BY <2>1, <2>2
<1>6. CASE Refuses
  BY <1>6 DEF Refuses, Answers
<1>7. CASE Reads \/ Forwards \/ NotConnected
  BY <1>7 DEF Reads, Forwards, NotConnected, Accepts, Answers
<1>8. CASE ServesProgram
  <2>1. PICK o : Plausible(o, request.ask) /\ answer' = [status |-> o.status, says |-> o.says]
    BY <1>8, ProgramServed
  <2>2. answer'.status # 401
    BY <2>1 DEF Plausible
  <2> QED
    BY <1>8, <2>2 DEF ServesProgram, Accepts, Answers
<1>9. CASE HearsDaemon \/ GivesUp
  BY <1>9 DEF HearsDaemon, GivesUp, Answers
<1>10. CASE ManagerAccepts \/ ManagerReturns \/ ManagerIgnores \/ ManagerRaises \/ DaemonEnds
  BY <1>10 DEF ManagerAccepts, ManagerReturns, ManagerIgnores, ManagerRaises, DaemonEnds
<1>11. CASE Tells
  BY <1>11, Retold
<1> QED
  BY <1>1, <1>2, <1>3, <1>4, <1>5, <1>6, <1>7, <1>8, <1>9, <1>10, <1>11 DEF Next

\* ServesTheEntitled holds for every environment of AuthConfig, every request,
\* whatever a segment decodes to, and whether or not the signing keys can be
\* fetched: where the gate cuts a path as the routers do, no route, those with
\* a parameter included, is left unprotected by the middleware's normalisation.
THEOREM EntitledHolds == Spec => []ServesTheEntitled
<1>1. Gated => ServesTheEntitled
  <2> SUFFICES ASSUME Gated PROVE ServesTheEntitled
    OBVIOUS
  <2>1. ASSUME stage \in {"passed", "asking", "answered"}, answer.status # 401,
               Routed(request), CutAlike(request.path),
               env.token = "secret" \/ (env.team = "bare" /\ env.audience = "aud")
        PROVE  CarriesToken(request) \/ CarriesAssertion(request)
    <3>1. PICK keys \in BOOLEAN : LetsThrough(env, request, keys)
      BY <2>1 DEF Gated
    <3> QED
      BY <2>1, <3>1, LetThroughCarries DEF Gated
  <2> QED
    BY <2>1 DEF Gated, ServesTheEntitled
<1> QED
  BY <1>1, GatedStarts, GatedKept, PTL DEF Spec

-----------------------------------------------------------------------------
\* What can be asked.

Fits(a) ==
  a.op = "activate" => a.arg.steps \in Durations /\ a.arg.delta \in Nat

\* The parts of what is asked.
LEMMA AskIs ==
  ASSUME NEW op, NEW arg
  PROVE  Ask(op, arg).op = op /\ Ask(op, arg).arg = arg
  BY DEF Ask

\* The commands that callers try.
LEMMA CommandFits ==
  ASSUME NEW a \in Commands
  PROVE  Fits(a)
<1>1. a.op # "activate"
  BY AskIs DEF Commands
<1> QED
  BY <1>1 DEF Fits

\* The calls about programs.
LEMMA ProgramCallFits ==
  ASSUME NEW a \in ProgramCalls
  PROVE  Fits(a)
<1>1. CASE a \in {Ask("activate", x) : x \in Activations}
  <2>1. PICK x \in Activations : a = Ask("activate", x)
    BY <1>1
  <2>2. x.steps \in Durations /\ x.delta \in Nat
    BY ApiAssumption DEF Activations
  <2> QED
    BY <2>1, <2>2, AskIs DEF Fits
<1>2. CASE a \in {Ask("update", x) : x \in [known : BOOLEAN, minutes : {-1, 0}]}
  BY <1>2, AskIs DEF Fits
<1> QED
  BY <1>1, <1>2 DEF ProgramCalls

\* Everything else.
LEMMA OtherFits ==
  /\ \A a \in Messages \cup BadCalls : Fits(a)
  /\ Fits(Ask("get", "none"))
  BY AskIs DEF Fits, Messages, BadCalls

Asked == Fits(request.ask)

\* A request carries what is asked.
LEMMA HttpAsks ==
  ASSUME NEW a, NEW c
  PROVE  Http(a, c).ask = a /\ Mcp(a).ask = a
  BY DEF Http, Mcp

\* The probes ask for the state.
LEMMA ProbesGet ==
  ASSUME NEW q \in Probes
  PROVE  q.ask = Ask("get", "none")
  BY DEF Probes, Probe

\* The first request fits.
LEMMA AskedStarts == Init => Asked
  BY OtherFits DEF Init, Get, Probe, Asked

\* A request other than the present one fits, too.
LEMMA AskedSends ==
  ASSUME NEW q, Sends(q), Fits(q.ask)
  PROVE  Asked'
  BY DEF Sends, Asked

\* Every step keeps the request fitting.
LEMMA AskedKept == Asked /\ [Next]_vars => Asked'
<1> SUFFICES ASSUME Asked, [Next]_vars PROVE Asked'
  OBVIOUS
<1>1. CASE UNCHANGED request
  BY <1>1 DEF Asked
<1>2. CASE Tries
  <2>1. PICK q \in Probes : Sends(q)
    BY <1>2 DEF Tries
  <2> QED
    BY <2>1, ProbesGet, OtherFits, AskedSends
<1>3. CASE Posts
  <2>1. PICK a \in Commands : Sends(Http(a, Trusted))
    BY <1>3 DEF Posts
  <2> QED
    BY <2>1, CommandFits, HttpAsks, AskedSends
<1>4. CASE Calls
  <2>1. PICK a \in ToolCalls : Sends(Mcp(a))
    BY <1>4 DEF Calls
  <2>2. Fits(a)
    BY CommandFits, ProgramCallFits, OtherFits DEF ToolCalls
  <2> QED
    BY <2>1, <2>2, HttpAsks, AskedSends
<1>5. CASE Handles
  <2>1. PICK a \in Messages \cup BadCalls : request' = Mcp(a)
    BY <1>5 DEF Handles
  <2> QED
    BY <2>1, OtherFits, HttpAsks DEF Asked
<1> QED
  BY <1>1, <1>2, <1>3, <1>4, <1>5
     DEF Next, vars, HubUnreachable, AgentGivesUp, PassesGate, Refuses, Reads, ServesProgram,
         Forwards, NotConnected, HearsDaemon, GivesUp, ManagerAccepts, ManagerReturns,
         ManagerIgnores, ManagerRaises, DaemonEnds, Tells

-----------------------------------------------------------------------------
\* Running totals, and the loop that seeks a step.

\* The minutes before step k + 1.
Total(ds, k) == Summed(0, SubSeq(ds, 1, k))

\* The totals start at zero, and each adds a step's duration.
LEMMA Totals ==
  ASSUME NEW ds \in Seq(Nat)
  PROVE  /\ Total(ds, 0) = 0
         /\ \A k \in 1 .. Len(ds) : Total(ds, k) = Total(ds, k - 1) + ds[k]
         /\ \A k \in 0 .. Len(ds) : Total(ds, k) \in Int
<1>1. ASSUME NEW k \in 0 .. Len(ds)
      PROVE  /\ DOMAIN SubSeq(ds, 1, k) = 1 .. k
             /\ \A j \in 1 .. k : SubSeq(ds, 1, k)[j] = ds[j] /\ ds[j] \in Nat
  OBVIOUS
<1>2. ASSUME NEW k \in 0 .. Len(ds)
      PROVE  \E r : SumRun(r, k, SubSeq(ds, 1, k)) /\ Total(ds, k) = r[k]
  <2> DEFINE e == SubSeq(ds, 1, k)
  <2>1. k \in Nat /\ DOMAIN e = 1 .. k /\ \A j \in 1 .. k : e[j] \in Int
    BY <1>1
  <2> HIDE DEF e
  <2>2. \E r : SumRun(r, k, e) /\ Summed(0, e) = r[k]
    BY <2>1, SumRuns
  <2> QED
    BY <2>2 DEF Total, e
<1>3. ASSUME NEW k \in 0 .. Len(ds) PROVE Total(ds, k) \in Int
  BY <1>2, k \in 0 .. k DEF SumRun
<1>4. Total(ds, 0) = 0
  <2>1. 0 \in 0 .. Len(ds)
    OBVIOUS
  <2> QED
    BY <1>2, <2>1 DEF SumRun
<1>5. ASSUME NEW k \in 1 .. Len(ds) PROVE Total(ds, k) = Total(ds, k - 1) + ds[k]
  <2>1. k \in 0 .. Len(ds) /\ k - 1 \in 0 .. Len(ds) /\ k \in Nat /\ k - 1 \in Nat
    OBVIOUS
  <2>2. PICK r : SumRun(r, k, SubSeq(ds, 1, k)) /\ Total(ds, k) = r[k]
    BY <1>2, <2>1
  <2>3. PICK q : SumRun(q, k - 1, SubSeq(ds, 1, k - 1)) /\ Total(ds, k - 1) = q[k - 1]
    BY <1>2, <2>1
  <2>4. \A j \in 1 .. k - 1 : SubSeq(ds, 1, k - 1)[j] = SubSeq(ds, 1, k)[j]
    <3>1. \A j \in 1 .. k - 1 : j \in 1 .. k
      OBVIOUS
    <3> QED
      BY <1>1, <2>1, <3>1
  <2>5. q[k - 1] = r[k - 1]
    <3> DEFINE d == SubSeq(ds, 1, k - 1)
    <3> DEFINE e == SubSeq(ds, 1, k)
    <3> DEFINE i == k - 1
    <3>1. i \in Nat /\ k \in Nat /\ i =< k /\ SumRun(q, i, d) /\ SumRun(r, k, e)
      BY <2>1, <2>2, <2>3
    <3>2. \A j \in 1 .. i : d[j] = e[j]
      BY <2>4
    <3> HIDE DEF d, e, i
    <3>3. Agree(q, r, i)
      BY <3>1, <3>2, SumSame
    <3> QED
      BY <3>3 DEF i, Agree
  <2>6. r[k] = r[k - 1] + ds[k]
    <3>1. k \in 1 .. k
      OBVIOUS
    <3> QED
      BY <1>1, <2>1, <2>2, <3>1 DEF SumRun
  <2> QED
    BY <2>2, <2>3, <2>5, <2>6
<1> QED
  BY <1>3, <1>4, <1>5

\* What the loop knows after k steps: that no step so far holds the minute
\* delta and what is left of it, or the step that holds it.
Searched(s, k, ds, delta) ==
  /\ s.i \in Nat /\ s.found \in Nat /\ s.elapsed \in Nat
  /\ s.found = 0 =>
       /\ s.i = k /\ Total(ds, k) =< delta /\ s.elapsed = delta - Total(ds, k)
       /\ \A j \in 1 .. k : Total(ds, j) =< delta
  /\ s.found # 0 =>
       /\ s.found \in 1 .. k
       /\ Total(ds, s.found - 1) =< delta /\ delta < Total(ds, s.found)
       /\ s.elapsed = delta - Total(ds, s.found - 1)

Searches == [i : Nat, found : Nat, elapsed : Int]

\* The state of the loop is typed.
LEMMA LookKeeps ==
  ASSUME NEW s \in Searches, NEW d \in Nat
  PROVE  Look(s, d) \in Searches
  BY DEF Look, Searches

\* A pass of the loop searches one step more.
LEMMA LookSearches ==
  ASSUME NEW ds \in Seq(Nat), NEW delta \in Nat, NEW k \in 1 .. Len(ds),
         NEW s \in Searches, Searched(s, k - 1, ds, delta)
  PROVE  Searched(Look(s, ds[k]), k, ds, delta)
<1>1. /\ ds[k] \in Nat /\ k \in Nat /\ k - 1 \in Nat
      /\ Total(ds, k) \in Int /\ Total(ds, k - 1) \in Int
      /\ Total(ds, k) = Total(ds, k - 1) + ds[k]
  <2>1. k \in 0 .. Len(ds) /\ k - 1 \in 0 .. Len(ds)
    OBVIOUS
  <2> QED
    BY <2>1, Totals
<1>2. \A j \in 1 .. k : j = k \/ j \in 1 .. k - 1
  OBVIOUS
<1>3. CASE s.found # 0
  <2>1. Look(s, ds[k]) = s
    BY <1>3 DEF Look
  <2>2. \A f \in 1 .. k - 1 : f \in 1 .. k
    OBVIOUS
  <2> QED
    BY <1>3, <2>1, <2>2 DEF Searched
<1>4. CASE s.found = 0 /\ ds[k] = 0
  <2>1. /\ Look(s, ds[k]).i = k /\ Look(s, ds[k]).found = 0
        /\ Look(s, ds[k]).elapsed = s.elapsed
    BY <1>1, <1>4 DEF Searched, Look, Searches
  <2>2. Total(ds, k) =< delta /\ s.elapsed = delta - Total(ds, k)
    BY <1>1, <1>4 DEF Searched
  <2>3. \A j \in 1 .. k : Total(ds, j) =< delta
    BY <1>2, <1>4, <2>2 DEF Searched
  <2>4. s.elapsed \in Nat
    BY DEF Searched
  <2> QED
    BY <1>1, <2>1, <2>2, <2>3, <2>4 DEF Searched
<1>5. CASE s.found = 0 /\ ds[k] # 0 /\ s.elapsed < ds[k]
  <2>1. /\ Look(s, ds[k]).i = k /\ Look(s, ds[k]).found = k
        /\ Look(s, ds[k]).elapsed = s.elapsed
    BY <1>1, <1>5 DEF Searched, Look, Searches
  <2>2. k # 0 /\ k \in 1 .. k
    OBVIOUS
  <2> QED
    BY <1>1, <1>5, <2>1, <2>2 DEF Searched
<1>6. CASE s.found = 0 /\ ds[k] # 0 /\ ~(s.elapsed < ds[k])
  <2>1. /\ Look(s, ds[k]).i = k /\ Look(s, ds[k]).found = 0
        /\ Look(s, ds[k]).elapsed = s.elapsed - ds[k]
    BY <1>1, <1>6 DEF Searched, Look, Searches
  <2>0. s.elapsed \in Nat /\ s.elapsed = delta - Total(ds, k - 1)
    BY <1>6 DEF Searched
  <2>2. /\ Total(ds, k) =< delta /\ s.elapsed - ds[k] = delta - Total(ds, k)
        /\ s.elapsed - ds[k] \in Nat
    <3>1. \A e, d, a, b \in Int : e = delta - a /\ b = a + d /\ ~(e < d)
            => b =< delta /\ e - d = delta - b /\ e - d >= 0
      OBVIOUS
    <3>2. /\ s.elapsed \in Int /\ ds[k] \in Int /\ Total(ds, k - 1) \in Int
          /\ Total(ds, k) \in Int /\ ~(s.elapsed < ds[k])
      BY <1>1, <1>6, <2>0
    <3>3. /\ Total(ds, k) =< delta /\ s.elapsed - ds[k] = delta - Total(ds, k)
          /\ s.elapsed - ds[k] >= 0
      BY <1>1, <2>0, <3>1, <3>2
    <3>4. s.elapsed - ds[k] \in Int
      BY <3>2
    <3> QED
      BY <3>3, <3>4
  <2>3. \A j \in 1 .. k : Total(ds, j) =< delta
    BY <1>2, <1>6, <2>2 DEF Searched
  <2> QED
    BY <1>1, <2>1, <2>2, <2>3 DEF Searched
<1> QED
  BY <1>3, <1>4, <1>5, <1>6

\* After the loop every step has been searched.
LEMMA SoughtSearched ==
  ASSUME NEW ds \in Seq(Nat), NEW delta \in Nat
  PROVE  Searched(Sought(ds, delta), Len(ds), ds, delta)
<1> DEFINE n == Len(ds)
<1>1. n \in Nat /\ DOMAIN ds = 1 .. n /\ \A k \in 1 .. n : ds[k] \in Nat
  OBVIOUS
<1>2. Searching(delta) \in Searches
  BY DEF Searching, Searches
<1>3. \A k \in 1 .. n, s \in Searches : Look(s, ds[k]) \in Searches
  BY <1>1, LookKeeps
<1>4. PICK r : /\ FoldRun(r, n, Searches, Searching(delta),
                       [k \in 1 .. n |-> [s \in Searches |-> Look(s, ds[k])]])
               /\ FoldLeft(Look, Searching(delta), ds) = r[n]
  <2> HIDE DEF n
  <2> QED
    BY <1>1, <1>2, <1>3, FoldLook
<1>5. r \in [0 .. n -> Searches] /\ r[0] = Searching(delta)
  BY <1>4 DEF FoldRun
<1>6. ASSUME NEW k \in 1 .. n PROVE r[k] = Look(r[k - 1], ds[k]) /\ r[k - 1] \in Searches
  <2>1. r[k - 1] \in Searches
    BY <1>5, k - 1 \in 0 .. n
  <2>2. r[k] = [s \in Searches |-> Look(s, ds[k])][r[k - 1]]
    BY <1>4 DEF FoldRun
  <2> QED
    BY <2>1, <2>2
<1> DEFINE G == {k \in Nat : k =< n => Searched(r[k], k, ds, delta)}
<1>7. 0 \in G
  <2>1. Total(ds, 0) = 0
    BY Totals
  <2>2. r[0].i = 0 /\ r[0].found = 0 /\ r[0].elapsed = delta
    BY <1>5 DEF Searching
  <2>3. Searched(r[0], 0, ds, delta)
    BY <2>1, <2>2 DEF Searched
  <2> QED
    BY <2>3
<1>8. ASSUME NEW k \in Nat, k \in G PROVE k + 1 \in G
  <2> SUFFICES ASSUME k + 1 =< n PROVE Searched(r[k + 1], k + 1, ds, delta)
    OBVIOUS
  <2>1. k + 1 \in 1 .. n /\ (k + 1) - 1 = k
    BY <1>1
  <2>2. Searched(r[k], k, ds, delta)
    BY <1>8, <1>1
  <2>3. r[k + 1] = Look(r[k], ds[k + 1]) /\ r[k] \in Searches
    BY <1>6, <2>1
  <2> HIDE DEF G
  <2> QED
    BY <2>1, <2>2, <2>3, LookSearches
<1>9. n \in G
  <2> HIDE DEF G, n
  <2> QED
    BY <1>1, <1>7, <1>8, SetInduction
<1> QED
  BY <1>1, <1>4, <1>9 DEF Sought

\* The durations of a program are numbers.
LEMMA DurationsAre ==
  ASSUME NEW ds \in Durations
  PROVE  ds \in Seq(Nat)
<1>1. PICK n \in 0 .. MaxSteps : ds \in [1 .. n -> 0 .. MaxDuration]
  BY DEF Durations
<1>2. n \in Nat /\ 0 .. MaxDuration \subseteq Nat
  BY ApiAssumption
<1>3. ds \in [1 .. n -> Nat]
  BY <1>1, <1>2
<1> QED
  BY <1>2, <1>3

\* Module Programs' words for the running totals.
LEMMA StepAtIs ==
  ASSUME NEW ds \in Seq(Nat), NEW i, NEW x
  PROVE  /\ IsStepAt(AsProgram(ds), i, x) <=>
              i \in 1 .. Len(ds) /\ Total(ds, i - 1) =< x /\ x < Total(ds, i)
         /\ i \in 1 .. Len(ds) =>
              Remaining(AsProgram(ds), i, x) = Total(ds, i) - x
<1> DEFINE d == AsProgram(ds)
<1>1. Steps(d) = 1 .. Len(ds)
  BY DEF AsProgram, Steps
<1>2. ASSUME NEW k \in 1 .. Len(ds) + 1 PROVE d.from[k] = Total(ds, k - 1)
  BY DEF AsProgram, Total, Summed
<1>3. ASSUME i \in 1 .. Len(ds) PROVE d.from[i] = Total(ds, i - 1) /\ d.from[i + 1] = Total(ds, i)
  <2>1. i \in 1 .. Len(ds) + 1 /\ i + 1 \in 1 .. Len(ds) + 1 /\ (i + 1) - 1 = i
    BY <1>3
  <2> HIDE DEF d
  <2> QED
    BY <1>2, <2>1
<1> HIDE DEF d
<1>4. /\ IsStepAt(d, i, x) <=> i \in 1 .. Len(ds) /\ Total(ds, i - 1) =< x /\ x < Total(ds, i)
      /\ i \in 1 .. Len(ds) => Remaining(d, i, x) = Total(ds, i) - x
  BY <1>1, <1>3 DEF IsStepAt, Remaining
<1> QED
  BY <1>4 DEF d

\* The loop stops where the totals say, or nowhere.
StopsRight(ds, delta, s) ==
  IF s.found = 0 THEN NothingAt(AsProgram(ds), delta)
  ELSE /\ IsStepAt(AsProgram(ds), s.found, delta)
       /\ ds[s.found] - s.elapsed = Remaining(AsProgram(ds), s.found, delta)

\* Where the loop stops is where the totals say.
LEMMA SoughtIsStep ==
  ASSUME NEW ds \in Seq(Nat), NEW delta \in Nat
  PROVE  StopsRight(ds, delta, Sought(ds, delta))
<1> DEFINE s == Sought(ds, delta)
<1> DEFINE d == AsProgram(ds)
<1>1. Searched(s, Len(ds), ds, delta)
  BY SoughtSearched
<1>2. Len(ds) \in Nat /\ \A k \in 1 .. Len(ds) : ds[k] \in Nat
  OBVIOUS
<1> HIDE DEF s
<1>3. ASSUME s.found = 0 PROVE StopsRight(ds, delta, s)
  <2>1. ASSUME NEW i \in Steps(d) PROVE ~IsStepAt(d, i, delta)
    <3>1. SUFFICES ASSUME IsStepAt(d, i, delta) PROVE FALSE
      OBVIOUS
    <3>2. i \in 1 .. Len(ds) /\ delta < Total(ds, i)
      BY <3>1, StepAtIs
    <3>3. Total(ds, i) =< delta
      BY <1>1, <1>3, <3>2 DEF Searched
    <3>4. Total(ds, i) \in Int
      <4>1. i \in 0 .. Len(ds)
        BY <1>2, <3>2
      <4> QED
        BY <4>1, Totals
    <3> QED
      BY <3>2, <3>3, <3>4
  <2>2. NothingAt(d, delta)
    BY <2>1 DEF NothingAt
  <2> QED
    BY <1>3, <2>2 DEF StopsRight
<1>4. ASSUME s.found # 0 PROVE StopsRight(ds, delta, s)
  <2> DEFINE f == s.found
  <2>1. /\ f \in 1 .. Len(ds) /\ Total(ds, f - 1) =< delta /\ delta < Total(ds, f)
        /\ s.elapsed = delta - Total(ds, f - 1)
    BY <1>1, <1>4 DEF Searched
  <2> HIDE DEF f
  <2>2. IsStepAt(d, f, delta) /\ Remaining(d, f, delta) = Total(ds, f) - delta
    BY <2>1, StepAtIs
  <2>3. /\ Total(ds, f) = Total(ds, f - 1) + ds[f] /\ ds[f] \in Nat
        /\ Total(ds, f) \in Int /\ Total(ds, f - 1) \in Int
    <3>1. f \in 0 .. Len(ds) /\ f - 1 \in 0 .. Len(ds)
      BY <1>2, <2>1
    <3> QED
      BY <1>2, <2>1, <3>1, Totals
  <2>4. ds[f] - s.elapsed = Remaining(d, f, delta)
    BY <2>1, <2>2, <2>3
  <2> QED
    BY <1>4, <2>2, <2>4 DEF f, StopsRight
<1> QED
  BY <1>3, <1>4 DEF s

\* A program is activated only if the loop found a step.
Found ==
  /\ stage = "asking" => request.ask.op \in DeviceOps
  /\ stage = "answered" /\ answer.says = "ok" /\ request.ask.op = "activate"
     => Sought(request.ask.arg.steps, request.ask.arg.delta).found # 0

\* Every step keeps the found step found.
LEMMA FoundKept == Found /\ [Next]_vars => Found'
<1> SUFFICES ASSUME Found, [Next]_vars PROVE Found'
  OBVIOUS
<1> USE DEF Found
<1>1. CASE UNCHANGED vars
  BY <1>1 DEF vars
<1>2. CASE Tries \/ Posts \/ Calls
  BY <1>2 DEF Tries, Posts, Calls, Sends
<1>3. CASE Handles
  BY <1>3, Handled
<1>4. CASE HubUnreachable \/ AgentGivesUp
  BY <1>4 DEF HubUnreachable, AgentGivesUp, Tell
<1>5. ASSUME NEW keys \in BOOLEAN, PassesGate(keys) PROVE Found'
  BY <1>5 DEF PassesGate, Answers
<1>6. CASE Refuses
  BY <1>6 DEF Refuses, Answers
<1>7. CASE Reads \/ NotConnected \/ Forwards
  BY <1>7 DEF Reads, NotConnected, Forwards, Accepts, Answers, DeviceOps
<1>8. CASE ServesProgram
  <2>1. request' = request
    BY <1>8 DEF ServesProgram
  <2>2. SUFFICES ASSUME answer'.says = "ok", request.ask.op = "activate"
                 PROVE  Sought(request.ask.arg.steps, request.ask.arg.delta).found # 0
    BY <1>8, <2>1 DEF ServesProgram, Answers
  <2>3. request.ask.op # "update"
    BY <2>2
  <2>4. PICK o \in ActivateOutcomes(request.ask) : Answers(o.status, o.says)
    BY <1>8, <2>3 DEF ServesProgram
  <2>5. o.says = "ok"
    BY <2>2, <2>4 DEF Answers
  <2> QED
    BY <2>4, <2>5, ActivatePlausible
<1>9. CASE HearsDaemon \/ GivesUp
  BY <1>9 DEF HearsDaemon, GivesUp, Answers, DeviceOps
<1>10. CASE ManagerAccepts \/ ManagerReturns \/ ManagerIgnores \/ ManagerRaises \/ DaemonEnds
  BY <1>10 DEF ManagerAccepts, ManagerReturns, ManagerIgnores, ManagerRaises, DaemonEnds
<1>11. CASE Tells
  BY <1>11, Retold
<1> QED
  BY <1>1, <1>2, <1>3, <1>4, <1>5, <1>6, <1>7, <1>8, <1>9, <1>10, <1>11 DEF Next

\* SeekFindsTheStep holds for programs of any length and any durations: the
\* loop stops at the step that the running totals name, with the remaining time
\* they give, and runs through exactly when they name none; and a program is
\* activated in the first case only.
THEOREM SeekHolds == Spec => []SeekFindsTheStep
<1>1. Asked /\ Found => SeekFindsTheStep
  <2> SUFFICES ASSUME Asked, Found, request.ask.op = "activate" PROVE SeekFindsTheStep
    BY DEF SeekFindsTheStep
  <2> DEFINE a == request.ask.arg
  <2> DEFINE d == AsProgram(a.steps)
  <2>1. a.steps \in Seq(Nat) /\ a.delta \in Nat
    BY DurationsAre DEF Asked, Fits
  <2>2. IF Sought(a.steps, a.delta).found = 0 THEN NothingAt(d, a.delta)
        ELSE /\ IsStepAt(d, Sought(a.steps, a.delta).found, a.delta)
             /\ a.steps[Sought(a.steps, a.delta).found] - Sought(a.steps, a.delta).elapsed
                  = Remaining(d, Sought(a.steps, a.delta).found, a.delta)
    <3> HIDE DEF a, d
    <3> QED
      BY <2>1, SoughtIsStep DEF d, StopsRight
  <2>3. stage = "answered" /\ answer.says = "ok" => ~NothingAt(d, a.delta)
    <3>1. SUFFICES ASSUME stage = "answered", answer.says = "ok" PROVE ~NothingAt(d, a.delta)
      OBVIOUS
    <3>2. Sought(a.steps, a.delta).found # 0
      BY <3>1 DEF Found
    <3>3. IsStepAt(d, Sought(a.steps, a.delta).found, a.delta)
      BY <2>2, <3>2
    <3> QED
      BY <3>3 DEF NothingAt, IsStepAt
  <2> QED
    BY <2>2, <2>3 DEF SeekFindsTheStep
<1>2. Init => Asked /\ Found
  BY AskedStarts DEF Init, Found
<1>3. Asked /\ Found /\ [Next]_vars => (Asked /\ Found)'
  BY AskedKept, FoundKept
<1> QED
  BY <1>1, <1>2, <1>3, PTL DEF Spec

=============================================================================
