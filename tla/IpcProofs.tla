------------------------------- MODULE IpcProofs -------------------------------
(***************************************************************************)
(* The socket keeps its promises for every number of calls, watchers, ends *)
(* of the two processes and changes of the state: its typing, the          *)
(* bookkeeping of the pending requests, the refinement of Rpc, and that    *)
(* the caches and the WebSockets follow.                                   *)
(***************************************************************************)
EXTENDS IpcProps, QueueLemmas

\* Each run of the hub but the first follows the end of the one before.
HubsBound == hubs =< upsets + (IF client = "off" THEN 0 ELSE 1)

\* Only a connected proxy has a connection.
LinkWhileConnected == client = "connected" <=> link # 0

\* A hub that runs was started.
Started == client # "off" => hubs # 0

\* A connection that was not made has no handler.
Unused == \A n \in Conns : n > conns => conn[n] = NoHandler

TypeInv == TypeOK /\ HubsBound /\ LinkWhileConnected /\ Started /\ Unused

\* The calls are made in their order, by the runs of the hub so far, and only
\* what was called is executed.
InOrder ==
  /\ \A q, r \in Requests : q < r /\ call[r] # "idle" => call[q] # "idle"
  /\ \A r \in executed : call[r] # "idle"
  /\ \A r \in Requests : life[r] =< hubs

\* r is on its way to the daemon on connection n.
UnderWay(n, r) ==
  /\ conn[n].pc # "closed"
  /\ \E i \in 1 .. Len(conn[n].up) : conn[n].up[i] = r

\* What a handler has yet to read was called and not executed, is in order,
\* and comes after what was executed in the same run of the hub.  A handler of
\* another connection than the hub's is left over from an earlier run, and two
\* of them have calls of different runs.
Undone ==
  \A n \in Conns :
    /\ conn[n].pc # "closed" =>
         \A i, j \in 1 .. Len(conn[n].up) : i < j => conn[n].up[i] < conn[n].up[j]
    /\ \A r \in Requests : UnderWay(n, r) =>
         /\ call[r] # "idle" /\ r \notin executed
         /\ \A q \in executed : life[q] = life[r] => q < r
         /\ n # link /\ client # "off" => life[r] < hubs
         /\ n = link => life[r] = hubs
         /\ \A m \in Conns, q \in Requests :
              UnderWay(m, q) /\ life[q] = life[r] => m = n

\* An answer that says so means that the call was executed, wherever it is.
AnswersTrue ==
  /\ \A i \in 1 .. Len(down) :
       down[i].kind = "reply" /\ down[i].ok => down[i].val \in executed
  /\ \A n \in Conns : conn[n].pc = "answering" /\ conn[n].ok => conn[n].job \in executed
  /\ \A r \in Requests : call[r] \in {"answered", "ok"} => r \in executed

RpcInv == TypeInv /\ PendingMatchesCalls /\ InOrder /\ Undone /\ AnswersTrue

\* Of the versions of the state in the messages q, none is older than c, which
\* the hub has, or newer than h, and each is followed by none that is older.
Rises(q, c, h) ==
  /\ \A i \in 1 .. Len(q) : q[i].kind = "state" =>
       /\ c =< q[i].val /\ q[i].val =< h
       /\ \A j \in 1 .. i - 1 : q[j].kind = "state" => q[j].val =< q[i].val
  /\ c =< h

\* The hub reads versions of the state in the order in which they were made.
Rising == Rises(down, cache.state, held.state)

\* Before entry i of q the hub, which has c, knows a version not older than v.
KnownBefore(q, c, i, v) ==
  c >= v \/ \E j \in 1 .. Len(q) : j < i /\ q[j].kind = "state" /\ q[j].val >= v

\* In q every answer to r comes after a version not older than v.
FollowsEffect(q, c, r, v) ==
  \A i \in 1 .. Len(q) :
    q[i].kind = "reply" /\ q[i].ok /\ q[i].val = r => KnownBefore(q, c, i, v)

\* The effect of a set_led is on its way to the hub before its answer.
EffectFirst ==
  \A r \in Led :
    /\ FollowsEffect(down, cache.state, r, wrote[r])
    /\ link # 0 /\ conn[link].pc = "answering" /\ conn[link].ok /\ conn[link].job = r
         => KnownBefore(down, cache.state, Len(down) + 1, wrote[r])
    /\ call[r] \in {"answered", "ok"} /\ life[r] = hubs /\ client # "off"
         => cache.state >= wrote[r]

WritesInv == RpcInv /\ Rising /\ EffectFirst

\* Of topic t the messages q leave the hub, which has c, with the version v.
EndsWith(q, c, t, v) ==
  \/ \E i \in 1 .. Len(q) : /\ q[i].kind = t /\ q[i].val = v
                            /\ \A j \in 1 .. Len(q) : j > i => q[j].kind # t
  \/ c = v /\ \A j \in 1 .. Len(q) : q[j].kind # t

\* What the daemon told last is the last that the hub will know.
ToldArrives ==
  client = "connected" /\ Open(link)
    => \A t \in {"state", "meta"} : EndsWith(down, cache[t], t, told[t])

\* A WebSocket that has not subscribed has no queue.
OpeningEmpty == \A w \in Watchers : watch[w].pc = "opening" => watch[w].queue = <<>>

-----------------------------------------------------------------------------
\* The sets, and the messages.

LEMMA Sizes ==
  /\ MaxUpsets \in Nat /\ NumRequests \in Nat
  /\ Requests \subseteq Nat /\ 0 \notin Requests
  /\ Conns \subseteq Nat /\ 0 \notin Conns
  /\ Lives \subseteq Nat /\ 0 \notin Lives
  BY IpcAssumption DEF Requests, Conns, Lives

LEMMA Events ==
  ASSUME NEW v \in Nat
  PROVE  /\ StateEvent(v) \in Messages /\ MetaEvent(v) \in Messages
         /\ StateEvent(v).kind = "state" /\ StateEvent(v).val = v
         /\ MetaEvent(v).kind = "meta" /\ MetaEvent(v).val = v
  BY DEF Messages, EventType, ReplyType, StateEvent, MetaEvent

LEMMA Replying ==
  ASSUME NEW r \in Requests, NEW ok \in BOOLEAN
  PROVE  /\ Reply(r, ok) \in Messages
         /\ Reply(r, ok).kind = "reply" /\ Reply(r, ok).val = r /\ Reply(r, ok).ok = ok
  BY DEF Messages, EventType, ReplyType, Reply

LEMMA MessageParts ==
  ASSUME NEW e \in Messages
  PROVE  /\ e.kind \in {"state", "meta", "reply"}
         /\ e.kind \in {"state", "meta"} => e.val \in Nat
         /\ e.kind = "reply" => e.val \in Requests /\ e.ok \in BOOLEAN
  BY DEF Messages, EventType, ReplyType

\* What is broadcast or answered is added to what the hub has to read.
LEMMA SentOne ==
  ASSUME NEW q \in Seq(Messages), NEW e \in Messages
  PROVE  q \o <<e>> = Append(q, e) /\ Append(q, e) \in Seq(Messages)
  BY SendsOne, EnqueueAdds

LEMMA SentTwo ==
  ASSUME NEW q \in Seq(Messages), NEW d \in Messages, NEW e \in Messages
  PROVE  /\ q \o <<d, e>> = Append(Append(q, d), e)
         /\ Append(Append(q, d), e) \in Seq(Messages)
  BY SendsTwo, EnqueueAdds

\* One handler changes.
LEMMA HandlerAt ==
  ASSUME conn \in [Conns -> HandlerType], NEW n \in Conns, NEW h \in HandlerType,
         conn' = [conn EXCEPT ![n] = h]
  PROVE  /\ conn' \in [Conns -> HandlerType]
         /\ conn'[n] = h
         /\ \A m \in Conns : m # n => conn'[m] = conn[m]
  OBVIOUS

LEMMA WatcherAt ==
  ASSUME watch \in [Watchers -> WatcherType], NEW w \in Watchers, NEW h \in WatcherType,
         watch' = [watch EXCEPT ![w] = h]
  PROVE  /\ watch' \in [Watchers -> WatcherType]
         /\ watch'[w] = h
         /\ \A v \in Watchers : v # w => watch'[v] = watch[v]
  OBVIOUS

LEMMA HandlerParts ==
  ASSUME TypeOK, NEW n \in Conns
  PROVE  /\ conn[n] \in HandlerType /\ conn[n].up \in Seq(Requests)
         /\ conn[n].pc \in {"none", "accepted", "reading", "answering", "closed"}
         /\ conn[n].ok \in BOOLEAN
         /\ conn[n].up # <<>> => /\ Head(conn[n].up) \in Requests
                                 /\ Tail(conn[n].up) \in Seq(Requests)
  BY TailShifts DEF TypeOK, HandlerType

-----------------------------------------------------------------------------
\* What each step does to the handlers, to what the hub has to read, and to
\* the WebSockets.

\* The fields of a handler after a step.
Becomes(n, pc, up, job, ok) ==
  conn'[n].pc = pc /\ conn'[n].up = up /\ conn'[n].job = job /\ conn'[n].ok = ok

LEMMA AttachesDoes ==
  ASSUME TypeOK, NEW n \in Conns, Attaches(n)
  PROVE  /\ conn' \in [Conns -> HandlerType]
         /\ conn[n].pc = "accepted" /\ Becomes(n, "reading", conn[n].up, conn[n].job, conn[n].ok)
         /\ \A m \in Conns : m # n => conn'[m] = conn[m]
         /\ down' = IF HasClient \/ n = link
                    THEN Append(Append(down, StateEvent(held.state)), MetaEvent(held.meta))
                    ELSE down
         /\ down' \in Seq(Messages)
<1> DEFINE h == [conn[n] EXCEPT !.pc = "reading"]
<1>1. h \in HandlerType
  BY HandlerParts DEF HandlerType
<1>h. /\ h.pc = "reading" /\ h.up = conn[n].up /\ h.job = conn[n].job /\ h.ok = conn[n].ok
  BY HandlerParts DEF HandlerType
<1>2. conn' = [conn EXCEPT ![n] = h]
  BY DEF Attaches
<1>3. down \o <<StateEvent(held.state), MetaEvent(held.meta)>>
        = Append(Append(down, StateEvent(held.state)), MetaEvent(held.meta))
      /\ Append(Append(down, StateEvent(held.state)), MetaEvent(held.meta)) \in Seq(Messages)
  BY SentTwo, Events DEF TypeOK
<1>4. conn \in [Conns -> HandlerType] /\ down \in Seq(Messages)
  BY DEF TypeOK
<1> HIDE DEF h
<1>5. /\ conn' \in [Conns -> HandlerType] /\ conn'[n] = h
      /\ \A m \in Conns : m # n => conn'[m] = conn[m]
  BY <1>1, <1>2, <1>4, HandlerAt
<1> QED BY <1>3, <1>4, <1>5, <1>h DEF Attaches, Broadcast, Becomes

\* The handler is through with its request r, and will say ok.
AnswersWith(n, r, ok) ==
  /\ conn' \in [Conns -> HandlerType]
  /\ conn[n].pc = "reading" /\ conn[n].up # <<>> /\ r = Head(conn[n].up)
  /\ Becomes(n, "answering", Tail(conn[n].up), r, ok)
  /\ \A m \in Conns : m # n => conn'[m] = conn[m]

LEMMA AnsweredDoes ==
  ASSUME TypeOK, NEW n \in Conns, NEW ok \in BOOLEAN, conn' = Answered(n, ok),
         conn[n].pc = "reading", conn[n].up # <<>>
  PROVE  AnswersWith(n, Head(conn[n].up), ok)
<1> DEFINE h == [pc |-> "answering", up |-> Tail(conn[n].up), job |-> Head(conn[n].up), ok |-> ok]
<1>1. h \in HandlerType
  BY HandlerParts DEF HandlerType
<1>2. conn \in [Conns -> HandlerType]
  BY DEF TypeOK
<1>3. conn' = [conn EXCEPT ![n] = h]
  BY <1>2 DEF Answered
<1> HIDE DEF h
<1>4. /\ conn' \in [Conns -> HandlerType] /\ conn'[n] = h
      /\ \A m \in Conns : m # n => conn'[m] = conn[m]
  BY <1>1, <1>2, <1>3, HandlerAt
<1> QED BY <1>4 DEF h, AnswersWith, Becomes

LEMMA ExecutesDoes ==
  ASSUME TypeOK, NEW n \in Conns, Executes(n)
  PROVE  \E r \in Requests, ok \in BOOLEAN :
           /\ AnswersWith(n, r, ok) /\ executed' = executed \cup {r}
           /\ \/ /\ r \in Led /\ ok /\ held' = [held EXCEPT !.state = @ + 1]
                 /\ wrote' = [wrote EXCEPT ![r] = held.state + 1]
                 /\ told' = [told EXCEPT !.state = held.state + 1]
                 /\ down' = IF HasClient THEN Append(down, StateEvent(held.state + 1)) ELSE down
              \/ r \notin Led /\ UNCHANGED <<held, told, wrote, down>>
           /\ down' \in Seq(Messages)
<1> DEFINE r == Head(conn[n].up)
<1>1. r \in Requests /\ conn[n].pc = "reading" /\ conn[n].up # <<>>
      /\ executed' = executed \cup {r} /\ down \in Seq(Messages) /\ held.state \in Nat
  BY HandlerParts DEF Executes, TypeOK
<1>2. CASE r \in Led /\ Sets(r) /\ conn' = Answered(n, TRUE)
  <2>1. AnswersWith(n, r, TRUE)
    BY <1>1, <1>2, AnsweredDoes
  <2>2. held' = [held EXCEPT !.state = @ + 1] /\ held'.state = held.state + 1
    BY <1>2 DEF Sets, TypeOK
  <2>3. /\ down \o <<StateEvent(held.state + 1)>> = Append(down, StateEvent(held.state + 1))
        /\ Append(down, StateEvent(held.state + 1)) \in Seq(Messages)
    BY <1>1, SentOne, Events
  <2>4. /\ wrote' = [wrote EXCEPT ![r] = held.state + 1]
        /\ told' = [told EXCEPT !.state = held.state + 1]
        /\ down' = IF HasClient THEN Append(down, StateEvent(held.state + 1)) ELSE down
    BY <1>2, <2>2, <2>3 DEF Sets, Broadcast
  <2> QED BY <1>1, <1>2, <2>1, <2>2, <2>3, <2>4
<1>3. CASE /\ r \notin Led /\ \E ok \in BOOLEAN : conn' = Answered(n, ok)
           /\ UNCHANGED <<held, told, wrote, down>>
  <2>1. PICK ok \in BOOLEAN : conn' = Answered(n, ok)
    BY <1>3
  <2>2. AnswersWith(n, r, ok)
    BY <1>1, <2>1, AnsweredDoes
  <2> QED BY <1>1, <1>3, <2>2
<1> QED BY <1>2, <1>3 DEF Executes

LEMMA RefusesDoes ==
  ASSUME TypeOK, NEW n \in Conns, Refuses(n)
  PROVE  \E r \in Requests : AnswersWith(n, r, FALSE)
  BY AnsweredDoes, HandlerParts DEF Refuses

LEMMA RepliesDoes ==
  ASSUME TypeOK, NEW n \in Conns, Replies(n)
  PROVE  /\ conn' \in [Conns -> HandlerType]
         /\ conn[n].pc = "answering" /\ conn[n].job \in Requests
         /\ Becomes(n, "reading", conn[n].up, 0, FALSE)
         /\ \A m \in Conns : m # n => conn'[m] = conn[m]
         /\ down' = IF n = link THEN Append(down, Reply(conn[n].job, conn[n].ok)) ELSE down
         /\ down' \in Seq(Messages)
<1> DEFINE h == [conn[n] EXCEPT !.pc = "reading", !.job = 0, !.ok = FALSE]
<1>1. h \in HandlerType /\ conn[n].pc = "answering" /\ conn[n].job \in Requests
      /\ conn[n].ok \in BOOLEAN
  BY HandlerParts DEF HandlerType, Replies, TypeOK
<1>2. conn \in [Conns -> HandlerType] /\ down \in Seq(Messages) /\ conn[n] \in HandlerType
  BY DEF TypeOK
<1>3. h.pc = "reading" /\ h.up = conn[n].up /\ h.job = 0 /\ h.ok = FALSE
  BY <1>2 DEF HandlerType
<1>4. conn' = [conn EXCEPT ![n] = h]
  BY <1>2 DEF Replies
<1> HIDE DEF h
<1>5. /\ conn' \in [Conns -> HandlerType] /\ conn'[n] = h
      /\ \A m \in Conns : m # n => conn'[m] = conn[m]
  BY <1>1, <1>2, <1>4, HandlerAt
<1>6. /\ down \o <<Reply(conn[n].job, conn[n].ok)>> = Append(down, Reply(conn[n].job, conn[n].ok))
      /\ Append(down, Reply(conn[n].job, conn[n].ok)) \in Seq(Messages)
  BY <1>1, <1>2, SentOne, Replying
<1> QED BY <1>1, <1>2, <1>3, <1>5, <1>6 DEF Replies, Writes, Becomes

Closed == [NoHandler EXCEPT !.pc = "closed"]

LEMMA ClosedHandler ==
  Closed \in HandlerType /\ Closed.pc = "closed" /\ Closed.up = <<>> /\ Closed.ok = FALSE
  BY EmptySeq DEF Closed, NoHandler, HandlerType

LEMMA HandlerEndsDoes ==
  ASSUME TypeOK, NEW n \in Conns, HandlerEnds(n)
  PROVE  /\ conn' \in [Conns -> HandlerType]
         /\ n # link /\ conn'[n] = Closed
         /\ \A m \in Conns : m # n => conn'[m] = conn[m]
<1>1. conn \in [Conns -> HandlerType] /\ conn' = [conn EXCEPT ![n] = Closed] /\ n # link
  BY DEF TypeOK, HandlerEnds, Closed
<1> QED BY <1>1, ClosedHandler, HandlerAt

LEMMA NotificationDoes ==
  ASSUME TypeOK, Notification
  PROVE  /\ held' = [held EXCEPT !.state = @ + 1]
         /\ \/ /\ told' = [told EXCEPT !.state = held.state + 1]
               /\ down' = IF HasClient THEN Append(down, StateEvent(held.state + 1)) ELSE down
            \/ UNCHANGED <<told, down>>
         /\ down' \in Seq(Messages)
<1>1. /\ held' = [held EXCEPT !.state = @ + 1] /\ held'.state = held.state + 1
      /\ held.state \in Nat /\ down \in Seq(Messages)
  BY DEF Notification, TypeOK
<1>2. /\ down \o <<StateEvent(held.state + 1)>> = Append(down, StateEvent(held.state + 1))
      /\ Append(down, StateEvent(held.state + 1)) \in Seq(Messages)
  BY <1>1, SentOne, Events
<1> QED BY <1>1, <1>2 DEF Notification, Broadcast

LEMMA MetadataReadDoes ==
  ASSUME TypeOK, MetadataRead
  PROVE  /\ held' = [held EXCEPT !.meta = @ + 1]
         /\ told' = [told EXCEPT !.meta = held.meta + 1]
         /\ down' = IF HasClient THEN Append(down, MetaEvent(held.meta + 1)) ELSE down
         /\ down' \in Seq(Messages)
<1>1. /\ held' = [held EXCEPT !.meta = @ + 1] /\ held'.meta = held.meta + 1
      /\ held.meta \in Nat /\ down \in Seq(Messages)
  BY DEF MetadataRead, TypeOK
<1>2. /\ down \o <<MetaEvent(held.meta + 1)>> = Append(down, MetaEvent(held.meta + 1))
      /\ Append(down, MetaEvent(held.meta + 1)) \in Seq(Messages)
  BY <1>1, SentOne, Events
<1> QED BY <1>1, <1>2 DEF MetadataRead, Broadcast

LEMMA DaemonEndsDoes ==
  ASSUME TypeOK, DaemonEnds
  PROVE  /\ conn' \in [Conns -> HandlerType]
         /\ \A m \in Conns : IF conn[m].pc = "none" THEN conn'[m] = conn[m] ELSE conn'[m] = Closed
<1>1. conn' = [m \in Conns |-> IF conn[m].pc = "none" THEN conn[m] ELSE Closed]
  BY DEF DaemonEnds, Closed
<1>2. \A m \in Conns : conn'[m] \in HandlerType
  BY <1>1, HandlerParts, ClosedHandler
<1> QED BY <1>1, <1>2

LEMMA ConnectsDoes ==
  ASSUME TypeOK, Connects
  PROVE  /\ conn' \in [Conns -> HandlerType]
         /\ conns' = conns + 1 /\ link' = conns + 1 /\ link' \in Conns /\ down' = <<>>
         /\ Becomes(link', "accepted", conn[link'].up, conn[link'].job, conn[link'].ok)
         /\ \A m \in Conns : m # link' => conn'[m] = conn[m]
<1>1. /\ conns' = conns + 1 /\ link' = conns + 1 /\ link' \in Conns /\ down' = <<>>
      /\ conn \in [Conns -> HandlerType]
  BY DEF TypeOK, Connects
<1> DEFINE h == [conn[link'] EXCEPT !.pc = "accepted"]
<1>2. h \in HandlerType
  BY <1>1 DEF HandlerType
<1>h. h.pc = "accepted" /\ h.up = conn[link'].up /\ h.job = conn[link'].job
      /\ h.ok = conn[link'].ok
  BY <1>1 DEF HandlerType
<1>3. conn' = [conn EXCEPT ![link'] = h]
  BY <1>1 DEF Connects
<1> HIDE DEF h
<1>4. /\ conn' \in [Conns -> HandlerType] /\ conn'[link'] = h
      /\ \A m \in Conns : m # link' => conn'[m] = conn[m]
  <2> DEFINE n == link'
  <2>1. n \in Conns /\ conn' = [conn EXCEPT ![n] = h]
    BY <1>1, <1>3
  <2> HIDE DEF n
  <2>2. /\ conn' \in [Conns -> HandlerType] /\ conn'[n] = h
        /\ \A m \in Conns : m # n => conn'[m] = conn[m]
    BY <1>1, <1>2, <2>1, HandlerAt
  <2> QED BY <2>2 DEF n
<1> QED BY <1>1, <1>4, <1>h DEF Becomes

LEMMA SendDoes ==
  ASSUME TypeOK, NEW r \in Requests, Send(r)
  PROVE  /\ link \in Conns /\ conn' \in [Conns -> HandlerType]
         /\ Becomes(link, conn[link].pc, Append(conn[link].up, r), conn[link].job, conn[link].ok)
         /\ \A m \in Conns : m # link => conn'[m] = conn[m]
         /\ \E s \in {"waiting", "dropped"} :
              /\ s = "dropped" => conn[link].pc = "closed"
              /\ call' = [call EXCEPT ![r] = s]
<1> DEFINE h == [conn[link] EXCEPT !.up = Append(@, r)]
<1>1. link \in Conns /\ conn \in [Conns -> HandlerType]
  BY Sizes DEF TypeOK, Send, Conns
<1>2. conn[link] \in HandlerType /\ Append(conn[link].up, r) \in Seq(Requests)
  BY <1>1, EnqueueAdds DEF HandlerType
<1>3. h \in HandlerType
  BY <1>2 DEF HandlerType
<1>h. /\ h.pc = conn[link].pc /\ h.up = Append(conn[link].up, r)
      /\ h.job = conn[link].job /\ h.ok = conn[link].ok
  BY <1>2 DEF HandlerType
<1>4. conn' = [conn EXCEPT ![link] = h]
  BY <1>1 DEF Send
<1> HIDE DEF h
<1>5. /\ conn' \in [Conns -> HandlerType] /\ conn'[link] = h
      /\ \A m \in Conns : m # link => conn'[m] = conn[m]
  BY <1>1, <1>3, <1>4, HandlerAt
<1> QED BY <1>1, <1>5, <1>h DEF Send, Becomes

\* The fields of a WebSocket after a step.
Shows(w, pc, shown, queue, missed) ==
  /\ watch'[w].pc = pc /\ watch'[w].shown = shown
  /\ watch'[w].queue = queue /\ watch'[w].missed = missed

LEMMA ReadEventDoes ==
  ASSUME TypeOK, ReadEvent
  PROVE  /\ down # <<>> /\ Head(down) = down[1] /\ down[1] \in Messages
         /\ down[1].kind \in {"state", "meta"}
         /\ cache' = [cache EXCEPT ![down[1].kind] = down[1].val]
         /\ cache' \in [state : Nat, meta : Nat]
         /\ watch' \in [Watchers -> WatcherType]
         /\ \A w \in Watchers :
              IF down[1].kind = "state" /\ watch[w].pc = "streaming"
              THEN Shows(w, "streaming", watch[w].shown, Append(watch[w].queue, down[1].val),
                         watch[w].missed)
              ELSE watch'[w] = watch[w]
         /\ down' = Tail(down) /\ down' \in Seq(Messages)
<1> DEFINE e == down[1]
<1>0. down \in Seq(Messages) /\ down # <<>> /\ down' = Tail(down)
  BY DEF ReadEvent, TypeOK
<1>e. Head(down) = e /\ e \in Messages /\ down' \in Seq(Messages)
  BY <1>0, TailShifts
<1> HIDE DEF e
<1>1. /\ down # <<>> /\ Head(down) = e /\ e \in Messages /\ down' = Tail(down)
      /\ down' \in Seq(Messages) /\ e.kind \in {"state", "meta"}
      /\ cache' = [cache EXCEPT ![e.kind] = e.val]
      /\ watch' = IF e.kind = "meta" THEN watch
                  ELSE [w \in Watchers |-> Notified(watch[w], e.val)]
  BY <1>0, <1>e DEF ReadEvent
<1>2. e.val \in Nat
  BY <1>1, MessageParts
<1>3. cache' \in [state : Nat, meta : Nat]
  BY <1>1, <1>2 DEF TypeOK
<1>4. ASSUME NEW w \in Watchers
      PROVE  /\ IF e.kind = "state" /\ watch[w].pc = "streaming"
                THEN Shows(w, "streaming", watch[w].shown, Append(watch[w].queue, e.val),
                           watch[w].missed)
                ELSE watch'[w] = watch[w]
             /\ watch'[w] \in WatcherType
  <2>1. watch[w] \in WatcherType
    BY DEF TypeOK
  <2>2. Append(watch[w].queue, e.val) \in Seq(Nat)
    BY <1>2, <2>1, EnqueueAdds DEF WatcherType
  <2> DEFINE h == [watch[w] EXCEPT !.queue = Append(@, e.val)]
  <2>3. /\ h \in WatcherType /\ h.pc = watch[w].pc /\ h.shown = watch[w].shown
        /\ h.queue = Append(watch[w].queue, e.val) /\ h.missed = watch[w].missed
    BY <2>1, <2>2 DEF WatcherType
  <2>4. e.kind = "state" => watch'[w] = Notified(watch[w], e.val)
    BY <1>1
  <2>6. watch[w].pc = "streaming" => Notified(watch[w], e.val) = h
    BY DEF Notified
  <2>7. watch[w].pc # "streaming" => Notified(watch[w], e.val) = watch[w]
    BY DEF Notified
  <2> HIDE DEF h
  <2>5. e.kind = "meta" => watch'[w] = watch[w]
    BY <1>1
  <2> QED BY <1>1, <2>1, <2>3, <2>4, <2>5, <2>6, <2>7 DEF Shows
<1>5. watch' = [w \in Watchers |-> watch'[w]]
  BY <1>1 DEF TypeOK
<1>6. watch' \in [Watchers -> WatcherType]
  BY <1>4, <1>5
<1> QED BY <1>1, <1>3, <1>4, <1>6 DEF e

LEMMA ReadReplyDoes ==
  ASSUME TypeOK, ReadReply
  PROVE  /\ down # <<>> /\ Head(down) = down[1] /\ down[1] \in Messages
         /\ down[1].kind = "reply" /\ down[1].val \in Requests
         /\ pending' = pending \ {down[1].val}
         /\ call' = IF down[1].val \in pending /\ call[down[1].val] = "waiting"
                    THEN [call EXCEPT ![down[1].val] = IF down[1].ok THEN "answered" ELSE "failed"]
                    ELSE call
         /\ down' = Tail(down) /\ down' \in Seq(Messages)
<1>1. /\ down # <<>> /\ Head(down) = down[1] /\ down[1] \in Messages
      /\ down' = Tail(down) /\ down' \in Seq(Messages)
  BY TailShifts DEF ReadReply, TypeOK
<1>2. down[1].kind = "reply" => down[1].val \in Requests
  BY <1>1, MessageParts
<1> QED BY <1>1, <1>2 DEF ReadReply

LEMMA OpensDoes ==
  ASSUME TypeOK, NEW w \in Watchers, Opens(w)
  PROVE  /\ watch' \in [Watchers -> WatcherType]
         /\ Shows(w, "opening", cache.state, <<>>, FALSE)
         /\ \A v \in Watchers : v # w => watch'[v] = watch[v]
<1> DEFINE h == [NoWatcher EXCEPT !.pc = "opening", !.shown = cache.state]
<1>1. h \in WatcherType /\ watch \in [Watchers -> WatcherType]
  BY EmptySeq DEF TypeOK, WatcherType, NoWatcher
<1>2. watch' = [watch EXCEPT ![w] = h]
  BY DEF Opens
<1>3. h.pc = "opening" /\ h.shown = cache.state /\ h.queue = <<>> /\ h.missed = FALSE
  BY DEF NoWatcher
<1> HIDE DEF h
<1> QED BY <1>1, <1>2, <1>3, WatcherAt DEF Shows

LEMMA SubscribesDoes ==
  ASSUME TypeOK, NEW w \in Watchers, Subscribes(w)
  PROVE  /\ watch' \in [Watchers -> WatcherType]
         /\ watch[w].pc = "opening"
         /\ Shows(w, "streaming", watch[w].shown, watch[w].queue, watch[w].shown # cache.state)
         /\ \A v \in Watchers : v # w => watch'[v] = watch[v]
<1> DEFINE h == [watch[w] EXCEPT !.pc = "streaming", !.missed = watch[w].shown # cache.state]
<1>1. h \in WatcherType /\ watch \in [Watchers -> WatcherType]
  BY DEF TypeOK, WatcherType
<1>2. watch' = [watch EXCEPT ![w] = h]
  BY DEF Subscribes, TypeOK
<1>3. /\ h.pc = "streaming" /\ h.shown = watch[w].shown /\ h.queue = watch[w].queue
      /\ h.missed = (watch[w].shown # cache.state)
  BY DEF TypeOK, WatcherType
<1> HIDE DEF h
<1> QED BY <1>1, <1>2, <1>3, WatcherAt DEF Shows, Subscribes

LEMMA DeliversDoes ==
  ASSUME TypeOK, NEW w \in Watchers, Delivers(w)
  PROVE  /\ watch' \in [Watchers -> WatcherType]
         /\ watch[w].queue \in Seq(Nat) /\ watch[w].queue # <<>>
         /\ watch[w].pc = "streaming"
         /\ Shows(w, "streaming", Head(watch[w].queue), Tail(watch[w].queue), FALSE)
         /\ \A v \in Watchers : v # w => watch'[v] = watch[v]
<1> DEFINE h == [watch[w] EXCEPT !.shown = Head(watch[w].queue),
                                 !.queue = Tail(watch[w].queue), !.missed = FALSE]
<1>1. watch[w] \in WatcherType /\ watch \in [Watchers -> WatcherType]
      /\ watch[w].pc = "streaming" /\ watch[w].queue \in Seq(Nat) /\ watch[w].queue # <<>>
  BY DEF TypeOK, WatcherType, Delivers
<1>2. h \in WatcherType
  BY <1>1, TailShifts DEF WatcherType
<1>3. /\ h.pc = "streaming" /\ h.shown = Head(watch[w].queue)
      /\ h.queue = Tail(watch[w].queue) /\ h.missed = FALSE
  BY <1>1 DEF WatcherType
<1>4. watch' = [watch EXCEPT ![w] = h]
  BY <1>1 DEF Delivers
<1> HIDE DEF h
<1> QED BY <1>1, <1>2, <1>3, <1>4, WatcherAt DEF Shows

LEMMA LeavesDoes ==
  ASSUME TypeOK, NEW w \in Watchers, Leaves(w)
  PROVE  /\ watch' \in [Watchers -> WatcherType] /\ watch'[w] = NoWatcher
         /\ \A v \in Watchers : v # w => watch'[v] = watch[v]
<1>1. NoWatcher \in WatcherType /\ watch \in [Watchers -> WatcherType]
      /\ watch' = [watch EXCEPT ![w] = NoWatcher]
  BY EmptySeq DEF TypeOK, WatcherType, NoWatcher, Leaves
<1> QED BY <1>1, WatcherAt

-----------------------------------------------------------------------------
\* Typing.

LEMMA VersionAt ==
  ASSUME NEW h \in [state : Nat, meta : Nat], NEW v \in Nat
  PROVE  /\ [h EXCEPT !.state = v] \in [state : Nat, meta : Nat]
         /\ [h EXCEPT !.meta = v] \in [state : Nat, meta : Nat]
         /\ [h EXCEPT !.state = @ + 1] = [h EXCEPT !.state = h.state + 1]
         /\ [h EXCEPT !.meta = @ + 1] = [h EXCEPT !.meta = h.meta + 1]
         /\ h.state + 1 \in Nat /\ h.meta + 1 \in Nat
  OBVIOUS

LEMMA UpsetsOK ==
  ASSUME TypeOK, Upsets
  PROVE  upsets' = upsets + 1 /\ upsets \in Nat /\ upsets' \in 0 .. MaxUpsets
  BY Sizes DEF TypeOK, Upsets

LEMMA TypeInit == Init => TypeInv
<1> SUFFICES ASSUME Init PROVE TypeInv
  OBVIOUS
<1>1. /\ held \in [state : Nat, meta : Nat] /\ told \in [state : Nat, meta : Nat]
      /\ cache \in [state : Nat, meta : Nat]
  BY DEF Init, Defaults
<1>2. NoHandler \in HandlerType /\ NoHandler.pc = "none" /\ NoWatcher \in WatcherType
      /\ <<>> \in Seq(Messages)
  BY EmptySeq DEF NoHandler, HandlerType, NoWatcher, WatcherType
<1>3. /\ conn \in [Conns -> HandlerType] /\ watch \in [Watchers -> WatcherType]
      /\ \A n \in Conns : conn[n].pc = "answering" => conn[n].job \in Requests
  BY <1>2 DEF Init
<1>4. upsets \in 0 .. MaxUpsets /\ link \in 0 .. conns /\ HubsBound
  BY Sizes DEF Init, HubsBound
<1> QED BY <1>1, <1>2, <1>3, <1>4 DEF Init, TypeInv, TypeOK, LinkWhileConnected, Started, Unused

\* All of it but Unused.
Types == TypeOK /\ HubsBound /\ LinkWhileConnected /\ Started

LEMMA TypesStep ==
  ASSUME TypeInv, [Next]_vars
  PROVE  Types'
<1> USE DEF server, proxy, calls, effects
<1>0. TypeOK /\ MaxUpsets \in Nat /\ Lives = 1 .. 1 + MaxUpsets
  BY Sizes DEF TypeInv, Lives
<1>1. ASSUME NEW n \in Conns, Attaches(n)  PROVE Types'
  <2>2. /\ conn' \in [Conns -> HandlerType] /\ conn'[n].pc = "reading"
        /\ \A m \in Conns : m # n => conn'[m] = conn[m]
        /\ down' \in Seq(Messages)
    BY <1>1, <1>0, AttachesDoes, HandlerParts DEF Becomes, TypeOK
  <2> QED BY <1>0, <1>1, <2>2 DEF Attaches,
       Types, TypeInv, TypeOK, HubsBound, LinkWhileConnected, Started
<1>2. ASSUME NEW n \in Conns, Executes(n)  PROVE Types'
  <2>2. PICK r \in Requests, ok \in BOOLEAN :
           /\ AnswersWith(n, r, ok) /\ executed' = executed \cup {r}
           /\ \/ /\ r \in Led /\ ok /\ held' = [held EXCEPT !.state = @ + 1]
                 /\ wrote' = [wrote EXCEPT ![r] = held.state + 1]
                 /\ told' = [told EXCEPT !.state = held.state + 1]
                 /\ down' = IF HasClient THEN Append(down, StateEvent(held.state + 1)) ELSE down
              \/ r \notin Led /\ UNCHANGED <<held, told, wrote, down>>
           /\ down' \in Seq(Messages)
    BY <1>2, <1>0, ExecutesDoes
  <2>3. /\ held' \in [state : Nat, meta : Nat] /\ told' \in [state : Nat, meta : Nat]
        /\ wrote' \in [Requests -> Nat] /\ executed' \subseteq Requests
    BY <1>0, <2>2, VersionAt DEF TypeOK
  <2>4. /\ conn' \in [Conns -> HandlerType]
        /\ \A m \in Conns : conn'[m].pc = "answering" => conn'[m].job \in Requests
    BY <1>0, <2>2 DEF AnswersWith, Becomes, TypeOK
  <2> QED BY <1>0, <1>2, <2>2, <2>3, <2>4 DEF Executes,
       Types, TypeInv, TypeOK, HubsBound, LinkWhileConnected, Started
<1>3. ASSUME NEW n \in Conns, Refuses(n)  PROVE Types'
  <2>2. /\ conn' \in [Conns -> HandlerType]
        /\ \A m \in Conns : conn'[m].pc = "answering" => conn'[m].job \in Requests
    BY <1>3, <1>0, RefusesDoes DEF AnswersWith, Becomes, TypeOK
  <2> QED BY <1>0, <1>3, <2>2 DEF Refuses,
       Types, TypeInv, TypeOK, HubsBound, LinkWhileConnected, Started
<1>4. ASSUME NEW n \in Conns, Replies(n)  PROVE Types'
  <2>2. /\ conn' \in [Conns -> HandlerType] /\ conn'[n].pc = "reading"
        /\ \A m \in Conns : m # n => conn'[m] = conn[m]
        /\ down' \in Seq(Messages)
    BY <1>4, <1>0, RepliesDoes, HandlerParts DEF Becomes, TypeOK
  <2> QED BY <1>0, <1>4, <2>2 DEF Replies,
       Types, TypeInv, TypeOK, HubsBound, LinkWhileConnected, Started
<1>5. ASSUME NEW n \in Conns, HandlerEnds(n)  PROVE Types'
  <2>2. /\ conn' \in [Conns -> HandlerType] /\ conn'[n].pc = "closed"
        /\ \A m \in Conns : m # n => conn'[m] = conn[m]
    BY <1>5, <1>0, HandlerEndsDoes, ClosedHandler
  <2> QED BY <1>0, <1>5, <2>2 DEF HandlerEnds,
       Types, TypeInv, TypeOK, HubsBound, LinkWhileConnected, Started
<1>6. CASE Notification
  <2>2. /\ held' \in [state : Nat, meta : Nat] /\ told' \in [state : Nat, meta : Nat]
        /\ down' \in Seq(Messages)
    BY <1>6, <1>0, NotificationDoes, VersionAt DEF TypeOK
  <2>3. /\ upsets' = upsets + 1 /\ upsets \in Nat /\ upsets' \in 0 .. MaxUpsets
        /\ UNCHANGED <<client, hubs>>
    BY <1>0, <1>6, UpsetsOK DEF Notification
  <2>4. HubsBound'
    BY <1>0, <2>3, Sizes DEF HubsBound, TypeInv, TypeOK
  <2> QED BY <1>0, <1>6, <2>2, <2>3, <2>4 DEF Notification,
       Types, TypeInv, TypeOK, HubsBound, LinkWhileConnected, Started
<1>7. CASE MetadataRead
  <2>2. /\ held' \in [state : Nat, meta : Nat] /\ told' \in [state : Nat, meta : Nat]
        /\ down' \in Seq(Messages)
    BY <1>7, <1>0, MetadataReadDoes, VersionAt DEF TypeOK
  <2>3. /\ upsets' = upsets + 1 /\ upsets \in Nat /\ upsets' \in 0 .. MaxUpsets
        /\ UNCHANGED <<client, hubs>>
    BY <1>0, <1>7, UpsetsOK DEF MetadataRead
  <2>4. HubsBound'
    BY <1>0, <2>3, Sizes DEF HubsBound, TypeInv, TypeOK
  <2> QED BY <1>0, <1>7, <2>2, <2>3, <2>4 DEF MetadataRead,
       Types, TypeInv, TypeOK, HubsBound, LinkWhileConnected, Started
<1>8. CASE DaemonBoots
  BY <1>0, <1>8 DEF DaemonBoots,
       Types, TypeInv, TypeOK, HubsBound, LinkWhileConnected, Started
<1>9. CASE DaemonEnds
  <2>2. /\ conn' \in [Conns -> HandlerType]
        /\ \A m \in Conns : conn'[m].pc = "answering" => conn'[m].job \in Requests
    BY <1>9, <1>0, DaemonEndsDoes, ClosedHandler DEF TypeOK
  <2>3. /\ upsets' = upsets + 1 /\ upsets \in Nat /\ upsets' \in 0 .. MaxUpsets
        /\ UNCHANGED <<client, hubs>>
    BY <1>0, <1>9, UpsetsOK DEF DaemonEnds
  <2>4. HubsBound'
    BY <1>0, <2>3, Sizes DEF HubsBound, TypeInv, TypeOK
  <2> QED BY <1>0, <1>9, <2>2, <2>3, <2>4 DEF DaemonEnds,
       Types, TypeInv, TypeOK, HubsBound, LinkWhileConnected, Started
<1>10. CASE HubBoots
  <2>1. /\ hubs \in Nat /\ upsets \in 0 .. MaxUpsets /\ client = "off" /\ hubs =< upsets
        /\ hubs' = hubs + 1 /\ client' = "starting" /\ upsets' = upsets
    BY <1>0, <1>10, Sizes DEF HubBoots, TypeInv, TypeOK, HubsBound
  <2>2. hubs' \in Lives /\ HubsBound' /\ Started'
    BY <1>0, <2>1 DEF HubsBound, Started
  <2> QED BY <1>0, <1>10, <2>2 DEF HubBoots, Types, TypeInv, TypeOK, LinkWhileConnected
<1>11. CASE HubEnds
  BY <1>0, <1>11, Sizes, EmptySeq DEF HubEnds, Upsets, InProgress, Defaults, NoWatcher, WatcherType,
       Types, TypeInv, TypeOK, HubsBound, LinkWhileConnected, Started
<1>12. CASE Connects
  <2>2. /\ conn' \in [Conns -> HandlerType]
        /\ conns' = conns + 1 /\ link' = conns + 1 /\ link' \in Conns /\ down' = <<>>
        /\ conn'[link'].pc = "accepted"
        /\ \A m \in Conns : m # link' => conn'[m] = conn[m]
    BY <1>12, <1>0, ConnectsDoes, HandlerParts DEF Becomes, HandlerType
  <2>3. /\ conns' \in Conns /\ link' \in 0 .. conns' /\ link' # 0
        /\ down' \in Seq(Messages)
    BY <2>2, Sizes, EmptySeq
  <2>4. \A m \in Conns : conn'[m].pc = "answering" => conn'[m].job \in Requests
    BY <1>0, <2>2 DEF TypeOK
  <2> QED BY <1>0, <1>12, <2>2, <2>3, <2>4 DEF Connects,
       Types, TypeInv, TypeOK, HubsBound, LinkWhileConnected, Started
<1>13. ASSUME NEW r \in Requests, Send(r)  PROVE Types'
  <2>2. /\ link \in Conns /\ conn' \in [Conns -> HandlerType]
        /\ Becomes(link, conn[link].pc, Append(conn[link].up, r), conn[link].job, conn[link].ok)
        /\ \A m \in Conns : m # link => conn'[m] = conn[m]
        /\ call' \in [Requests -> {"idle", "waiting", "answered", "expired", "dropped", "ok",
                                   "failed"}]
    BY <1>13, <1>0, SendDoes DEF TypeOK
  <2>3. conn'[link].pc = conn[link].pc /\ conn'[link].job = conn[link].job
    BY <2>2 DEF Becomes
  <2>4. \A m \in Conns : conn'[m].pc = "answering" => conn'[m].job \in Requests
    BY <1>0, <2>2, <2>3 DEF TypeOK
  <2>5. life' \in [Requests -> {0} \cup Lives] /\ pending' \subseteq Requests
    BY <1>0, <1>13 DEF Send, TypeOK
  <2> QED BY <1>0, <1>13, <2>2, <2>4, <2>5 DEF Send,
       Types, TypeInv, TypeOK, HubsBound, LinkWhileConnected, Started
<1>14. CASE ReadEvent
  <2>2. /\ cache' \in [state : Nat, meta : Nat] /\ watch' \in [Watchers -> WatcherType]
        /\ down' \in Seq(Messages)
    BY <1>14, <1>0, ReadEventDoes
  <2> QED BY <1>0, <1>14, <2>2 DEF ReadEvent,
       Types, TypeInv, TypeOK, HubsBound, LinkWhileConnected, Started
<1>15. CASE ReadReply
  <2>2. /\ down' \in Seq(Messages) /\ pending' \subseteq Requests
        /\ call' \in [Requests -> {"idle", "waiting", "answered", "expired", "dropped", "ok",
                                   "failed"}]
    BY <1>15, <1>0, ReadReplyDoes DEF TypeOK
  <2> QED BY <1>0, <1>15, <2>2 DEF ReadReply,
       Types, TypeInv, TypeOK, HubsBound, LinkWhileConnected, Started
<1>16. CASE ReadEnd
  BY <1>0, <1>16, Sizes, EmptySeq DEF ReadEnd, FailsWaiting,
       Types, TypeInv, TypeOK, HubsBound, LinkWhileConnected, Started
<1>17. CASE Reconnects
  BY <1>0, <1>17 DEF Reconnects,
       Types, TypeInv, TypeOK, HubsBound, LinkWhileConnected, Started
<1>18. ASSUME NEW r \in Requests, Expires(r) \/ Resumes(r)  PROVE Types'
  BY <1>0, <1>18 DEF Expires, Resumes,
       Types, TypeInv, TypeOK, HubsBound, LinkWhileConnected, Started
<1>19. ASSUME NEW w \in Watchers, Opens(w) \/ Subscribes(w) \/ Delivers(w) \/ Leaves(w)
       PROVE  Types'
  <2>2. watch' \in [Watchers -> WatcherType]
    BY <1>19, <1>0, OpensDoes, SubscribesDoes, DeliversDoes, LeavesDoes
  <2> QED BY <1>0, <1>19, <2>2 DEF Opens, Subscribes, Delivers, Leaves,
       Types, TypeInv, TypeOK, HubsBound, LinkWhileConnected, Started
<1>20. CASE UNCHANGED vars
  BY <1>0, <1>20 DEF vars,
       Types, TypeInv, TypeOK, HubsBound, LinkWhileConnected, Started
<1> QED
  BY <1>1, <1>2, <1>3, <1>4, <1>5, <1>6, <1>7, <1>8, <1>9, <1>10, <1>11, <1>12, <1>13, <1>14,
     <1>15, <1>16, <1>17, <1>18, <1>19, <1>20 DEF Next, HandlerStep, ReadStep

LEMMA UnusedStep ==
  ASSUME TypeInv, [Next]_vars
  PROVE  Unused'
<1> USE DEF server, proxy, calls, effects
<1>0. TypeOK /\ Unused /\ NoHandler.pc = "none" /\ NoHandler.up = <<>>
  BY DEF TypeInv, NoHandler
<1>1. ASSUME NEW n \in Conns, HandlerStep(n)  PROVE Unused'
  <2>1. conn[n].pc # "none" \/ conn[n].up # <<>>
    BY <1>1 DEF HandlerStep, Attaches, Executes, Refuses, Replies, HandlerEnds
  <2>2. \A m \in Conns : m # n => conn'[m] = conn[m]
    BY <1>0, <1>1, AttachesDoes, ExecutesDoes, RefusesDoes, RepliesDoes, HandlerEndsDoes
    DEF HandlerStep, AnswersWith
  <2>3. conns' = conns
    BY <1>1 DEF HandlerStep, Attaches, Executes, Refuses, Replies, HandlerEnds
  <2> QED BY <1>0, <2>1, <2>2, <2>3 DEF Unused
<1>2. CASE DaemonEnds
  <2>1. \A m \in Conns : conn[m] = NoHandler => conn'[m] = NoHandler
    BY <1>0, <1>2, DaemonEndsDoes
  <2> QED BY <1>0, <1>2, <2>1 DEF Unused, DaemonEnds
<1>3. CASE Connects
  <2>1. conns \in Nat /\ conns' = conns + 1 /\ link' = conns + 1
    <3>1. conns \in Nat
      BY <1>0, Sizes DEF TypeOK
    <3> QED BY <1>0, <1>3, <3>1, ConnectsDoes
  <2>2. \A m \in Conns : m # link' => conn'[m] = conn[m]
    BY <1>0, <1>3, ConnectsDoes
  <2>3. \A m \in Conns : m > conns' => m # link' /\ m > conns
    BY <2>1, Sizes
  <2> QED BY <1>0, <2>2, <2>3 DEF Unused
<1>4. ASSUME NEW r \in Requests, Send(r)  PROVE Unused'
  <2>1. link =< conns /\ link \in Nat /\ conns \in Nat /\ conns' = conns
    BY <1>0, <1>4, Sizes DEF Send, TypeOK
  <2> QED BY <1>0, <1>4, <2>1, SendDoes, Sizes DEF Unused
<1>5. ASSUME UNCHANGED <<conns, conn>>  PROVE Unused'
  BY <1>0, <1>5 DEF Unused
<1> QED
  BY <1>1, <1>2, <1>3, <1>4, <1>5 DEF Next, vars, ReadStep, Notification, MetadataRead,
     DaemonBoots, HubBoots, HubEnds, ReadEvent, ReadReply, ReadEnd, Reconnects, Expires, Resumes,
     Opens, Subscribes, Delivers, Leaves

LEMMA TypeStep ==
  ASSUME TypeInv, [Next]_vars
  PROVE  TypeInv'
  BY TypesStep, UnusedStep DEF TypeInv, Types

\* Every variable has its type in every state that is reached: the lines that
\* the daemon reads name calls, and what the hub reads is a message.
THEOREM TypeHolds == Spec => []TypeOK
<1>1. TypeInv => TypeOK
  BY DEF TypeInv
<1> QED BY <1>1, TypeInit, TypeStep, PTL DEF Spec

-----------------------------------------------------------------------------
\* What changes where.

DaemonStep ==
  \/ \E n \in Conns : HandlerStep(n)
  \/ Notification \/ MetadataRead \/ DaemonBoots \/ DaemonEnds

WatcherStep ==
  \E w \in Watchers : Opens(w) \/ Subscribes(w) \/ Delivers(w) \/ Leaves(w)

HubStep ==
  \/ HubBoots \/ HubEnds \/ Connects \/ ReadEvent \/ ReadReply \/ ReadEnd \/ Reconnects
  \/ \E r \in Requests : Expires(r) \/ Resumes(r)

LEMMA Steps ==
  Next => DaemonStep \/ WatcherStep \/ HubStep \/ \E r \in Requests : Send(r)
  BY DEF Next, DaemonStep, WatcherStep, HubStep, ReadStep

\* The daemon leaves the hub alone.
LEMMA DaemonLeaves ==
  ASSUME DaemonStep
  PROVE  UNCHANGED <<client, hubs, link, cache, pending, call, life, watch>>
  BY DEF DaemonStep, HandlerStep, Attaches, Executes, Refuses, Replies, HandlerEnds,
     Notification, MetadataRead, DaemonBoots, DaemonEnds, proxy, calls

\* A WebSocket leaves everything else alone.
LEMMA WatcherLeaves ==
  ASSUME WatcherStep
  PROVE  UNCHANGED <<upsets, daemon, held, conns, conn, told, client, hubs, link, cache,
                     pending, down, call, life, wrote, executed>>
  BY DEF WatcherStep, Opens, Subscribes, Delivers, Leaves, server, proxy, calls, effects

\* The hub leaves the effects alone; what it sends apart, it only accepts
\* connections.
LEMMA HubLeaves ==
  ASSUME HubStep
  PROVE  UNCHANGED <<daemon, held, told, life, wrote, executed>>
  BY DEF HubStep, HubBoots, HubEnds, Connects, ReadEvent, ReadReply, ReadEnd, Reconnects,
     Expires, Resumes, server, proxy, calls, effects

\* What a handler has yet to read can only be read, unless something is sent.
LEMMA UpShrinks ==
  ASSUME TypeInv, DaemonStep \/ WatcherStep \/ HubStep \/ UNCHANGED vars
  PROVE  \A m \in Conns : conn'[m].pc # "closed" =>
           /\ conn[m].pc # "closed"
           /\ \/ conn'[m].up = conn[m].up
              \/ conn[m].up # <<>> /\ conn'[m].up = Tail(conn[m].up)
<1> USE DEF server, proxy, calls, effects
<1>0. TypeOK /\ Unused /\ NoHandler.pc = "none" /\ NoHandler.up = <<>>
  BY DEF TypeInv, NoHandler
<1> DEFINE Goal == \A m \in Conns : conn'[m].pc # "closed" =>
           /\ conn[m].pc # "closed"
           /\ \/ conn'[m].up = conn[m].up
              \/ conn[m].up # <<>> /\ conn'[m].up = Tail(conn[m].up)
<1>1. ASSUME NEW n \in Conns, HandlerStep(n)  PROVE Goal
  <2>1. CASE Attaches(n)
    BY <1>0, <2>1, AttachesDoes DEF Becomes
  <2>2. CASE Executes(n)
    BY <1>0, <2>2, ExecutesDoes DEF AnswersWith, Becomes
  <2>3. CASE Refuses(n)
    BY <1>0, <2>3, RefusesDoes DEF AnswersWith, Becomes
  <2>4. CASE Replies(n)
    BY <1>0, <2>4, RepliesDoes DEF Becomes
  <2>5. CASE HandlerEnds(n)
    BY <1>0, <2>5, HandlerEndsDoes, ClosedHandler
  <2> QED BY <1>1, <2>1, <2>2, <2>3, <2>4, <2>5 DEF HandlerStep
<1>2. CASE DaemonEnds
  BY <1>0, <1>2, DaemonEndsDoes, ClosedHandler
<1>3. CASE Connects
  <2>1. conns \in Nat /\ link' \in Conns /\ link' > conns
    BY <1>0, <1>3, ConnectsDoes, Sizes DEF TypeOK
  <2>2. conn[link'].pc = "none"
    BY <1>0, <2>1 DEF Unused
  <2> QED BY <1>0, <1>3, <2>1, <2>2, ConnectsDoes DEF Becomes
<1>4. CASE UNCHANGED conn
  BY <1>4
<1> QED
  BY <1>1, <1>2, <1>3, <1>4, WatcherLeaves DEF DaemonStep, HubStep, vars, Notification,
     MetadataRead, DaemonBoots, HubBoots, HubEnds, ReadEvent, ReadReply, ReadEnd, Reconnects,
     Expires, Resumes

\* A connection that is closed stays closed.
LEMMA ClosedStays ==
  ASSUME TypeInv, [Next]_vars
  PROVE  \A m \in Conns : conn[m].pc = "closed" => conn'[m].pc = "closed"
<1>1. ASSUME NEW r \in Requests, Send(r)
      PROVE  \A m \in Conns : conn[m].pc = "closed" => conn'[m].pc = "closed"
  BY <1>1, SendDoes DEF Becomes, TypeInv
<1> QED BY <1>1, UpShrinks, Steps

-----------------------------------------------------------------------------
\* The bookkeeping of the pending requests.

\* PendingMatchesCalls, in three parts.
WaitingHasEntry == \A r \in Requests : call[r] = "waiting" => r \in pending

EntryNeeded ==
  \A r \in pending :
    \/ call[r] \in {"waiting", "expired"}
    \/ call[r] \in {"dropped", "failed"} /\ conn[link].pc = "closed"

NoneWhileAway == client # "connected" => pending = {}

Pending == WaitingHasEntry /\ EntryNeeded /\ NoneWhileAway

LEMMA PendingParts ==
  /\ PendingMatchesCalls <=> Pending
  /\ PendingMatchesCalls' <=> Pending'
  BY DEF PendingMatchesCalls, Pending, WaitingHasEntry, EntryNeeded, NoneWhileAway

LEMMA PendingInit == Init => PendingMatchesCalls
  BY PendingParts DEF Init, Pending, WaitingHasEntry, EntryNeeded, NoneWhileAway

LEMMA PendingStep ==
  ASSUME TypeInv, PendingMatchesCalls, [Next]_vars
  PROVE  PendingMatchesCalls'
<1> USE DEF server, proxy, calls, effects
<1> USE DEF Pending, WaitingHasEntry, EntryNeeded, NoneWhileAway
<1> SUFFICES Pending'
  BY PendingParts
<1>0. /\ TypeOK /\ Pending /\ LinkWhileConnected /\ pending \subseteq Requests
      /\ client = "connected" => link \in Conns
  <2>1. client = "connected" => link \in Conns
    BY Sizes DEF TypeInv, TypeOK, Conns
  <2> QED BY <2>1, PendingParts DEF TypeInv, TypeOK
<1>a. client = "connected" /\ conn[link].pc = "closed" => conn'[link].pc = "closed"
  BY <1>0, ClosedStays
<1>1. CASE DaemonStep
  BY <1>0, <1>1, <1>a, DaemonLeaves
<1>2. CASE WatcherStep
  BY <1>0, <1>2, WatcherLeaves
<1>3. CASE HubBoots
  BY <1>0, <1>3 DEF HubBoots
<1>4. CASE HubEnds
  BY <1>0, <1>4 DEF HubEnds, InProgress
<1>5. CASE Connects
  BY <1>0, <1>5 DEF Connects
<1>6. ASSUME NEW r \in Requests, Send(r)  PROVE Pending'
  <2>1. PICK s \in {"waiting", "dropped"} : /\ s = "dropped" => conn[link].pc = "closed"
                                            /\ call' = [call EXCEPT ![r] = s]
    BY <1>0, <1>6, SendDoes
  <2>2. /\ client = "connected" /\ client' = client /\ link' = link
        /\ pending' = pending \cup {r} /\ call[r] = "idle"
    BY <1>6 DEF Send
  <2>3. call'[r] = s /\ \A q \in Requests : q # r => call'[q] = call[q]
    BY <1>0, <2>1 DEF TypeOK
  <2> QED BY <1>0, <1>a, <2>1, <2>2, <2>3
<1>7. CASE ReadEvent
  BY <1>0, <1>7 DEF ReadEvent
<1>8. CASE ReadReply
  <2> DEFINE e == down[1]
  <2>1. /\ e.val \in Requests /\ pending' = pending \ {e.val}
        /\ call' = IF e.val \in pending /\ call[e.val] = "waiting"
                   THEN [call EXCEPT ![e.val] = IF e.ok THEN "answered" ELSE "failed"]
                   ELSE call
    BY <1>0, <1>8, ReadReplyDoes
  <2> HIDE DEF e
  <2>2. UNCHANGED <<client, link, conn>>
    BY <1>8 DEF ReadReply
  <2>3. \A r \in Requests : r # e.val => call'[r] = call[r]
    BY <1>0, <2>1 DEF TypeOK
  <2>4. call[e.val] = "waiting" => call'[e.val] # "waiting"
    BY <1>0, <2>1 DEF TypeOK
  <2> QED BY <1>0, <2>1, <2>2, <2>3, <2>4
<1>9. CASE ReadEnd
  BY <1>0, <1>9 DEF ReadEnd, FailsWaiting
<1>10. CASE Reconnects
  BY <1>0, <1>10 DEF Reconnects
<1>11. ASSUME NEW r \in Requests, Expires(r)  PROVE Pending'
  <2>1. UNCHANGED <<client, link, conn, pending>>
    BY <1>11 DEF Expires
  <2>2. /\ \A q \in Requests : q # r => call'[q] = call[q]
        /\ \/ call[r] = "waiting" /\ call'[r] = "expired"
           \/ call[r] = "answered" /\ call'[r] = "failed"
    BY <1>0, <1>11 DEF Expires, TypeOK
  <2> QED BY <1>0, <2>1, <2>2
<1>12. ASSUME NEW r \in Requests, Resumes(r)  PROVE Pending'
  <2>1. UNCHANGED <<client, link, conn>>
    BY <1>12 DEF Resumes
  <2>2. /\ \A q \in Requests : q # r => call'[q] = call[q]
        /\ pending' = IF call[r] = "expired" THEN pending \ {r} ELSE pending
        /\ call[r] \in {"answered", "expired", "dropped"}
        /\ call'[r] = IF call[r] = "answered" THEN "ok" ELSE "failed"
    BY <1>0, <1>12 DEF Resumes, TypeOK
  <2> QED BY <1>0, <2>1, <2>2
<1>13. CASE UNCHANGED vars
  BY <1>0, <1>13 DEF vars
<1>14. CASE HubStep
  BY <1>14, <1>3, <1>4, <1>5, <1>7, <1>8, <1>9, <1>10, <1>11, <1>12 DEF HubStep
<1> QED BY <1>1, <1>2, <1>6, <1>13, <1>14, Steps

\* As long as the hub is connected it can match an answer to every call that
\* waits; when it is not, nobody waits; and no entry is kept without need.
THEOREM PendingHolds == Spec => []PendingMatchesCalls
  BY TypeInit, TypeStep, PendingInit, PendingStep, PTL DEF Spec

-----------------------------------------------------------------------------
\* The order of the calls and of what is executed.

\* Only a call is new, and no call becomes one that was not made.
LEMMA IdleStays ==
  ASSUME TypeOK, DaemonStep \/ WatcherStep \/ HubStep \/ UNCHANGED vars
  PROVE  \A r \in Requests : call'[r] = "idle" <=> call[r] = "idle"
<1>1. CASE HubStep
  <2>1. CASE HubEnds
    BY <2>1 DEF HubEnds, InProgress, TypeOK
  <2>2. CASE ReadReply
    <3>1. down[1].val \in Requests
          /\ call' = IF down[1].val \in pending /\ call[down[1].val] = "waiting"
                     THEN [call EXCEPT ![down[1].val] = IF down[1].ok THEN "answered" ELSE "failed"]
                     ELSE call
      BY <2>2, ReadReplyDoes
    <3> QED BY <3>1 DEF TypeOK
  <2>3. CASE ReadEnd
    BY <2>3 DEF ReadEnd, FailsWaiting, TypeOK
  <2>4. CASE \E r \in Requests : Expires(r) \/ Resumes(r)
    BY <2>4 DEF Expires, Resumes, TypeOK
  <2>5. CASE HubBoots \/ Connects \/ ReadEvent \/ Reconnects
    BY <2>5 DEF HubBoots, Connects, ReadEvent, Reconnects, calls
  <2> QED BY <1>1, <2>1, <2>2, <2>3, <2>4, <2>5 DEF HubStep
<1> QED BY <1>1, DaemonLeaves, WatcherLeaves DEF vars, calls

\* How the hub and its connection can change where nothing is sent: not at
\* all; a hub starts, or ends; it connects, on a connection on which nothing
\* was sent; it notices that the daemon has closed its end.
LEMMA LinkMoves ==
  ASSUME TypeInv, DaemonStep \/ WatcherStep \/ HubStep \/ UNCHANGED vars
  PROVE  \/ hubs' = hubs /\ link' = link /\ (client' # "off" => client # "off")
         \/ hubs' = hubs + 1 /\ link = 0 /\ link' = 0
         \/ hubs' = hubs /\ link' = 0 /\ client' = "off"
         \/ /\ hubs' = hubs /\ link = 0 /\ client # "off"
            /\ link' \in Conns /\ conn[link'].up = <<>>
         \/ hubs' = hubs /\ link' = 0 /\ client # "off" /\ conn[link].pc = "closed"
<1>1. client # "connected" => link = 0
  BY DEF TypeInv, LinkWhileConnected
<1>2. CASE Connects
  <2>1. link' \in Conns /\ link' = conns + 1 /\ conns \in Nat
    BY <1>2, ConnectsDoes, Sizes DEF TypeInv, TypeOK
  <2>2. conn[link'].up = <<>>
    BY <2>1 DEF TypeInv, Unused, NoHandler
  <2> QED BY <1>1, <1>2, <2>1, <2>2 DEF Connects
<1>3. CASE HubStep /\ ~Connects
  BY <1>1, <1>3 DEF HubStep, HubBoots, HubEnds, ReadEvent, ReadReply, ReadEnd, Reconnects,
     Expires, Resumes, proxy
<1> QED BY <1>2, <1>3, DaemonLeaves, WatcherLeaves DEF vars, proxy

LEMMA Runs ==
  ASSUME TypeOK
  PROVE  hubs \in Nat /\ \A r \in Requests : life[r] \in Nat
<1>1. {0} \cup Lives \subseteq Nat
  BY Sizes
<1>2. hubs \in {0} \cup Lives /\ life \in [Requests -> {0} \cup Lives]
  BY DEF TypeOK
<1> QED BY <1>1, <1>2

LEMMA OrderInit == Init => InOrder /\ Undone /\ AnswersTrue
<1> SUFFICES ASSUME Init PROVE InOrder /\ Undone /\ AnswersTrue
  OBVIOUS
<1>1. \A n \in Conns : conn[n].up = <<>> /\ conn[n].pc = "none"
  BY DEF Init, NoHandler
<1>2. Len(<<>>) = 0
  BY EmptySeq
<1>3. InOrder
  BY DEF Init, InOrder
<1>4. Undone
  <2>1. \A n \in Conns, r \in Requests : ~UnderWay(n, r)
    BY <1>1, <1>2 DEF UnderWay
  <2> QED BY <1>1, <1>2, <2>1 DEF Undone
<1>5. AnswersTrue
  BY <1>1, <1>2 DEF Init, AnswersTrue
<1> QED BY <1>3, <1>4, <1>5

\* The first of what a handler has to read is under way.
LEMMA HeadUnderWay ==
  ASSUME TypeOK, NEW n \in Conns, conn[n].pc = "reading", conn[n].up # <<>>
  PROVE  /\ Head(conn[n].up) \in Requests /\ UnderWay(n, Head(conn[n].up))
         /\ Head(conn[n].up) = conn[n].up[1] /\ Len(conn[n].up) \in Nat \ {0}
<1>1. conn[n].up \in Seq(Requests)
  BY HandlerParts
<1>2. /\ Head(conn[n].up) \in Requests /\ Head(conn[n].up) = conn[n].up[1]
      /\ Len(conn[n].up) \in Nat \ {0}
  BY <1>1, TailShifts
<1>3. 1 \in 1 .. Len(conn[n].up)
  BY <1>2
<1> QED BY <1>2, <1>3 DEF UnderWay

\* Where nothing is sent, what is under way was so before, and the order stays.
LEMMA UnderWayBefore ==
  ASSUME TypeInv, Undone, DaemonStep \/ WatcherStep \/ HubStep \/ UNCHANGED vars
  PROVE  \A n \in Conns :
           /\ conn'[n].pc # "closed" =>
                \A i, j \in 1 .. Len(conn'[n].up) : i < j => conn'[n].up[i] < conn'[n].up[j]
           /\ \A r \in Requests : UnderWay(n, r)' => UnderWay(n, r)
<1> SUFFICES ASSUME NEW n \in Conns, conn'[n].pc # "closed"
             PROVE  /\ \A i, j \in 1 .. Len(conn'[n].up) :
                         i < j => conn'[n].up[i] < conn'[n].up[j]
                    /\ \A r \in Requests : UnderWay(n, r)' => UnderWay(n, r)
  BY DEF UnderWay
<1> DEFINE p == conn[n].up
           q == conn'[n].up
<1>1. /\ conn[n].pc # "closed"
      /\ q = p \/ (p # <<>> /\ q = Tail(p))
  BY UpShrinks
<1>2. p \in Seq(Requests)
  BY HandlerParts DEF TypeInv
<1>3. \A i, j \in 1 .. Len(p) : i < j => p[i] < p[j]
  BY <1>1 DEF Undone
<1> HIDE DEF p, q
<1>4. CASE q = p
  BY <1>1, <1>3, <1>4 DEF UnderWay, p, q
<1>5. CASE p # <<>> /\ q = Tail(p)
  <2>1. /\ Len(p) \in Nat \ {0} /\ Len(q) = Len(p) - 1
        /\ \A i \in 1 .. Len(p) - 1 : q[i] = p[i + 1]
    BY <1>2, <1>5, TailShifts
  <2>2. \A i \in 1 .. Len(q) : i + 1 \in 1 .. Len(p) /\ q[i] = p[i + 1] /\ i \in Int
    BY <2>1
  <2>3. \A i, j \in 1 .. Len(q) : i < j => q[i] < q[j]
    BY <1>3, <2>2
  <2>4. ASSUME NEW r \in Requests, NEW i \in 1 .. Len(q), q[i] = r
        PROVE  \E k \in 1 .. Len(p) : p[k] = r
    BY <2>2, <2>4
  <2> QED BY <1>1, <2>3, <2>4 DEF UnderWay, p, q
<1> QED BY <1>1, <1>4, <1>5 DEF q

\* What Undone says of a call on its way.
OnItsWay(n, r) ==
  /\ call[r] # "idle" /\ r \notin executed
  /\ \A q \in executed : life[q] = life[r] => q < r
  /\ n # link /\ client # "off" => life[r] < hubs
  /\ n = link => life[r] = hubs
  /\ \A m \in Conns, q \in Requests : UnderWay(m, q) /\ life[q] = life[r] => m = n

LEMMA UndoneSays ==
  ASSUME Undone, NEW n \in Conns, NEW r \in Requests, UnderWay(n, r)
  PROVE  OnItsWay(n, r)
  BY DEF Undone, OnItsWay

\* Steps that neither send nor execute.
LEMMA RestingOrder ==
  ASSUME TypeInv, InOrder, Undone,
         DaemonStep \/ WatcherStep \/ HubStep \/ UNCHANGED vars,
         executed' = executed
  PROVE  InOrder' /\ Undone'
<1>1. \A r \in Requests : call'[r] = "idle" <=> call[r] = "idle"
  BY IdleStays DEF TypeInv
<1>2. life' = life
  BY DaemonLeaves, WatcherLeaves, HubLeaves DEF vars, calls
<1>3. hubs \in Nat /\ hubs' \in Nat /\ hubs =< hubs'
  <2>1. hubs \in Nat
    BY Runs DEF TypeInv
  <2> QED BY <2>1, LinkMoves
<1>4. \A r \in Requests : life[r] \in Nat
  BY Runs DEF TypeInv
<1>5. InOrder'
  <2>1. executed \subseteq Requests
    BY DEF TypeInv, TypeOK
  <2> QED BY <1>1, <1>2, <1>3, <1>4, <2>1 DEF InOrder
<1>6. ASSUME NEW n \in Conns, NEW r \in Requests, UnderWay(n, r)'
      PROVE  OnItsWay(n, r)'
  <2>1. OnItsWay(n, r)
    BY <1>6, UnderWayBefore, UndoneSays
  <2>2. \A m \in Conns, q \in Requests : UnderWay(m, q)' /\ life'[q] = life'[r] => m = n
    BY <1>2, <2>1, UnderWayBefore DEF OnItsWay
  <2>3. /\ n # link' /\ client' # "off" => life'[r] < hubs'
        /\ n = link' => life'[r] = hubs'
    <3>1. UnderWay(n, r) /\ life[r] =< hubs /\ n # 0
      BY <1>6, UnderWayBefore, Sizes DEF InOrder
    <3>2. conn[n].pc # "closed" /\ conn[n].up # <<>>
      BY <3>1, EmptySeq DEF UnderWay
    <3>3. /\ n # link /\ client # "off" => life[r] < hubs
          /\ n = link => life[r] = hubs
      BY <2>1 DEF OnItsWay
    <3> QED BY <1>2, <1>3, <1>4, <3>1, <3>2, <3>3, LinkMoves
  <2> QED BY <1>1, <1>2, <2>1, <2>2, <2>3 DEF OnItsWay
<1>7. Undone'
  BY <1>6, UnderWayBefore DEF Undone, OnItsWay
<1> QED BY <1>5, <1>7

\* The daemon executes the next call of a connection.
LEMMA ExecutingOrder ==
  ASSUME TypeInv, InOrder, Undone, NEW n \in Conns, Executes(n)
  PROVE  InOrder' /\ Undone'
<1> DEFINE r == Head(conn[n].up)
<1>0. TypeOK /\ DaemonStep
  BY DEF TypeInv, DaemonStep, HandlerStep
<1>1. PICK ok \in BOOLEAN : AnswersWith(n, r, ok)
  BY <1>0, ExecutesDoes DEF AnswersWith
<1>2. /\ conn[n].pc = "reading" /\ conn[n].up # <<>> /\ executed' = executed \cup {r}
      /\ r \in Requests /\ UnderWay(n, r)
      /\ r = conn[n].up[1] /\ Len(conn[n].up) \in Nat \ {0}
  BY <1>0, HeadUnderWay DEF Executes
<1>3. UNCHANGED <<client, hubs, link, call, life>>
  BY <1>0, DaemonLeaves
<1>4. OnItsWay(n, r)
  BY <1>2, UndoneSays
<1>5. InOrder'
  BY <1>2, <1>3, <1>4 DEF InOrder, OnItsWay
<1>6. \A i \in 1 .. Len(Tail(conn[n].up)) : r < Tail(conn[n].up)[i]
  <2>1. /\ Len(Tail(conn[n].up)) = Len(conn[n].up) - 1
        /\ \A i \in 1 .. Len(conn[n].up) - 1 : Tail(conn[n].up)[i] = conn[n].up[i + 1]
    BY <1>0, <1>2, HandlerParts, TailShifts
  <2>2. \A i, j \in 1 .. Len(conn[n].up) : i < j => conn[n].up[i] < conn[n].up[j]
    BY <1>2 DEF Undone
  <2>3. \A i \in 1 .. Len(conn[n].up) - 1 : /\ 1 \in 1 .. Len(conn[n].up)
                                            /\ i + 1 \in 1 .. Len(conn[n].up) /\ 1 < i + 1
    BY <1>2
  <2> QED BY <1>2, <2>1, <2>2, <2>3
<1> HIDE DEF r
<1>7. \A q \in Requests : UnderWay(n, q)' => r < q
  <2>1. conn'[n].up = Tail(conn[n].up)
    BY <1>1 DEF AnswersWith, Becomes, r
  <2> QED BY <1>6, <2>1 DEF UnderWay
<1>8. ASSUME NEW m \in Conns, NEW q \in Requests, UnderWay(m, q)'
      PROVE  OnItsWay(m, q)' /\ q # r
  <2>1. UnderWay(m, q) /\ OnItsWay(m, q)
    BY <1>0, <1>8, UnderWayBefore, UndoneSays
  <2>2. life[r] = life[q] => m = n
    BY <1>2, <2>1 DEF OnItsWay
  <2>3. life[r] = life[q] => r < q
    BY <1>7, <1>8, <2>2
  <2>4. q # r
    BY <1>2, <2>3, Sizes
  <2>5. \A k \in Conns, p \in Requests : UnderWay(k, p)' /\ life'[p] = life'[q] => k = m
    BY <1>0, <1>3, <2>1, UnderWayBefore DEF OnItsWay
  <2>6. \A p \in executed' : life'[p] = life'[q] => p < q
    BY <1>2, <1>3, <2>1, <2>3 DEF OnItsWay
  <2> QED BY <1>2, <1>3, <2>1, <2>4, <2>5, <2>6 DEF OnItsWay
<1>9. Undone'
  BY <1>0, <1>8, UnderWayBefore DEF Undone, OnItsWay
<1> QED BY <1>5, <1>9

\* A call is sent.
LEMMA SendingOrder ==
  ASSUME TypeInv, InOrder, Undone, NEW r \in Requests, Send(r)
  PROVE  InOrder' /\ Undone'
<1>0. TypeOK /\ Requests \subseteq Nat
  BY Sizes DEF TypeInv
<1>1. /\ call[r] = "idle" /\ \A q \in Requests : q < r => call[q] # "idle"
      /\ client = "connected" /\ life' = [life EXCEPT ![r] = hubs]
      /\ UNCHANGED <<client, hubs, link, executed>> /\ link \in Conns /\ link # 0
      /\ executed \subseteq Requests
  BY <1>0, Sizes, SendDoes DEF Send, TypeInv, TypeOK, LinkWhileConnected, proxy, server, effects
<1>2. /\ \A q \in Requests : q # r => life'[q] = life[q] /\ call'[q] = call[q]
      /\ life'[r] = hubs /\ call'[r] # "idle"
  <2>1. PICK s \in {"waiting", "dropped"} : call' = [call EXCEPT ![r] = s]
    BY <1>0, SendDoes
  <2> QED BY <1>0, <1>1, <2>1 DEF TypeOK
<1>3. r \notin executed
  BY <1>1 DEF InOrder
<1>4. \A q \in Requests : call[q] # "idle" => q < r
  <2>1. ASSUME NEW q \in Requests, call[q] # "idle", ~(q < r) PROVE FALSE
    <3>1. r < q
      BY <1>0, <1>1, <2>1
    <3> QED BY <1>1, <2>1, <3>1 DEF InOrder
  <2> QED BY <2>1
<1>5. InOrder'
  <2>1. \A q \in Requests : life[q] =< hubs /\ hubs \in Nat
    BY <1>0, Runs DEF InOrder
  <2>2. \A q \in Requests : life'[q] =< hubs'
    BY <1>1, <1>2, <2>1
  <2>3. \A p, q \in Requests : p < q /\ call'[q] # "idle" => call'[p] # "idle"
    BY <1>1, <1>2 DEF InOrder
  <2>4. \A q \in executed' : call'[q] # "idle"
    BY <1>1, <1>2 DEF InOrder
  <2> QED BY <2>2, <2>3, <2>4 DEF InOrder
<1> DEFINE p == conn[link].up
<1>6. /\ p \in Seq(Requests) /\ conn'[link].pc = conn[link].pc /\ conn'[link].up = Append(p, r)
      /\ \A m \in Conns : m # link => conn'[m] = conn[m]
      /\ Len(Append(p, r)) = Len(p) + 1 /\ Len(p) \in Nat
      /\ \A i \in 1 .. Len(p) : Append(p, r)[i] = p[i]
      /\ Append(p, r)[Len(p) + 1] = r
  BY <1>0, <1>1, SendDoes, HandlerParts, EnqueueAdds DEF Becomes
<1>7. \A i \in 1 .. Len(p) + 1 : i \in 1 .. Len(p) \/ i = Len(p) + 1
  BY <1>6
<1> HIDE DEF p
<1>8. \A m \in Conns, q \in Requests :
        UnderWay(m, q)' => UnderWay(m, q) \/ (m = link /\ q = r /\ conn[link].pc # "closed")
  <2>1. \A m \in Conns, q \in Requests : m # link => (UnderWay(m, q)' <=> UnderWay(m, q))
    BY <1>6 DEF UnderWay
  <2>2. ASSUME NEW q \in Requests, UnderWay(link, q)', q # r
        PROVE  UnderWay(link, q)
    <3>1. PICK i \in 1 .. Len(p) + 1 : Append(p, r)[i] = q
      BY <1>1, <1>6, <2>2 DEF UnderWay
    <3>2. i \in 1 .. Len(p) /\ p[i] = q
      BY <1>6, <1>7, <2>2, <3>1
    <3>3. conn[link].pc # "closed"
      BY <1>1, <1>6, <2>2 DEF UnderWay
    <3> QED BY <3>2, <3>3 DEF UnderWay, p
  <2>3. UnderWay(link, r)' => conn[link].pc # "closed"
    BY <1>1, <1>6 DEF UnderWay
  <2> QED BY <1>1, <2>1, <2>2, <2>3
<1>9. ASSUME NEW m \in Conns, NEW q \in Requests, UnderWay(m, q)
      PROVE  OnItsWay(m, q) /\ q < r
  BY <1>4, <1>9, UndoneSays DEF OnItsWay
<1>10. \A m \in Conns, q \in Requests : UnderWay(m, q) /\ life[q] = hubs => m = link
  BY <1>0, <1>1, <1>9, Runs DEF OnItsWay
<1>11. \A m \in Conns, q \in Requests : UnderWay(m, q)' /\ life'[q] = hubs => m = link
  <2>1. \A m \in Conns, q \in Requests : UnderWay(m, q) => q # r
    BY <1>0, <1>9
  <2> QED BY <1>2, <1>8, <1>10, <2>1
<1>12. ASSUME NEW m \in Conns, NEW q \in Requests, UnderWay(m, q)'
       PROVE  OnItsWay(m, q)'
  <2>1. CASE q = r
    <3>1. m = link
      BY <1>2, <1>11, <1>12, <2>1
    <3> QED BY <1>1, <1>2, <1>3, <1>4, <1>11, <2>1, <3>1 DEF OnItsWay, InOrder
  <2>2. CASE q # r
    <3>1. UnderWay(m, q) /\ OnItsWay(m, q) /\ q < r /\ life'[q] = life[q]
      BY <1>2, <1>8, <1>9, <1>12, <2>2
    <3>2. ASSUME NEW k \in Conns, NEW s \in Requests, UnderWay(k, s)', life'[s] = life'[q]
          PROVE  k = m
      <4>1. CASE s = r
        BY <1>2, <1>11, <1>12, <3>2, <4>1
      <4>2. CASE s # r
        BY <1>2, <1>8, <3>1, <3>2, <4>2 DEF OnItsWay
      <4> QED BY <4>1, <4>2
    <3>3. \A s \in executed' : life'[s] = life'[q] => s < q
      BY <1>1, <1>2, <1>3, <3>1 DEF OnItsWay
    <3> QED BY <1>1, <1>2, <2>2, <3>1, <3>2, <3>3 DEF OnItsWay
  <2> QED BY <2>1, <2>2
<1>13. ASSUME NEW m \in Conns, conn'[m].pc # "closed",
              NEW i \in 1 .. Len(conn'[m].up), NEW j \in 1 .. Len(conn'[m].up), i < j
       PROVE  conn'[m].up[i] < conn'[m].up[j]
  <2>1. CASE m # link
    BY <1>6, <1>13, <2>1 DEF Undone
  <2>2. CASE m = link
    <3>1. /\ conn[link].pc # "closed" /\ i \in 1 .. Len(p) + 1 /\ j \in 1 .. Len(p) + 1
          /\ i \in 1 .. Len(p) /\ (j \in 1 .. Len(p) \/ j = Len(p) + 1)
      BY <1>6, <1>7, <1>13, <2>2
    <3>2. CASE j \in 1 .. Len(p)
      <4>1. p[i] < p[j]
        BY <1>1, <1>13, <3>1, <3>2 DEF Undone, p
      <4> QED BY <1>6, <2>2, <3>1, <3>2, <4>1
    <3>3. CASE j = Len(p) + 1
      <4>1. p[i] \in Requests
        BY <1>6, <3>1, ElementOfSeq
      <4>2. UnderWay(link, p[i])
        BY <1>1, <3>1 DEF UnderWay, p
      <4>3. p[i] < r
        BY <1>1, <1>9, <4>1, <4>2
      <4> QED BY <1>6, <2>2, <3>1, <3>3, <4>3
    <3> QED BY <3>1, <3>2, <3>3
  <2> QED BY <2>1, <2>2
<1>14. Undone'
  BY <1>12, <1>13 DEF Undone, OnItsWay
<1> QED BY <1>5, <1>14

LEMMA OrderStep ==
  ASSUME TypeInv, InOrder, Undone, [Next]_vars
  PROVE  InOrder' /\ Undone'
<1>1. ASSUME ~(\E n \in Conns : Executes(n)), DaemonStep \/ WatcherStep \/ HubStep \/ UNCHANGED vars
      PROVE  executed' = executed
  BY <1>1, WatcherLeaves, HubLeaves DEF DaemonStep, HandlerStep, Attaches, Refuses, Replies,
     HandlerEnds, Notification, MetadataRead, DaemonBoots, DaemonEnds, vars, effects
<1>2. ASSUME ~(\E n \in Conns : Executes(n)), DaemonStep \/ WatcherStep \/ HubStep \/ UNCHANGED vars
      PROVE  InOrder' /\ Undone'
  BY <1>1, <1>2, RestingOrder
<1> QED BY <1>2, ExecutingOrder, SendingOrder, Steps

-----------------------------------------------------------------------------
\* The answers, and the refinement of Rpc.

LEMMA AnswersStep ==
  ASSUME TypeInv, AnswersTrue, [Next]_vars
  PROVE  AnswersTrue'
<1> USE DEF server, proxy, calls, effects
<1> DEFINE A(q) == \A i \in 1 .. Len(q) : q[i].kind = "reply" /\ q[i].ok => q[i].val \in executed
           B == \A n \in Conns : conn[n].pc = "answering" /\ conn[n].ok => conn[n].job \in executed
           C == \A r \in Requests : call[r] \in {"answered", "ok"} => r \in executed
<1>0. /\ TypeOK /\ A(down) /\ B /\ C /\ down \in Seq(Messages)
      /\ NoHandler.pc = "none"
  BY DEF TypeInv, TypeOK, AnswersTrue, NoHandler
<1>s. SUFFICES A(down)' /\ B' /\ C'
  BY DEF AnswersTrue
\* One more message, which is no answer or a true one.
<1>a. ASSUME NEW e \in Messages, down' = Append(down, e), executed \subseteq executed',
             e.kind = "reply" /\ e.ok => e.val \in executed
      PROVE  A(down)'
  <2>1. /\ Len(down') = Len(down) + 1 /\ Len(down) \in Nat
        /\ \A i \in 1 .. Len(down) : down'[i] = down[i]
        /\ down'[Len(down) + 1] = e
    BY <1>0, <1>a, EnqueueAdds
  <2>2. \A i \in 1 .. Len(down') : i \in 1 .. Len(down) \/ i = Len(down) + 1
    BY <2>1
  <2> QED BY <1>0, <1>a, <2>1, <2>2
<1>t. ASSUME down # <<>>, down' = Tail(down), executed' = executed
      PROVE  A(down)'
  <2>1. /\ Len(down) \in Nat \ {0} /\ Len(down') = Len(down) - 1
        /\ \A i \in 1 .. Len(down) - 1 : down'[i] = down[i + 1]
    BY <1>0, <1>t, TailShifts
  <2>2. \A i \in 1 .. Len(down') : i + 1 \in 1 .. Len(down) /\ down'[i] = down[i + 1]
    BY <2>1
  <2> QED BY <1>0, <1>t, <2>2
<1>n. ASSUME down' = <<>>  PROVE A(down)'
  BY <1>n, EmptySeq
<1>1. ASSUME NEW n \in Conns, Attaches(n)  PROVE A(down)' /\ B' /\ C'
  <2>1. B' /\ C'
    BY <1>0, <1>1, AttachesDoes DEF Attaches, Becomes
  <2>2. executed' = executed /\ held.state \in Nat /\ held.meta \in Nat
    BY <1>0, <1>1 DEF Attaches, TypeOK
  <2>3. \A i \in 1 .. Len(down') : down'[i].kind = "reply" => i \in 1 .. Len(down) /\ down'[i] = down[i]
    <3>1. CASE down' = down
      BY <3>1
    <3>2. CASE down' = Append(Append(down, StateEvent(held.state)), MetaEvent(held.meta))
      <4> DEFINE d == StateEvent(held.state)
                 e == MetaEvent(held.meta)
                 p == Append(down, d)
      <4>1. d \in Messages /\ e \in Messages /\ d.kind = "state" /\ e.kind = "meta"
        BY <2>2, Events
      <4> HIDE DEF d, e
      <4>2. /\ p \in Seq(Messages) /\ Len(p) = Len(down) + 1 /\ Len(down) \in Nat
            /\ \A i \in 1 .. Len(down) : p[i] = down[i]
            /\ p[Len(down) + 1] = d
        BY <1>0, <4>1, EnqueueAdds
      <4> HIDE DEF p
      <4>3. /\ Len(down') = Len(p) + 1 /\ \A i \in 1 .. Len(p) : down'[i] = p[i]
            /\ down'[Len(p) + 1] = e
        BY <3>2, <4>1, <4>2, EnqueueAdds DEF d, e, p
      <4>4. \A i \in 1 .. Len(down') : i \in 1 .. Len(down) \/ i = Len(down) + 1 \/ i = Len(p) + 1
        BY <4>2, <4>3
      <4>5. 1 .. Len(down) \subseteq 1 .. Len(p) /\ Len(down) + 1 \in 1 .. Len(p)
        BY <4>2
      <4> QED BY <4>1, <4>2, <4>3, <4>4, <4>5
    <3> QED BY <1>0, <1>1, <3>1, <3>2, AttachesDoes
  <2>4. A(down)'
    BY <1>0, <2>2, <2>3
  <2> QED BY <2>1, <2>4
<1>2. ASSUME NEW n \in Conns, Executes(n)  PROVE A(down)' /\ B' /\ C'
  <2>1. PICK r \in Requests, ok \in BOOLEAN :
           /\ AnswersWith(n, r, ok) /\ executed' = executed \cup {r}
           /\ \/ down' = IF HasClient THEN Append(down, StateEvent(held.state + 1)) ELSE down
              \/ UNCHANGED down
    BY <1>0, <1>2, ExecutesDoes
  <2>2. call' = call /\ held.state + 1 \in Nat
    BY <1>0, <1>2 DEF Executes, TypeOK
  <2>3. B' /\ C'
    BY <1>0, <2>1, <2>2 DEF AnswersWith, Becomes
  <2>4. down' = down \/ down' = Append(down, StateEvent(held.state + 1))
    BY <2>1
  <2> QED BY <1>0, <1>a, <2>1, <2>2, <2>3, <2>4, Events
<1>3. ASSUME NEW n \in Conns, Refuses(n)  PROVE A(down)' /\ B' /\ C'
  <2>1. PICK r \in Requests : AnswersWith(n, r, FALSE)
    BY <1>0, <1>3, RefusesDoes
  <2> QED BY <1>0, <1>3, <2>1 DEF AnswersWith, Becomes, Refuses
<1>4. ASSUME NEW n \in Conns, Replies(n)  PROVE A(down)' /\ B' /\ C'
  <2>1. /\ conn[n].pc = "answering" /\ conn[n].job \in Requests /\ conn[n].ok \in BOOLEAN
        /\ Becomes(n, "reading", conn[n].up, 0, FALSE)
        /\ \A m \in Conns : m # n => conn'[m] = conn[m]
        /\ down' = down \/ down' = Append(down, Reply(conn[n].job, conn[n].ok))
    BY <1>0, <1>4, RepliesDoes, HandlerParts
  <2>2. call' = call /\ executed' = executed
    BY <1>4 DEF Replies
  <2>3. B' /\ C'
    BY <1>0, <2>1, <2>2 DEF Becomes
  <2>4. CASE down' = Append(down, Reply(conn[n].job, conn[n].ok))
    BY <1>0, <1>a, <2>1, <2>2, <2>3, <2>4, Replying
  <2> QED BY <1>0, <2>1, <2>2, <2>3, <2>4
<1>5. ASSUME NEW n \in Conns, HandlerEnds(n)  PROVE A(down)' /\ B' /\ C'
  BY <1>0, <1>5, HandlerEndsDoes, ClosedHandler DEF HandlerEnds
<1>6. CASE Notification \/ MetadataRead
  <2>1. /\ \/ down' = down \/ down' = Append(down, StateEvent(held.state + 1))
           \/ down' = Append(down, MetaEvent(held.meta + 1))
        /\ held.state + 1 \in Nat /\ held.meta + 1 \in Nat
    <3>1. held.state + 1 \in Nat /\ held.meta + 1 \in Nat
      BY <1>0 DEF TypeOK
    <3> QED BY <1>0, <1>6, <3>1, NotificationDoes, MetadataReadDoes
  <2>2. UNCHANGED <<conn, call, executed>>
    BY <1>6 DEF Notification, MetadataRead
  <2> QED BY <1>0, <1>a, <2>1, <2>2, Events
<1>7. CASE DaemonEnds
  BY <1>0, <1>7, DaemonEndsDoes, ClosedHandler DEF DaemonEnds
<1>8. CASE HubEnds
  <2>1. C'
    BY <1>0, <1>8 DEF HubEnds, InProgress
  <2> QED BY <1>0, <1>8, <1>n, <2>1 DEF HubEnds
<1>9. CASE Connects
  <2>1. B'
    BY <1>0, <1>9, ConnectsDoes DEF Becomes, Connects
  <2> QED BY <1>0, <1>9, <1>n, <2>1 DEF Connects
<1>10. ASSUME NEW r \in Requests, Send(r)  PROVE A(down)' /\ B' /\ C'
  <2>1. B'
    BY <1>0, <1>10, SendDoes DEF Becomes, Send
  <2>2. PICK s \in {"waiting", "dropped"} : call' = [call EXCEPT ![r] = s]
    BY <1>0, <1>10, SendDoes
  <2> QED BY <1>0, <1>10, <2>1, <2>2 DEF Send, TypeOK
<1>11. CASE ReadEvent
  BY <1>0, <1>11, <1>t DEF ReadEvent
<1>12. CASE ReadReply
  <2> DEFINE e == down[1]
  <2>1. /\ down # <<>> /\ e.kind = "reply" /\ e.val \in Requests /\ down' = Tail(down)
        /\ call' = IF e.val \in pending /\ call[e.val] = "waiting"
                   THEN [call EXCEPT ![e.val] = IF e.ok THEN "answered" ELSE "failed"]
                   ELSE call
    BY <1>0, <1>12, ReadReplyDoes
  <2>2. e.ok => e.val \in executed
    <3>1. Len(down) \in Nat \ {0}
      BY <1>0, <2>1, TailShifts
    <3>2. 1 \in 1 .. Len(down)
      BY <3>1
    <3> QED BY <1>0, <2>1, <3>2
  <2> HIDE DEF e
  <2>3. UNCHANGED <<conn, executed>>
    BY <1>12 DEF ReadReply
  <2>4. C'
    BY <1>0, <2>1, <2>2, <2>3 DEF TypeOK
  <2> QED BY <1>0, <1>t, <2>1, <2>3, <2>4
<1>13. CASE ReadEnd
  BY <1>0, <1>13, <1>n DEF ReadEnd, FailsWaiting
<1>14. ASSUME NEW r \in Requests, Expires(r) \/ Resumes(r)  PROVE A(down)' /\ B' /\ C'
  <2>1. C'
    BY <1>0, <1>14 DEF Expires, Resumes, TypeOK
  <2> QED BY <1>0, <1>14, <2>1 DEF Expires, Resumes
<1>15. CASE UNCHANGED <<down, conn, call, executed>>
  BY <1>0, <1>15
<1> QED
  BY <1>1, <1>2, <1>3, <1>4, <1>5, <1>6, <1>7, <1>8, <1>9, <1>10, <1>11, <1>12, <1>13, <1>14,
     <1>15 DEF Next, HandlerStep, ReadStep, vars, DaemonBoots, HubBoots, Reconnects, Opens,
     Subscribes, Delivers, Leaves

LEMMA RpcInvInit == Init => RpcInv
  BY TypeInit, PendingInit, OrderInit DEF RpcInv

LEMMA RpcInvStep ==
  ASSUME RpcInv, [Next]_vars
  PROVE  RpcInv'
  BY TypeStep, PendingStep, OrderStep, AnswersStep DEF RpcInv

\* Where a call is, as its caller sees it.
Status == [r \in Requests |-> IF InProgress(r) THEN "open" ELSE call[r]]

\* Some of the calls in progress end in the same way.
LEMMA EndsCalls ==
  ASSUME NEW R \in SUBSET Requests, NEW how \in {"ok", "failed"},
         \A r \in R : InProgress(r), how = "ok" => R \subseteq executed,
         \A r \in R : call'[r] = how,
         \A r \in Requests \ R : InProgress(r)' = InProgress(r) /\ (~InProgress(r) => call'[r] = call[r]),
         UNCHANGED <<life, executed>>
  PROVE  Calls!Next
<1>1. \A r \in R : ~InProgress(r)'
  BY DEF InProgress
<1>2. Status' = [r \in Requests |-> IF r \in R THEN how ELSE Status[r]]
  BY <1>1 DEF Status
<1>3. Calls!End(R, how)
  BY <1>2 DEF Calls!End, Status
<1> QED BY <1>3 DEF Calls!Next

\* To one of them, this is what a step means.
LEMMA OneEnds ==
  ASSUME TypeOK, NEW r \in Requests, InProgress(r), NEW how \in {"ok", "failed"},
         how = "ok" => r \in executed, call' = [call EXCEPT ![r] = how],
         UNCHANGED <<life, executed>>
  PROVE  Calls!Next
<1>1. call'[r] = how /\ \A q \in Requests \ {r} : call'[q] = call[q]
  BY DEF TypeOK
<1>2. \A q \in Requests \ {r} :
        InProgress(q)' = InProgress(q) /\ (~InProgress(q) => call'[q] = call[q])
  BY <1>1 DEF InProgress
<1> QED BY <1>1, <1>2, EndsCalls, {r} \in SUBSET Requests

LEMMA Stutters ==
  ASSUME \A r \in Requests : InProgress(r)' = InProgress(r) /\ (~InProgress(r) => call'[r] = call[r]),
         UNCHANGED <<life, executed>>
  PROVE  UNCHANGED Calls!vars
<1>1. Status' = Status
  BY DEF Status
<1> QED BY <1>1 DEF Calls!vars, Status

LEMMA RpcInit == Init => Calls!Init
  BY DEF Init, Calls!Init, InProgress

LEMMA RpcStep ==
  ASSUME RpcInv, [Next]_vars
  PROVE  [Calls!Next]_(Calls!vars)
<1> USE DEF server, proxy, calls, effects
<1>0. TypeInv /\ TypeOK /\ InOrder /\ Undone /\ AnswersTrue /\ PendingMatchesCalls
  BY DEF RpcInv, TypeInv
<1>1. ASSUME UNCHANGED <<call, life, executed>>  PROVE UNCHANGED Calls!vars
  BY <1>1, Stutters DEF InProgress
<1>2. ASSUME NEW n \in Conns, Executes(n)  PROVE Calls!Next
  <2> DEFINE r == Head(conn[n].up)
  <2>1. /\ conn[n].pc = "reading" /\ conn[n].up # <<>> /\ executed' = executed \cup {r}
        /\ UNCHANGED <<call, life>>
    BY <1>2 DEF Executes
  <2>2. r \in Requests /\ OnItsWay(n, r)
    BY <1>0, <2>1, HeadUnderWay, UndoneSays
  <2> HIDE DEF r
  <2>3. Status' = Status /\ Status[r] # "idle"
    BY <2>1, <2>2 DEF Status, InProgress, OnItsWay
  <2>4. Calls!Execute(r)
    BY <2>1, <2>2, <2>3 DEF Calls!Execute, Status, OnItsWay
  <2> QED BY <2>2, <2>4 DEF Calls!Next
<1>3. ASSUME NEW r \in Requests, Send(r)  PROVE Calls!Next
  <2>1. PICK s \in {"waiting", "dropped"} : call' = [call EXCEPT ![r] = s]
    BY <1>0, <1>3, SendDoes
  <2>2. /\ call[r] = "idle" /\ life' = [life EXCEPT ![r] = hubs] /\ executed' = executed
        /\ client = "connected"
    BY <1>3 DEF Send
  <2>3. Status[r] = "idle" /\ Status' = [Status EXCEPT ![r] = "open"]
    BY <1>0, <2>1, <2>2 DEF Status, InProgress, TypeOK
  <2>4. hubs \in Lives /\ \A q \in Requests : life[q] =< hubs
    BY <1>0, <2>2 DEF TypeInv, TypeOK, Started, InOrder
  <2>5. PICK l \in Lives : l = hubs
    BY <2>4
  <2>6. Calls!Call(r, l)
    BY <2>2, <2>3, <2>4, <2>5 DEF Calls!Call, Status
  <2> QED BY <2>6 DEF Calls!Next
<1>4. CASE HubEnds
  <2> DEFINE R == {r \in Requests : InProgress(r)}
  <2>1. /\ \A r \in R : call'[r] = "failed"
        /\ \A r \in Requests \ R : call'[r] = call[r]
        /\ UNCHANGED <<life, executed>>
    BY <1>4 DEF HubEnds
  <2>2. \A r \in Requests \ R :
          InProgress(r)' = InProgress(r) /\ (~InProgress(r) => call'[r] = call[r])
    BY <2>1 DEF InProgress
  <2> QED BY <2>1, <2>2, EndsCalls
<1>5. CASE ReadEnd
  <2> DEFINE R == {r \in pending : call[r] = "waiting"}
  <2>1. /\ \A r \in R : call'[r] = "failed" /\ InProgress(r)
        /\ \A r \in Requests \ R : call'[r] = call[r]
        /\ UNCHANGED <<life, executed>> /\ R \in SUBSET Requests
    BY <1>0, <1>5 DEF ReadEnd, FailsWaiting, TypeOK, InProgress
  <2>2. \A r \in Requests \ R :
          InProgress(r)' = InProgress(r) /\ (~InProgress(r) => call'[r] = call[r])
    BY <2>1 DEF InProgress
  <2> QED BY <2>1, <2>2, EndsCalls
<1>6. CASE ReadReply
  <2> DEFINE e == down[1]
  <2>1. /\ e.val \in Requests /\ UNCHANGED <<life, executed>>
        /\ call' = IF e.val \in pending /\ call[e.val] = "waiting"
                   THEN [call EXCEPT ![e.val] = IF e.ok THEN "answered" ELSE "failed"]
                   ELSE call
    BY <1>0, <1>6, ReadReplyDoes DEF ReadReply
  <2> HIDE DEF e
  <2>2. CASE call' = call
    BY <1>1, <2>1, <2>2
  <2>3. CASE call[e.val] = "waiting" /\ call' = [call EXCEPT ![e.val] = "answered"]
    <3>1. \A r \in Requests : InProgress(r)' = InProgress(r) /\ (~InProgress(r) => call'[r] = call[r])
      BY <1>0, <2>1, <2>3 DEF InProgress, TypeOK
    <3> QED BY <2>1, <3>1, Stutters
  <2>4. CASE call[e.val] = "waiting" /\ call' = [call EXCEPT ![e.val] = "failed"]
    BY <1>0, <2>1, <2>4, OneEnds DEF InProgress
  <2> QED BY <2>1, <2>2, <2>3, <2>4
<1>7. ASSUME NEW r \in Requests, Expires(r)  PROVE [Calls!Next]_(Calls!vars)
  <2>1. UNCHANGED <<life, executed>>
    BY <1>7 DEF Expires
  <2>2. CASE call[r] = "waiting" /\ call' = [call EXCEPT ![r] = "expired"]
    <3>1. \A q \in Requests : InProgress(q)' = InProgress(q) /\ (~InProgress(q) => call'[q] = call[q])
      BY <1>0, <2>2 DEF InProgress, TypeOK
    <3> QED BY <2>1, <3>1, Stutters
  <2>3. CASE call[r] = "answered" /\ call' = [call EXCEPT ![r] = "failed"]
    BY <1>0, <2>1, <2>3, OneEnds DEF InProgress
  <2> QED BY <1>7, <2>2, <2>3 DEF Expires
<1>8. ASSUME NEW r \in Requests, Resumes(r)  PROVE Calls!Next
  <2>1. UNCHANGED <<life, executed>> /\ call[r] \in {"answered", "expired", "dropped"}
        /\ InProgress(r)
    BY <1>8 DEF Resumes, InProgress
  <2>2. CASE call[r] = "answered"
    <3>1. call' = [call EXCEPT ![r] = "ok"] /\ r \in executed
      BY <1>0, <1>8, <2>2 DEF Resumes, AnswersTrue
    <3> QED BY <1>0, <2>1, <3>1, OneEnds
  <2>3. CASE call[r] # "answered"
    <3>1. call' = [call EXCEPT ![r] = "failed"]
      BY <1>8, <2>3 DEF Resumes
    <3> QED BY <1>0, <2>1, <3>1, OneEnds
  <2> QED BY <2>2, <2>3
<1>9. CASE DaemonStep /\ ~(\E n \in Conns : Executes(n))
  BY <1>1, <1>9 DEF DaemonStep, HandlerStep, Attaches, Refuses, Replies,
     HandlerEnds, Notification, MetadataRead, DaemonBoots, DaemonEnds
<1>10. CASE HubBoots \/ Connects \/ ReadEvent \/ Reconnects
  BY <1>1, <1>10 DEF HubBoots, Connects, ReadEvent, Reconnects
<1> QED BY <1>1, <1>2, <1>3, <1>4, <1>5, <1>6, <1>7, <1>8, <1>9, <1>10, Steps, WatcherLeaves
        DEF HubStep, vars

\* The socket implements the calls the hub relies on: a call is executed at
\* most once, in order within a run of the hub, never before it is made, and
\* an "ok" means executed; for every number of calls, ends and connections.
THEOREM RpcRefined == Spec => RpcHolds
<1>1. Init /\ [][Next]_vars => []RpcInv
  BY RpcInvInit, RpcInvStep, PTL
<1> QED BY <1>1, RpcInit, RpcStep, PTL DEF Spec, RpcHolds, Calls!Spec

-----------------------------------------------------------------------------
\* What the hub has to read.

\* The messages after one is added, and after one is taken.
LEMMA AddedAt ==
  ASSUME NEW q \in Seq(Messages), NEW e \in Messages, NEW p, p = Append(q, e)
  PROVE  /\ p \in Seq(Messages) /\ Len(p) = Len(q) + 1 /\ Len(q) \in Nat
         /\ \A i \in 1 .. Len(q) : i \in 1 .. Len(p) /\ p[i] = q[i] /\ i \in Nat
         /\ Len(q) + 1 \in 1 .. Len(p) /\ p[Len(q) + 1] = e
         /\ \A i \in 1 .. Len(p) : i \in 1 .. Len(q) \/ i = Len(q) + 1
         /\ \A i \in 1 .. Len(q) : q[i] \in Messages
<1>1. /\ p \in Seq(Messages) /\ Len(p) = Len(q) + 1 /\ Len(q) \in Nat
      /\ \A i \in 1 .. Len(q) : p[i] = q[i]
      /\ p[Len(q) + 1] = e
  BY EnqueueAdds
<1>2. \A i \in 1 .. Len(q) : q[i] \in Messages
  BY ElementOfSeq
<1> QED BY <1>1, <1>2

LEMMA TakenAt ==
  ASSUME NEW q \in Seq(Messages), q # <<>>, NEW p, p = Tail(q)
  PROVE  /\ p \in Seq(Messages) /\ Len(q) = Len(p) + 1 /\ Len(p) \in Nat
         /\ \A i \in 1 .. Len(p) : i + 1 \in 1 .. Len(q) /\ p[i] = q[i + 1] /\ i \in Nat
         /\ \A i \in 1 .. Len(q) : i = 1 \/ (i - 1 \in 1 .. Len(p) /\ p[i - 1] = q[i])
         /\ 1 \in 1 .. Len(q) /\ q[1] \in Messages
         /\ \A i \in 1 .. Len(p) : p[i] \in Messages
<1>1. /\ p \in Seq(Messages) /\ Len(q) \in Nat \ {0} /\ Len(p) = Len(q) - 1
      /\ \A i \in 1 .. Len(q) - 1 : p[i] = q[i + 1]
      /\ Head(q) = q[1] /\ Head(q) \in Messages
  BY TailShifts
<1>2. \A i \in 1 .. Len(p) : p[i] \in Messages
  BY <1>1, ElementOfSeq
<1> QED BY <1>1, <1>2

\* Each step leaves what the hub has to read, empties it, adds one or, for a
\* handler that starts, two messages, or takes one.
Silent == down' = down /\ cache' = cache /\ link' = link
Emptied ==
  /\ down' = <<>> /\ (link = 0 \/ link' = 0)
  /\ cache' = cache \/ (cache' = Defaults /\ client' = "off")

Told(e) ==
  /\ down' = Append(down, e) /\ cache' = cache /\ link' = link /\ link \in Conns /\ Open(link)
  /\ \/ e = StateEvent(held'.state)
     \/ e = MetaEvent(held'.meta)
     \/ /\ conn[link].pc = "answering" /\ conn'[link].pc = "reading"
        /\ conn[link].job \in Requests /\ conn[link].ok \in BOOLEAN
        /\ e = Reply(conn[link].job, conn[link].ok)

Snapshot ==
  /\ down' = Append(Append(down, StateEvent(held.state)), MetaEvent(held.meta))
  /\ cache' = cache /\ link' = link /\ held' = held

Taken ==
  /\ down # <<>> /\ down' = Tail(down) /\ link' = link /\ conn' = conn
  /\ \/ down[1].kind \in {"state", "meta"} /\ cache' = [cache EXCEPT ![down[1].kind] = down[1].val]
     \/ down[1].kind = "reply" /\ cache' = cache

LEMMA DownMoves ==
  ASSUME TypeInv, [Next]_vars
  PROVE  /\ held.state \in Nat /\ held'.state \in Nat /\ held.state =< held'.state
         /\ held.meta \in Nat /\ held'.meta \in Nat
         /\ Silent \/ Emptied \/ (\E e \in Messages : Told(e)) \/ Snapshot \/ Taken
<1> USE DEF server, proxy, calls, effects
<1>0. TypeOK /\ held.state \in Nat /\ held.meta \in Nat /\ held \in [state : Nat, meta : Nat]
      /\ (HasClient => link \in Conns)
  <2>1. link # 0 => link \in Conns
    BY Sizes DEF TypeInv, TypeOK, Conns
  <2> QED BY <2>1 DEF TypeInv, TypeOK, HasClient
<1> DEFINE Grown == held'.state \in Nat /\ held.state =< held'.state /\ held'.meta \in Nat
           Moved == Silent \/ Emptied \/ (\E e \in Messages : Told(e)) \/ Snapshot \/ Taken
<1>1. ASSUME NEW n \in Conns, Attaches(n)  PROVE Grown /\ Moved
  <2>1. held' = held /\ cache' = cache /\ link' = link /\ Grown
    BY <1>0, <1>1 DEF Attaches
  <2>2. /\ down' = IF HasClient \/ n = link
                   THEN Append(Append(down, StateEvent(held.state)), MetaEvent(held.meta))
                   ELSE down
    BY <1>0, <1>1, AttachesDoes
  <2> QED BY <2>1, <2>2 DEF Silent, Snapshot
<1>2. ASSUME NEW n \in Conns, Executes(n)  PROVE Grown /\ Moved
  <2>1. cache' = cache /\ link' = link
    BY <1>2 DEF Executes
  <2>2. \/ /\ held' = [held EXCEPT !.state = held.state + 1]
           /\ down' = IF HasClient THEN Append(down, StateEvent(held.state + 1)) ELSE down
        \/ UNCHANGED <<held, down>>
    BY <1>0, <1>2, ExecutesDoes, VersionAt
  <2>3. CASE held' = [held EXCEPT !.state = held.state + 1] /\ HasClient
             /\ down' = Append(down, StateEvent(held.state + 1))
    <3>1. Grown /\ held'.state = held.state + 1
      BY <1>0, <2>3
    <3>2. Told(StateEvent(held'.state)) /\ StateEvent(held'.state) \in Messages
      BY <1>0, <2>1, <2>3, <3>1, Events DEF Told, HasClient
    <3> QED BY <3>1, <3>2
  <2>4. CASE held' = [held EXCEPT !.state = held.state + 1] /\ down' = down
    BY <1>0, <2>1, <2>4 DEF Silent
  <2> QED BY <1>0, <2>1, <2>2, <2>3, <2>4 DEF Silent
<1>3. ASSUME NEW n \in Conns, Replies(n)  PROVE Grown /\ Moved
  <2>1. held' = held /\ cache' = cache /\ link' = link
    BY <1>3 DEF Replies
  <2>2. /\ conn[n].pc = "answering" /\ conn[n].job \in Requests /\ conn[n].ok \in BOOLEAN
        /\ Becomes(n, "reading", conn[n].up, 0, FALSE)
        /\ down' = IF n = link THEN Append(down, Reply(conn[n].job, conn[n].ok)) ELSE down
    BY <1>0, <1>3, RepliesDoes, HandlerParts
  <2>3. CASE n = link
    <3>1. Told(Reply(conn[n].job, conn[n].ok)) /\ Reply(conn[n].job, conn[n].ok) \in Messages
      BY <2>1, <2>2, <2>3, Replying DEF Told, Open, Becomes
    <3> QED BY <1>0, <2>1, <3>1
  <2> QED BY <1>0, <2>1, <2>2, <2>3 DEF Silent
<1>4. ASSUME Notification  PROVE Grown /\ Moved
  <2>1. cache' = cache /\ link' = link
    BY <1>4 DEF Notification
  <2>2. /\ held' = [held EXCEPT !.state = held.state + 1]
        /\ down' = down \/ (HasClient /\ down' = Append(down, StateEvent(held.state + 1)))
    BY <1>0, <1>4, NotificationDoes, VersionAt
  <2>3. Grown /\ held'.state = held.state + 1
    BY <1>0, <2>2
  <2>4. CASE HasClient /\ down' = Append(down, StateEvent(held.state + 1))
    <3>1. Told(StateEvent(held'.state)) /\ StateEvent(held'.state) \in Messages
      BY <1>0, <2>1, <2>3, <2>4, Events DEF Told, HasClient
    <3> QED BY <2>3, <3>1
  <2> QED BY <2>1, <2>2, <2>3, <2>4 DEF Silent
<1>5. ASSUME MetadataRead  PROVE Grown /\ Moved
  <2>1. cache' = cache /\ link' = link
    BY <1>5 DEF MetadataRead
  <2>2. /\ held' = [held EXCEPT !.meta = held.meta + 1]
        /\ down' = down \/ (HasClient /\ down' = Append(down, MetaEvent(held.meta + 1)))
    BY <1>0, <1>5, MetadataReadDoes, VersionAt
  <2>3. Grown /\ held'.meta = held.meta + 1
    BY <1>0, <2>2
  <2>4. CASE HasClient /\ down' = Append(down, MetaEvent(held.meta + 1))
    <3>1. Told(MetaEvent(held'.meta)) /\ MetaEvent(held'.meta) \in Messages
      BY <1>0, <2>1, <2>3, <2>4, Events DEF Told, HasClient
    <3> QED BY <2>3, <3>1
  <2> QED BY <2>1, <2>2, <2>3, <2>4 DEF Silent
<1>6. ASSUME DaemonBoots  PROVE Grown /\ Moved
  BY <1>0, <1>6 DEF DaemonBoots, Silent
<1>7. ASSUME HubEnds \/ Connects \/ ReadEnd  PROVE Grown /\ Moved
  <2>1. client # "connected" => link = 0
    BY DEF TypeInv, LinkWhileConnected
  <2> QED BY <1>0, <1>7, <2>1 DEF HubEnds, Connects, ReadEnd, Emptied
<1>8. ASSUME ReadEvent  PROVE Grown /\ Moved
  <2>1. held' = held /\ link' = link /\ conn' = conn
    BY <1>8 DEF ReadEvent
  <2> QED BY <1>0, <1>8, <2>1, ReadEventDoes DEF Taken
<1>9. ASSUME ReadReply  PROVE Grown /\ Moved
  <2>1. held' = held /\ link' = link /\ conn' = conn /\ cache' = cache
    BY <1>9 DEF ReadReply
  <2> QED BY <1>0, <1>9, <2>1, ReadReplyDoes DEF Taken
<1>10. ASSUME UNCHANGED <<held, down, cache, link>>  PROVE Grown /\ Moved
  BY <1>0, <1>10 DEF Silent
<1> HIDE DEF Grown, Moved
<1>11. Grown /\ Moved
  <2>1. ASSUME \/ \E n \in Conns : Refuses(n) \/ HandlerEnds(n)
               \/ DaemonEnds \/ HubBoots \/ Reconnects \/ WatcherStep \/ UNCHANGED vars
               \/ \E r \in Requests : Send(r) \/ Expires(r) \/ Resumes(r)
        PROVE  Grown /\ Moved
    BY <1>10, <2>1 DEF vars, Refuses, HandlerEnds, DaemonEnds, HubBoots, Send, Reconnects, Expires,
       Resumes, WatcherStep, Opens, Subscribes, Delivers, Leaves
  <2> QED BY <1>1, <1>2, <1>3, <1>4, <1>5, <1>6, <1>7, <1>8, <1>9, <2>1
      DEF Next, HandlerStep, ReadStep, WatcherStep
<1> QED BY <1>0, <1>11 DEF Grown, Moved

LEMMA RisesAdded ==
  ASSUME NEW q \in Seq(Messages), NEW e \in Messages, NEW c \in Nat, NEW h \in Nat, NEW k \in Nat,
         Rises(q, c, h), h =< k, e.kind = "state" => e.val = k
  PROVE  Rises(Append(q, e), c, k)
<1> DEFINE p == Append(q, e)
<1>1. /\ Len(q) \in Nat
      /\ \A i \in 1 .. Len(q) : p[i] = q[i] /\ i \in Nat /\ q[i] \in Messages
      /\ p[Len(q) + 1] = e
      /\ \A i \in 1 .. Len(p) : i \in 1 .. Len(q) \/ i = Len(q) + 1
  BY AddedAt
<1> HIDE DEF p
<1>2. \A i \in 1 .. Len(q) : q[i].kind = "state" => q[i].val \in Nat
  BY <1>1, MessageParts
<1>3. ASSUME NEW i \in 1 .. Len(p), p[i].kind = "state"
      PROVE  /\ c =< p[i].val /\ p[i].val =< k
             /\ \A j \in 1 .. i - 1 : p[j].kind = "state" => p[j].val =< p[i].val
  <2>1. CASE i \in 1 .. Len(q)
    <3>1. \A j \in 1 .. i - 1 : j \in 1 .. Len(q)
      BY <1>1, <2>1
    <3>2. q[i].kind = "state" /\ p[i].val = q[i].val /\ q[i].val \in Nat
      BY <1>1, <1>2, <1>3, <2>1
    <3>3. c =< q[i].val /\ q[i].val =< h
          /\ \A j \in 1 .. i - 1 : q[j].kind = "state" => q[j].val =< q[i].val
      BY <2>1, <3>2 DEF Rises
    <3>4. \A j \in 1 .. i - 1 : p[j].kind = "state" => p[j].val =< q[i].val
      BY <1>1, <3>1, <3>3
    <3>5. c =< p[i].val /\ p[i].val =< k
      BY <3>2, <3>3
    <3> QED BY <3>2, <3>4, <3>5
  <2>2. CASE i = Len(q) + 1
    <3>1. \A j \in 1 .. i - 1 : j \in 1 .. Len(q)
      BY <1>1, <2>2
    <3>2. p[i].val = k /\ c =< h
      BY <1>1, <1>3, <2>2 DEF Rises
    <3>3. \A j \in 1 .. Len(q) : q[j].kind = "state" => q[j].val =< h
      BY DEF Rises
    <3>4. \A j \in 1 .. i - 1 : p[j].kind = "state" => p[j].val \in Nat /\ p[j].val =< h
      BY <1>1, <1>2, <3>1, <3>3
    <3> QED BY <3>2, <3>4
  <2> QED BY <1>1, <2>1, <2>2
<1>4. c =< k
  BY DEF Rises
<1> QED BY <1>3, <1>4 DEF Rises, p

\* With the first message the hub knows a version that the rest does not fall
\* behind.
Knows(c, e) == IF e.kind = "state" THEN e.val ELSE c

LEMMA RisesTaken ==
  ASSUME NEW q \in Seq(Messages), NEW c \in Nat, NEW h \in Nat, Rises(q, c, h), q # <<>>
  PROVE  Rises(Tail(q), Knows(c, q[1]), h) /\ Knows(c, q[1]) \in Nat /\ c =< Knows(c, q[1])
<1> DEFINE p == Tail(q)
           d == Knows(c, q[1])
<1>1. /\ Len(q) = Len(p) + 1 /\ Len(p) \in Nat
      /\ \A i \in 1 .. Len(p) : i + 1 \in 1 .. Len(q) /\ p[i] = q[i + 1] /\ i \in Nat
      /\ 1 \in 1 .. Len(q) /\ q[1] \in Messages
  BY TakenAt
<1> HIDE DEF p
<1>2. d \in Nat /\ c =< d /\ d =< h
  BY <1>1, MessageParts DEF Knows, Rises
<1>3. ASSUME NEW i \in 1 .. Len(p), p[i].kind = "state"
      PROVE  /\ d =< p[i].val /\ p[i].val =< h
             /\ \A j \in 1 .. i - 1 : p[j].kind = "state" => p[j].val =< p[i].val
  <2>1. /\ i + 1 \in 1 .. Len(q) /\ q[i + 1].kind = "state" /\ p[i].val = q[i + 1].val
        /\ i \in Nat /\ i >= 1
    BY <1>1, <1>3
  <2>2. /\ c =< q[i + 1].val /\ q[i + 1].val =< h
        /\ \A j \in 1 .. i : q[j].kind = "state" => q[j].val =< q[i + 1].val
    <3>1. (i + 1) - 1 = i
      BY <2>1
    <3> QED BY <2>1, <3>1 DEF Rises
  <2>3. d =< p[i].val
    BY <1>1, <2>1, <2>2 DEF Knows
  <2>4. \A j \in 1 .. i - 1 : j \in 1 .. Len(p) /\ j + 1 \in 1 .. i
    BY <1>1, <2>1
  <2> QED BY <1>1, <2>1, <2>2, <2>3, <2>4
<1> QED BY <1>2, <1>3 DEF Rises, p

LEMMA RisesGrown ==
  ASSUME NEW q \in Seq(Messages), NEW c \in Nat, NEW h \in Nat, NEW k \in Nat, Rises(q, c, h), h =< k
  PROVE  Rises(q, c, k)
<1>1. \A i \in 1 .. Len(q) : q[i].kind = "state" => q[i].val \in Nat
  BY ElementOfSeq, MessageParts
<1> QED BY <1>1 DEF Rises

LEMMA RisesEmpty ==
  ASSUME NEW c, NEW h, c =< h
  PROVE  Rises(<<>>, c, h)
  BY EmptySeq DEF Rises

LEMMA RisingInit == Init => Rising
  BY RisesEmpty DEF Init, Rising, Defaults

LEMMA RisingStep ==
  ASSUME TypeInv, Rising, [Next]_vars
  PROVE  Rising' /\ (client' # "off" => cache.state =< cache'.state)
<1> DEFINE h == held.state
           k == held'.state
           c == cache.state
           Goal == Rises(down', cache'.state, k) /\ (client' # "off" => c =< cache'.state)
<1>1. /\ down \in Seq(Messages) /\ c \in Nat /\ Rises(down, c, h)
      /\ h \in Nat /\ k \in Nat /\ h =< k /\ held'.meta \in Nat /\ held.meta \in Nat
      /\ Silent \/ Emptied \/ (\E e \in Messages : Told(e)) \/ Snapshot \/ Taken
      /\ cache \in [state : Nat, meta : Nat]
  BY DownMoves DEF TypeInv, TypeOK, Rising
<1> SUFFICES Goal
  BY DEF Rising
<1>2. CASE Silent
  <2>1. Rises(down, c, k)
    BY <1>1, RisesGrown
  <2> QED BY <1>1, <1>2, <2>1 DEF Silent
<1>3. CASE Emptied
  <2>1. cache'.state \in {c, 0} /\ cache'.state =< k
    BY <1>1, <1>3 DEF Emptied, Defaults, Rises
  <2> QED BY <1>1, <1>3, <2>1, RisesEmpty DEF Emptied
<1>4. ASSUME NEW e \in Messages, Told(e)  PROVE Goal
  <2>1. e.kind = "state" => e.val = k
    BY <1>1, <1>4, Events, Replying DEF Told
  <2>2. Rises(Append(down, e), c, k)
    BY <1>1, <2>1, RisesAdded
  <2> QED BY <1>1, <1>4, <2>2 DEF Told
<1>5. CASE Snapshot
  <2> DEFINE d == StateEvent(held.state)
             e == MetaEvent(held.meta)
  <2>1. d \in Messages /\ e \in Messages /\ d.val = h /\ e.kind = "meta" /\ k = h
    BY <1>1, <1>5, Events DEF Snapshot
  <2> HIDE DEF d, e
  <2>2. Append(down, d) \in Seq(Messages) /\ Rises(Append(down, d), c, h)
    BY <1>1, <2>1, RisesAdded, AddedAt
  <2>3. Rises(Append(Append(down, d), e), c, h)
    BY <1>1, <2>1, <2>2, RisesAdded
  <2> QED BY <1>1, <1>5, <2>1, <2>3 DEF Snapshot, d, e
<1>6. CASE Taken
  <2>1. /\ Rises(Tail(down), Knows(c, down[1]), k)
        /\ Knows(c, down[1]) \in Nat /\ c =< Knows(c, down[1])
    <3>1. Rises(down, c, k)
      BY <1>1, RisesGrown
    <3> QED BY <1>1, <1>6, <3>1, RisesTaken DEF Taken
  <2>2. cache'.state = Knows(c, down[1])
    BY <1>1, <1>6 DEF Taken, Knows
  <2> QED BY <1>6, <2>1, <2>2 DEF Taken
<1> QED BY <1>1, <1>2, <1>3, <1>4, <1>5, <1>6

-----------------------------------------------------------------------------
\* The effect of a set_led comes before its answer.

LEMMA KnownAdded ==
  ASSUME NEW q \in Seq(Messages), NEW e \in Messages, NEW c, NEW v,
         NEW i \in 1 .. Len(q) + 1, KnownBefore(q, c, i, v)
  PROVE  KnownBefore(Append(q, e), c, i, v) /\ KnownBefore(Append(q, e), c, Len(q) + 2, v)
<1> DEFINE p == Append(q, e)
<1>1. /\ Len(q) \in Nat
      /\ \A k \in 1 .. Len(q) : k \in 1 .. Len(p) /\ p[k] = q[k] /\ k \in Nat
  BY AddedAt
<1> HIDE DEF p
<1>2. i < Len(q) + 2
  BY <1>1
<1>3. CASE c >= v
  BY <1>3 DEF KnownBefore, p
<1>4. ASSUME NEW j \in 1 .. Len(q), j < i, q[j].kind = "state", q[j].val >= v
      PROVE  KnownBefore(p, c, i, v) /\ KnownBefore(p, c, Len(q) + 2, v)
  <2>1. /\ j \in 1 .. Len(p) /\ p[j].kind = "state" /\ p[j].val >= v
        /\ j < i /\ j < Len(q) + 2
    BY <1>1, <1>2, <1>4
  <2> QED BY <2>1 DEF KnownBefore
<1> QED BY <1>3, <1>4 DEF KnownBefore, p

LEMMA KnownTaken ==
  ASSUME NEW q \in Seq(Messages), q # <<>>, NEW c \in Nat, NEW h \in Nat, Rises(q, c, h),
         NEW v \in Nat, NEW i \in Nat, KnownBefore(q, c, i + 1, v)
  PROVE  KnownBefore(Tail(q), Knows(c, q[1]), i, v)
<1> DEFINE p == Tail(q)
           d == Knows(c, q[1])
<1>1. /\ Len(q) = Len(p) + 1 /\ Len(p) \in Nat
      /\ \A k \in 1 .. Len(q) : k = 1 \/ (k - 1 \in 1 .. Len(p) /\ p[k - 1] = q[k])
  BY TakenAt
<1>2. d \in Nat /\ c =< d
  BY RisesTaken
<1> HIDE DEF p
<1>3. CASE c >= v
  <2>1. d >= v
    BY <1>2, <1>3
  <2> QED BY <2>1 DEF KnownBefore, p
<1>4. ASSUME NEW j \in 1 .. Len(q), j < i + 1, q[j].kind = "state", q[j].val >= v
      PROVE  KnownBefore(p, d, i, v)
  <2>1. CASE j = 1
    <3>1. d >= v
      BY <1>4, <2>1 DEF Knows
    <3> QED BY <3>1 DEF KnownBefore
  <2>2. CASE j # 1
    <3>1. /\ j - 1 \in 1 .. Len(p) /\ j - 1 < i
          /\ p[j - 1].kind = "state" /\ p[j - 1].val >= v
      BY <1>1, <1>4, <2>2
    <3> QED BY <3>1 DEF KnownBefore
  <2> QED BY <2>1, <2>2
<1> QED BY <1>3, <1>4 DEF KnownBefore, p

\* A message that is added must not be the answer, or must come late enough.
LEMMA FollowsAdded ==
  ASSUME NEW q \in Seq(Messages), NEW e \in Messages, NEW c, NEW r, NEW v,
         FollowsEffect(q, c, r, v),
         e.kind = "reply" /\ e.ok /\ e.val = r => KnownBefore(q, c, Len(q) + 1, v)
  PROVE  FollowsEffect(Append(q, e), c, r, v)
<1> DEFINE p == Append(q, e)
<1>1. /\ Len(q) \in Nat
      /\ \A i \in 1 .. Len(q) : p[i] = q[i]
      /\ p[Len(q) + 1] = e
      /\ \A i \in 1 .. Len(p) : i \in 1 .. Len(q) \/ i = Len(q) + 1
  BY AddedAt
<1>2. \A i \in 1 .. Len(q) : i \in 1 .. Len(q) + 1
  BY <1>1
<1> HIDE DEF p
<1>3. ASSUME NEW i \in 1 .. Len(p), p[i].kind = "reply", p[i].ok, p[i].val = r
      PROVE  KnownBefore(p, c, i, v)
  <2>1. CASE i \in 1 .. Len(q)
    <3>1. KnownBefore(q, c, i, v)
      BY <1>1, <1>3, <2>1 DEF FollowsEffect
    <3> QED BY <1>2, <2>1, <3>1, KnownAdded DEF p
  <2>2. CASE i = Len(q) + 1
    <3>1. KnownBefore(q, c, i, v) /\ i \in 1 .. Len(q) + 1
      BY <1>1, <1>3, <2>2
    <3> QED BY <3>1, KnownAdded DEF p
  <2> QED BY <1>1, <2>1, <2>2
<1> QED BY <1>3 DEF FollowsEffect, p

LEMMA FollowsTaken ==
  ASSUME NEW q \in Seq(Messages), q # <<>>, NEW c \in Nat, NEW h \in Nat, Rises(q, c, h),
         NEW r, NEW v \in Nat, FollowsEffect(q, c, r, v)
  PROVE  FollowsEffect(Tail(q), Knows(c, q[1]), r, v)
<1> DEFINE p == Tail(q)
<1>1. \A i \in 1 .. Len(p) : i + 1 \in 1 .. Len(q) /\ p[i] = q[i + 1] /\ i \in Nat
  BY TakenAt
<1>2. ASSUME NEW i \in 1 .. Len(p), p[i].kind = "reply", p[i].ok, p[i].val = r
      PROVE  KnownBefore(p, Knows(c, q[1]), i, v)
  <2>1. KnownBefore(q, c, i + 1, v) /\ i \in Nat
    BY <1>1, <1>2 DEF FollowsEffect
  <2> QED BY <2>1, KnownTaken
<1> QED BY <1>2 DEF FollowsEffect

\* An answer that the connection's handler has ready was ready before, or the
\* handler has just been through with the request.
LEMMA AnswerReady ==
  ASSUME TypeInv, [Next]_vars, link' # 0, conn'[link'].pc = "answering", conn'[link'].ok
  PROVE  /\ link' = link /\ link \in Conns
         /\ \/ /\ conn[link].pc = "answering" /\ conn[link].ok
               /\ conn'[link].job = conn[link].job
            \/ Executes(link) /\ conn'[link].job = Head(conn[link].up)
<1> USE DEF server, proxy, calls, effects
<1>0. TypeOK /\ (link # 0 => link \in Conns)
  BY Sizes DEF TypeInv, TypeOK, Conns
<1>1. ASSUME NEW n \in Conns, HandlerStep(n)
      PROVE  \A m \in Conns : conn'[m].pc = "answering" /\ conn'[m].ok =>
               \/ conn[m].pc = "answering" /\ conn[m].ok /\ conn'[m].job = conn[m].job
               \/ Executes(m) /\ conn'[m].job = Head(conn[m].up)
  <2>1. CASE Attaches(n)
    BY <1>0, <2>1, AttachesDoes DEF Becomes
  <2>2. CASE Executes(n)
    BY <1>0, <2>2, ExecutesDoes DEF AnswersWith, Becomes
  <2>3. CASE Refuses(n)
    BY <1>0, <2>3, RefusesDoes DEF AnswersWith, Becomes
  <2>4. CASE Replies(n)
    BY <1>0, <2>4, RepliesDoes DEF Becomes
  <2>5. CASE HandlerEnds(n)
    BY <1>0, <2>5, HandlerEndsDoes, ClosedHandler
  <2> QED BY <1>1, <2>1, <2>2, <2>3, <2>4, <2>5 DEF HandlerStep
<1>2. CASE \E n \in Conns : HandlerStep(n)
  <2>1. link' = link
    BY <1>2, DaemonLeaves DEF DaemonStep
  <2> QED BY <1>0, <1>1, <1>2, <2>1
<1>3. CASE DaemonEnds
  BY <1>0, <1>3, DaemonEndsDoes, ClosedHandler DEF DaemonEnds
<1>4. CASE Connects
  BY <1>0, <1>4, ConnectsDoes DEF Becomes
<1>5. ASSUME NEW r \in Requests, Send(r)
      PROVE  link' = link /\ conn'[link].pc = conn[link].pc /\ conn'[link].ok = conn[link].ok
             /\ conn'[link].job = conn[link].job
  BY <1>0, <1>5, SendDoes DEF Becomes, Send
<1>6. CASE \E r \in Requests : Send(r)
  BY <1>0, <1>5, <1>6
<1>7. ASSUME UNCHANGED <<conn, link>> \/ link' = 0
      PROVE  /\ link' = link /\ link \in Conns
             /\ conn[link].pc = "answering" /\ conn[link].ok /\ conn'[link].job = conn[link].job
  BY <1>0, <1>7
<1> QED
  BY <1>2, <1>3, <1>4, <1>6, <1>7 DEF Next, vars, ReadStep, Notification, MetadataRead,
     DaemonBoots, HubBoots, HubEnds, ReadEvent, ReadReply, ReadEnd, Reconnects, Expires, Resumes,
     Opens, Subscribes, Delivers, Leaves

LEMMA EffectInit == Init => EffectFirst
<1> SUFFICES ASSUME Init PROVE EffectFirst
  OBVIOUS
<1>1. \A r \in Requests : call[r] = "idle"
  BY DEF Init
<1>2. Led \subseteq Requests
  BY IpcAssumption DEF Requests
<1>3. down = <<>> /\ Len(<<>>) = 0 /\ link = 0
  BY EmptySeq DEF Init
<1> QED BY <1>1, <1>2, <1>3 DEF EffectFirst, FollowsEffect

\* The version that a call produced changes only when it is executed.
LEMMA WroteMoves ==
  ASSUME TypeInv, [Next]_vars, NEW r \in Led
  PROVE  \/ wrote'[r] = wrote[r] /\ \A n \in Conns : Executes(n) => r # Head(conn[n].up)
         \/ \E n \in Conns :
              /\ Executes(n) /\ r = Head(conn[n].up) /\ wrote'[r] = held.state + 1
              /\ conn[n].pc = "reading" /\ conn[n].up # <<>>
              /\ down' = IF HasClient THEN Append(down, StateEvent(held.state + 1)) ELSE down
<1>0. TypeOK /\ wrote \in [Requests -> Nat] /\ r \in Requests
  BY IpcAssumption DEF TypeInv, TypeOK, Requests
<1>1. ASSUME NEW n \in Conns, Executes(n), r = Head(conn[n].up)
      PROVE  /\ wrote'[r] = held.state + 1 /\ conn[n].pc = "reading" /\ conn[n].up # <<>>
             /\ down' = IF HasClient THEN Append(down, StateEvent(held.state + 1)) ELSE down
  <2>1. PICK s \in Requests, ok \in BOOLEAN :
           /\ AnswersWith(n, s, ok)
           /\ \/ /\ wrote' = [wrote EXCEPT ![s] = held.state + 1]
                 /\ down' = IF HasClient THEN Append(down, StateEvent(held.state + 1)) ELSE down
              \/ s \notin Led
    BY <1>0, <1>1, ExecutesDoes
  <2> QED BY <1>0, <1>1, <2>1 DEF AnswersWith
<1>2. ASSUME NEW n \in Conns, Executes(n), r # Head(conn[n].up)
      PROVE  wrote'[r] = wrote[r]
  <2>1. PICK s \in Requests, ok \in BOOLEAN :
           /\ AnswersWith(n, s, ok)
           /\ wrote' = [wrote EXCEPT ![s] = held.state + 1] \/ UNCHANGED wrote
    BY <1>0, <1>2, ExecutesDoes
  <2> QED BY <1>0, <1>2, <2>1 DEF AnswersWith
<1>3. ASSUME ~(\E n \in Conns : Executes(n))  PROVE wrote' = wrote
  BY <1>3, WatcherLeaves, HubLeaves, Steps DEF DaemonStep, HandlerStep, Attaches, Refuses, Replies,
     HandlerEnds, Notification, MetadataRead, DaemonBoots, DaemonEnds, vars, effects, Send
<1> QED BY <1>1, <1>2, <1>3

\* A call has its answer from what the hub has just read, or had it before.
LEMMA CallMoves ==
  ASSUME TypeInv, InOrder, [Next]_vars, NEW r \in Requests,
         call'[r] \in {"answered", "ok"}, life'[r] = hubs', client' # "off"
  PROVE  /\ life'[r] = life[r]
         /\ \/ call[r] \in {"answered", "ok"} /\ life[r] = hubs /\ client # "off"
            \/ /\ Taken /\ down[1].kind = "reply" /\ down[1].ok /\ down[1].val = r
               /\ down[1] \in Messages /\ down # <<>>
<1> USE DEF server, proxy, calls, effects
<1>0. TypeOK /\ hubs \in Nat /\ life[r] \in Nat /\ life[r] =< hubs
  BY Runs DEF TypeInv, InOrder
<1>1. CASE ReadReply
  <2> DEFINE e == down[1]
  <2>1. /\ down # <<>> /\ down' = Tail(down) /\ e.kind = "reply" /\ e.val \in Requests
        /\ e \in Messages
        /\ call' = IF e.val \in pending /\ call[e.val] = "waiting"
                   THEN [call EXCEPT ![e.val] = IF e.ok THEN "answered" ELSE "failed"]
                   ELSE call
    BY <1>0, <1>1, ReadReplyDoes
  <2> HIDE DEF e
  <2>2. UNCHANGED <<life, hubs, client, link, conn, cache>>
    BY <1>1 DEF ReadReply
  <2>3. call'[r] = call[r] \/ (e.val = r /\ e.ok)
    BY <1>0, <2>1 DEF TypeOK
  <2> QED BY <2>1, <2>2, <2>3 DEF Taken, e
<1>2. ASSUME NEW s \in Requests, Send(s)
      PROVE  life'[r] = life[r] /\ call[r] \in {"answered", "ok"} /\ life[r] = hubs /\ client # "off"
  <2>1. PICK t \in {"waiting", "dropped"} : call' = [call EXCEPT ![s] = t]
    BY <1>0, <1>2, SendDoes
  <2>2. r # s /\ call'[r] = call[r]
    BY <1>0, <2>1 DEF TypeOK
  <2> QED BY <1>0, <1>2, <2>2 DEF Send, TypeOK
<1>3. CASE HubEnds \/ HubBoots
  BY <1>0, <1>3 DEF HubEnds, HubBoots
<1>4. CASE ReadEnd
  BY <1>0, <1>4 DEF ReadEnd, FailsWaiting
<1>5. ASSUME NEW s \in Requests, Expires(s) \/ Resumes(s)
      PROVE  life'[r] = life[r] /\ call[r] \in {"answered", "ok"} /\ life[r] = hubs /\ client # "off"
  BY <1>0, <1>5 DEF Expires, Resumes, TypeOK
<1>6. ASSUME UNCHANGED <<call, life, hubs>>, client # "off"
      PROVE  life'[r] = life[r] /\ call[r] \in {"answered", "ok"} /\ life[r] = hubs /\ client # "off"
  BY <1>6
<1> QED
  BY <1>1, <1>2, <1>3, <1>4, <1>5, <1>6, Steps, DaemonLeaves, WatcherLeaves
  DEF HubStep, Connects, ReadEvent, Reconnects, vars

LEMMA EffectStep ==
  ASSUME RpcInv, Rising, EffectFirst, [Next]_vars
  PROVE  EffectFirst'
<1> DEFINE c == cache.state
           Before(r) == /\ FollowsEffect(down, c, r, wrote[r])
                        /\ link # 0 /\ conn[link].pc = "answering" /\ conn[link].ok
                             /\ conn[link].job = r
                             => KnownBefore(down, c, Len(down) + 1, wrote[r])
                        /\ call[r] \in {"answered", "ok"} /\ life[r] = hubs /\ client # "off"
                             => c >= wrote[r]
<1>0. /\ TypeInv /\ TypeOK /\ InOrder /\ Undone /\ AnswersTrue
      /\ down \in Seq(Messages) /\ c \in Nat /\ held.state \in Nat /\ Rises(down, c, held.state)
      /\ Led \subseteq Requests /\ \A r \in Led : Before(r) /\ wrote[r] \in Nat
      /\ cache'.state \in Nat
  <2>1. TypeInv'
    BY TypeStep DEF RpcInv
  <2>2. Led \subseteq Requests
    BY IpcAssumption DEF Requests
  <2> QED BY <2>1, <2>2 DEF RpcInv, TypeInv, TypeOK, EffectFirst, Rising
<1>1. client' # "off" => c =< cache'.state
  BY RisingStep DEF RpcInv
<1>s. SUFFICES ASSUME NEW r \in Led  PROVE Before(r)'
  BY DEF EffectFirst
<1>2. r \in Requests /\ Before(r) /\ wrote[r] \in Nat
  BY <1>0
<1>w. wrote'[r] \in Nat
  <2>1. TypeInv'
    BY TypeStep DEF RpcInv
  <2> QED BY <1>2, <2>1 DEF TypeInv, TypeOK
<1> HIDE DEF Before
<1>3. ASSUME NEW n \in Conns, Executes(n), r = Head(conn[n].up), wrote'[r] = held.state + 1,
             conn[n].pc = "reading", conn[n].up # <<>>,
             down' = IF HasClient THEN Append(down, StateEvent(held.state + 1)) ELSE down
      PROVE  Before(r)'
  <2>1. r \notin executed /\ UnderWay(n, r)
    BY <1>0, <1>3, HeadUnderWay, UndoneSays DEF OnItsWay
  <2>2. \A v : FollowsEffect(down, c, r, v)
    BY <1>0, <2>1 DEF FollowsEffect, AnswersTrue
  <2> DEFINE e == StateEvent(held.state + 1)
  <2>3. /\ held.state + 1 \in Nat /\ e \in Messages /\ e.kind = "state" /\ e.val = held.state + 1
    BY <1>0, Events
  <2> HIDE DEF e
  <2>4. UNCHANGED <<cache, link, call, life, hubs, client>>
    BY <1>3 DEF Executes, proxy, calls
  <2>5. FollowsEffect(down', c, r, wrote'[r])
    <3>1. CASE down' = down
      BY <2>2, <3>1
    <3>2. CASE down' = Append(down, e)
      <4>1. FollowsEffect(down, c, r, wrote'[r])
        BY <2>2
      <4>2. FollowsEffect(Append(down, e), c, r, wrote'[r])
        BY <1>0, <2>3, <4>1, FollowsAdded
      <4> QED BY <3>2, <4>2
    <3> QED BY <1>3, <3>1, <3>2 DEF e
  <2>6. ASSUME link' # 0, conn'[link'].pc = "answering", conn'[link'].ok, conn'[link'].job = r
        PROVE  KnownBefore(down', c, Len(down') + 1, wrote'[r])
    <3>1. link' = link /\ link \in Conns
          /\ \/ conn[link].pc = "answering" /\ conn[link].ok /\ conn'[link].job = conn[link].job
             \/ Executes(link) /\ conn'[link].job = Head(conn[link].up)
      BY <1>0, <2>6, AnswerReady
    <3>2. Executes(link)
      BY <1>0, <2>1, <2>6, <3>1 DEF AnswersTrue
    <3>3. down' = Append(down, e)
      BY <1>3, <2>6, <3>1, <3>2 DEF Executes, HasClient, Open, e
    <3>4. Len(down') = Len(down) + 1 /\ Len(down) \in Nat /\ Len(down) + 1 \in 1 .. Len(down')
          /\ down'[Len(down) + 1] = e
      BY <1>0, <2>3, <3>3, AddedAt
    <3>5. Len(down) + 1 < Len(down') + 1 /\ down'[Len(down) + 1].kind = "state"
          /\ down'[Len(down) + 1].val >= wrote'[r]
      BY <1>3, <2>3, <3>4
    <3> QED BY <3>4, <3>5 DEF KnownBefore
  <2>7. call'[r] \notin {"answered", "ok"}
    BY <1>0, <1>2, <2>1, <2>4 DEF AnswersTrue
  <2> QED BY <2>4, <2>5, <2>6, <2>7 DEF Before
<1>4. ASSUME wrote'[r] = wrote[r], \A n \in Conns : Executes(n) => r # Head(conn[n].up)
      PROVE  Before(r)'
  <2> DEFINE v == wrote[r]
             d == cache'.state
             Ready == /\ link \in Conns /\ link # 0 /\ conn[link].pc = "answering"
                      /\ conn[link].ok /\ conn[link].job = r
             Known == KnownBefore(down', d, Len(down') + 1, v)
  <2>0. /\ v \in Nat /\ FollowsEffect(down, c, r, v)
        /\ Ready => KnownBefore(down, c, Len(down) + 1, v)
        /\ \/ Silent \/ Emptied \/ (\E e \in Messages : Told(e)) \/ Snapshot \/ Taken
        /\ held'.state \in Nat /\ held'.meta \in Nat
    BY <1>0, <1>2, DownMoves DEF Before
  <2>a. Len(down) \in Nat /\ Len(down) + 1 \in 1 .. Len(down) + 1
    BY <1>0, LenProperties
  <2>1. ASSUME Silent  PROVE FollowsEffect(down', d, r, v) /\ (Ready => Known)
    <3>1. down' = down /\ d = c
      BY <2>1 DEF Silent
    <3> QED BY <2>0, <3>1
  <2>2. ASSUME Emptied  PROVE FollowsEffect(down', d, r, v)
    <3>1. FollowsEffect(<<>>, d, r, v)
      BY EmptySeq DEF FollowsEffect
    <3> QED BY <2>2, <3>1 DEF Emptied
  <2>3. ASSUME NEW e \in Messages, Told(e)
        PROVE  FollowsEffect(down', d, r, v) /\ (Ready => Known)
    <3>1. down' = Append(down, e) /\ d = c /\ Len(down') = Len(down) + 1
      BY <1>0, <2>3, AddedAt DEF Told
    <3>2. e.kind = "reply" /\ e.ok /\ e.val = r => Ready
      <4>1. StateEvent(held'.state).kind # "reply" /\ MetaEvent(held'.meta).kind # "reply"
        BY <2>0, Events
      <4>2. ASSUME conn[link].job \in Requests, conn[link].ok \in BOOLEAN,
                   e = Reply(conn[link].job, conn[link].ok)
            PROVE  e.val = conn[link].job /\ e.ok = conn[link].ok
        BY <4>2, Replying
      <4> QED BY <2>3, <4>1, <4>2, Sizes DEF Told
    <3>3. FollowsEffect(down', c, r, v)
      BY <1>0, <2>0, <3>1, <3>2, FollowsAdded
    <3>4. Ready => KnownBefore(down', c, Len(down) + 2, v)
      BY <1>0, <2>0, <2>a, <3>1, KnownAdded
    <3>5. Len(down') + 1 = Len(down) + 2
      BY <2>a, <3>1
    <3> QED BY <3>1, <3>3, <3>4, <3>5
  <2>4. ASSUME Snapshot  PROVE FollowsEffect(down', d, r, v) /\ (Ready => Known)
    <3> DEFINE s == StateEvent(held.state)
               e == MetaEvent(held.meta)
               p == Append(down, s)
    <3>1. s \in Messages /\ e \in Messages /\ s.kind = "state" /\ e.kind = "meta"
      BY <1>0, DownMoves, Events
    <3>2. down' = Append(Append(down, s), e) /\ d = c
      BY <2>4 DEF Snapshot
    <3> HIDE DEF s, e
    <3>3. /\ p \in Seq(Messages) /\ Len(p) = Len(down) + 1
          /\ FollowsEffect(p, c, r, v)
      BY <1>0, <2>0, <3>1, AddedAt, FollowsAdded
    <3>4. Ready => KnownBefore(p, c, Len(down) + 2, v)
      BY <1>0, <2>0, <2>a, <3>1, KnownAdded
    <3> HIDE DEF p
    <3>5. Len(down) + 2 = Len(p) + 1 /\ Len(p) + 1 \in 1 .. Len(p) + 1
      BY <2>a, <3>3
    <3>6. /\ Len(down') = Len(p) + 1 /\ Len(down') + 1 = Len(p) + 2
          /\ FollowsEffect(down', c, r, v)
      <4>1. down' = Append(p, e)
        BY <3>2 DEF p
      <4>2. Len(down') = Len(p) + 1 /\ FollowsEffect(down', c, r, v)
        BY <3>1, <3>3, <4>1, AddedAt, FollowsAdded
      <4> QED BY <2>a, <3>3, <4>2
    <3>7. Ready => KnownBefore(Append(p, e), c, Len(p) + 2, v)
      BY <3>1, <3>3, <3>4, <3>5, KnownAdded
    <3> QED BY <3>2, <3>6, <3>7 DEF p
  <2>5. ASSUME Taken  PROVE FollowsEffect(down', d, r, v) /\ (Ready => Known)
    <3>1. down # <<>> /\ down' = Tail(down) /\ Rises(down, c, held.state)
      BY <1>0, <2>5 DEF Taken
    <3>2. d = Knows(c, down[1])
      BY <1>0, <2>5 DEF Taken, Knows, TypeOK
    <3>3. FollowsEffect(down', d, r, v)
      BY <1>0, <2>0, <3>1, <3>2, FollowsTaken
    <3>4. Len(down) = Len(down') + 1 /\ Len(down') + 1 \in Nat
      BY <1>0, <3>1, TakenAt
    <3>5. Ready => KnownBefore(down', d, Len(down') + 1, v)
      BY <1>0, <2>0, <3>1, <3>2, <3>4, KnownTaken
    <3> QED BY <3>3, <3>5
  <2>6. ASSUME link' # 0, conn'[link'].pc = "answering", conn'[link'].ok, conn'[link'].job = r
        PROVE  Known
    <3>1. Ready /\ link' = link
      BY <1>0, <1>4, <2>6, AnswerReady, Sizes
    <3>2. ~Emptied
      BY <3>1 DEF Emptied
    <3> QED BY <2>0, <2>1, <2>3, <2>4, <2>5, <3>1, <3>2 DEF Silent
  <2>7. ASSUME call'[r] \in {"answered", "ok"}, life'[r] = hubs', client' # "off"
        PROVE  d >= v
    <3>1. CASE call[r] \in {"answered", "ok"} /\ life[r] = hubs /\ client # "off"
      BY <1>0, <1>1, <1>2, <2>0, <2>7, <3>1 DEF Before
    <3>2. CASE Taken /\ down[1].kind = "reply" /\ down[1].ok /\ down[1].val = r
      <4>1. 1 \in 1 .. Len(down)
        BY <1>0, <3>2, TakenAt DEF Taken
      <4>2. KnownBefore(down, c, 1, v)
        BY <2>0, <3>2, <4>1 DEF FollowsEffect
      <4>3. \A j \in 1 .. Len(down) : ~(j < 1)
        BY <2>a
      <4>4. c >= v
        BY <4>2, <4>3 DEF KnownBefore
      <4> QED BY <1>0, <1>1, <2>0, <2>7, <4>4
    <3> QED BY <1>0, <1>2, <2>7, <3>1, <3>2, CallMoves
  <2>8. FollowsEffect(down', d, r, v)
    BY <2>0, <2>1, <2>2, <2>3, <2>4, <2>5
  <2> QED BY <1>4, <2>6, <2>7, <2>8 DEF Before
<1> QED BY <1>0, <1>3, <1>4, WroteMoves

\* When set_led or set_muted has returned, get_state() shows its effect, for
\* every order of the answers, broadcasts, time-outs and ends.
THEOREM ReadYourWritesHolds == Spec => []ReadYourWrites
<1>1. Init => WritesInv
  BY RpcInvInit, RisingInit, EffectInit DEF WritesInv
<1>2. WritesInv /\ [Next]_vars => WritesInv'
  BY RpcInvStep, RisingStep, EffectStep DEF WritesInv, RpcInv
<1>3. WritesInv => ReadYourWrites
  BY DEF WritesInv, EffectFirst, ReadYourWrites
<1> QED BY <1>1, <1>2, <1>3, PTL DEF Spec

-----------------------------------------------------------------------------
\* The cache follows what the daemon told.

LEMMA EndsAdded ==
  ASSUME NEW q \in Seq(Messages), NEW e \in Messages, NEW c, NEW t
  PROVE  /\ e.kind = t => EndsWith(Append(q, e), c, t, e.val)
         /\ \A v : e.kind # t /\ EndsWith(q, c, t, v) => EndsWith(Append(q, e), c, t, v)
<1> DEFINE p == Append(q, e)
<1>1. /\ Len(q) \in Nat
      /\ \A i \in 1 .. Len(q) : i \in 1 .. Len(p) /\ p[i] = q[i] /\ i \in Nat
      /\ Len(q) + 1 \in 1 .. Len(p) /\ p[Len(q) + 1] = e
      /\ \A i \in 1 .. Len(p) : i \in 1 .. Len(q) \/ i = Len(q) + 1
  BY AddedAt
<1> HIDE DEF p
<1>2. ASSUME e.kind = t  PROVE EndsWith(p, c, t, e.val)
  <2>1. \A j \in 1 .. Len(p) : ~(j > Len(q) + 1)
    BY <1>1
  <2> QED BY <1>1, <1>2, <2>1 DEF EndsWith
<1>3. ASSUME NEW v, e.kind # t, EndsWith(q, c, t, v)
      PROVE  EndsWith(p, c, t, v)
  <2>1. CASE c = v /\ \A j \in 1 .. Len(q) : q[j].kind # t
    <3>1. \A j \in 1 .. Len(p) : p[j].kind # t
      BY <1>1, <1>3, <2>1
    <3> QED BY <2>1, <3>1 DEF EndsWith
  <2>2. ASSUME NEW i \in 1 .. Len(q), q[i].kind = t, q[i].val = v,
               \A j \in 1 .. Len(q) : j > i => q[j].kind # t
        PROVE  EndsWith(p, c, t, v)
    <3>1. \A j \in 1 .. Len(p) : j > i => p[j].kind # t
      BY <1>1, <1>3, <2>2
    <3>2. i \in 1 .. Len(p) /\ p[i].kind = t /\ p[i].val = v
      BY <1>1, <2>2
    <3> QED BY <3>1, <3>2 DEF EndsWith
  <2> QED BY <1>3, <2>1, <2>2 DEF EndsWith
<1> QED BY <1>2, <1>3 DEF p

LEMMA EndsTaken ==
  ASSUME NEW q \in Seq(Messages), q # <<>>, NEW c, NEW t, NEW v, EndsWith(q, c, t, v)
  PROVE  EndsWith(Tail(q), IF q[1].kind = t THEN q[1].val ELSE c, t, v)
<1> DEFINE p == Tail(q)
           d == IF q[1].kind = t THEN q[1].val ELSE c
<1>1. /\ Len(q) = Len(p) + 1 /\ Len(p) \in Nat
      /\ \A i \in 1 .. Len(p) : i + 1 \in 1 .. Len(q) /\ p[i] = q[i + 1] /\ i \in Nat
      /\ \A i \in 1 .. Len(q) : i = 1 \/ (i - 1 \in 1 .. Len(p) /\ p[i - 1] = q[i])
      /\ 1 \in 1 .. Len(q)
  BY TakenAt
<1> HIDE DEF p
<1>2. CASE c = v /\ \A j \in 1 .. Len(q) : q[j].kind # t
  <2>1. d = v /\ \A j \in 1 .. Len(p) : p[j].kind # t
    BY <1>1, <1>2
  <2> QED BY <2>1 DEF EndsWith, p
<1>3. ASSUME NEW i \in 1 .. Len(q), q[i].kind = t, q[i].val = v,
             \A j \in 1 .. Len(q) : j > i => q[j].kind # t
      PROVE  EndsWith(p, d, t, v)
  <2>1. \A j \in 1 .. Len(p) : j > i - 1 => p[j].kind # t
    <3>1. \A j \in 1 .. Len(p) : j > i - 1 => j + 1 > i
      BY <1>1
    <3> QED BY <1>1, <1>3, <3>1
  <2>2. CASE i = 1
    <3>1. d = v /\ \A j \in 1 .. Len(p) : p[j].kind # t
      BY <1>1, <1>3, <2>1, <2>2
    <3> QED BY <3>1 DEF EndsWith
  <2>3. CASE i # 1
    <3>1. i - 1 \in 1 .. Len(p) /\ p[i - 1].kind = t /\ p[i - 1].val = v
      BY <1>1, <1>3, <2>3
    <3> QED BY <2>1, <3>1 DEF EndsWith
  <2> QED BY <2>2, <2>3
<1> QED BY <1>2, <1>3 DEF EndsWith, p

\* What the messages end with is what arrives last.
LEMMA EndsArrives ==
  ASSUME down \in Seq(Messages), NEW t, NEW v, EndsWith(down, cache[t], t, v)
  PROVE  Arriving(t) = v
<1>1. DOMAIN down = 1 .. Len(down) /\ Len(down) \in Nat
  BY LenProperties
<1>2. CASE cache[t] = v /\ \A j \in 1 .. Len(down) : down[j].kind # t
  BY <1>1, <1>2 DEF Arriving, Of
<1>3. ASSUME NEW i \in 1 .. Len(down), down[i].kind = t, down[i].val = v,
             \A j \in 1 .. Len(down) : j > i => down[j].kind # t
      PROVE  Arriving(t) = v
  <2>1. i \in Of(t) /\ \A j \in Of(t) : j \in 1 .. Len(down) /\ j =< i
    BY <1>1, <1>3 DEF Of
  <2>2. Newest(t) \in Of(t) /\ \A j \in Of(t) : j =< Newest(t)
    BY <2>1 DEF Newest
  <2>3. Newest(t) = i
    <3>1. Newest(t) \in 1 .. Len(down) /\ Newest(t) =< i /\ i =< Newest(t)
      BY <2>1, <2>2
    <3> QED BY <1>1, <3>1
  <2> QED BY <1>3, <2>1, <2>3 DEF Arriving
<1> QED BY <1>2, <1>3 DEF EndsWith

\* The handler that the hub is attached to was running, or it starts.
LEMMA AttachedBefore ==
  ASSUME TypeInv, [Next]_vars, client' = "connected", Open(link)'
  PROVE  /\ client = "connected" /\ link' = link /\ link \in Conns
         /\ Open(link) \/ Attaches(link)
<1> USE DEF server, proxy, calls, effects
<1>0. /\ TypeOK /\ (client = "connected" <=> link # 0) /\ (link # 0 => link \in Conns)
  BY Sizes DEF TypeInv, TypeOK, Conns, LinkWhileConnected
<1>1. ASSUME Connects  PROVE FALSE
  BY <1>0, <1>1, ConnectsDoes DEF Becomes, Open
<1>2. client = "connected" /\ link' = link /\ link \in Conns
  <2>1. ASSUME ~Connects  PROVE client = "connected" /\ link' = link
    BY <2>1, Steps, DaemonLeaves, WatcherLeaves DEF HubStep, HubBoots, HubEnds, ReadEvent, ReadReply,
       ReadEnd, Reconnects, Expires, Resumes, Send, vars
  <2> QED BY <1>0, <1>1, <2>1
<1>3. ASSUME NEW n \in Conns, HandlerStep(n), ~Attaches(n)  PROVE conn'[link].pc = conn[link].pc \/ Open(link)
  <2>1. CASE Executes(n)
    BY <1>0, <1>2, <2>1, ExecutesDoes DEF AnswersWith, Open
  <2>2. CASE Refuses(n)
    BY <1>0, <1>2, <2>2, RefusesDoes DEF AnswersWith, Open
  <2>3. CASE Replies(n)
    BY <1>0, <1>2, <2>3, RepliesDoes DEF Becomes, Open
  <2>4. CASE HandlerEnds(n)
    BY <1>0, <1>2, <2>4, HandlerEndsDoes
  <2> QED BY <1>3, <2>1, <2>2, <2>3, <2>4 DEF HandlerStep
<1>4. ASSUME NEW n \in Conns, Attaches(n), n # link  PROVE conn'[link].pc = conn[link].pc
  BY <1>0, <1>2, <1>4, AttachesDoes
<1>5. ASSUME DaemonEnds  PROVE conn'[link].pc = conn[link].pc \/ conn'[link].pc = "closed"
  BY <1>0, <1>2, <1>5, DaemonEndsDoes, ClosedHandler
<1>6. ASSUME NEW r \in Requests, Send(r)  PROVE conn'[link].pc = conn[link].pc
  BY <1>0, <1>6, SendDoes DEF Becomes
<1>7. conn'[link].pc # "closed" /\ (conn'[link].pc = conn[link].pc => Open(link))
  BY <1>2 DEF Open
<1>8. ASSUME conn' = conn  PROVE conn'[link].pc = conn[link].pc
  BY <1>8
<1> QED BY <1>1, <1>2, <1>3, <1>4, <1>5, <1>6, <1>7, <1>8 DEF Next, vars, ReadStep, Notification,
     MetadataRead, DaemonBoots, HubBoots, HubEnds, ReadEvent, ReadReply, ReadEnd, Reconnects,
     Expires, Resumes, Opens, Subscribes, Delivers, Leaves

LEMMA ToldStep ==
  ASSUME TypeInv, ToldArrives, [Next]_vars
  PROVE  ToldArrives'
<1> USE DEF server, proxy, calls, effects
<1> SUFFICES ASSUME client' = "connected", Open(link)'
             PROVE  \A t \in {"state", "meta"} : EndsWith(down', cache'[t], t, told'[t])
  BY DEF ToldArrives
<1> DEFINE Goal == \A t \in {"state", "meta"} : EndsWith(down', cache'[t], t, told'[t])
<1>0. /\ TypeOK /\ down \in Seq(Messages)
      /\ client = "connected" /\ link' = link /\ link \in Conns /\ link # 0
      /\ Open(link) \/ Attaches(link)
      /\ told \in [state : Nat, meta : Nat] /\ held \in [state : Nat, meta : Nat]
      /\ cache \in [state : Nat, meta : Nat]
      /\ held.state \in Nat /\ held.meta \in Nat
  BY AttachedBefore, Sizes DEF TypeInv, TypeOK
<1>1. Open(link) => HasClient /\ \A t \in {"state", "meta"} : EndsWith(down, cache[t], t, told[t])
  BY <1>0 DEF ToldArrives, HasClient
\* A change is told.
<1>a. ASSUME NEW e \in Messages, e.kind \in {"state", "meta"}, Open(link), cache' = cache,
             down' = Append(down, e), told' = [told EXCEPT ![e.kind] = e.val]
      PROVE  Goal
  <2>1. EndsWith(down', cache'[e.kind], e.kind, told'[e.kind])
    BY <1>0, <1>a, EndsAdded
  <2>2. ASSUME NEW t \in {"state", "meta"}, t # e.kind
        PROVE  EndsWith(down', cache'[t], t, told'[t])
    BY <1>0, <1>1, <1>a, <2>2, EndsAdded
  <2> QED BY <2>1, <2>2
\* Nothing is.
<1>b. ASSUME Open(link), UNCHANGED <<cache, told, down>>  PROVE Goal
  BY <1>1, <1>b
<1>2. ASSUME NEW n \in Conns, Attaches(n)  PROVE Goal
  <2> DEFINE s == StateEvent(held.state)
             e == MetaEvent(held.meta)
             p == Append(down, s)
  <2>1. told' = held /\ cache' = cache /\ (HasClient \/ n = link)
    <3>1. told' = held /\ cache' = cache
      BY <1>2 DEF Attaches
    <3>2. Open(link) \/ n = link
      <4>1. n # link => conn'[link] = conn[link]
        BY <1>0, <1>2, AttachesDoes
      <4> QED BY <1>0, <4>1 DEF Open
    <3> QED BY <1>1, <3>1, <3>2
  <2>2. s \in Messages /\ e \in Messages /\ s.kind = "state" /\ s.val = held.state
        /\ e.kind = "meta" /\ e.val = held.meta
    BY <1>0, Events
  <2>3. down' = Append(p, e)
    BY <1>0, <1>2, <2>1, AttachesDoes
  <2> HIDE DEF s, e
  <2>4. p \in Seq(Messages)
    BY <1>0, <2>2, AddedAt
  <2>5. EndsWith(p, cache["state"], "state", held.state)
    BY <1>0, <2>2, EndsAdded
  <2> HIDE DEF p
  <2>6. EndsWith(Append(p, e), cache["meta"], "meta", held.meta)
    BY <2>2, <2>4, EndsAdded
  <2>7. EndsWith(Append(p, e), cache["state"], "state", held.state)
    BY <2>2, <2>4, <2>5, EndsAdded
  <2> QED BY <1>0, <2>1, <2>3, <2>6, <2>7
<1>3. ASSUME NEW n \in Conns, Executes(n)  PROVE Goal
  <2>1. Open(link) /\ cache' = cache
    <3>1. n # link \/ conn[link].pc = "reading"
      BY <1>3 DEF Executes
    <3>2. n # link => conn'[link] = conn[link]
      BY <1>0, <1>3, ExecutesDoes DEF AnswersWith
    <3> QED BY <1>0, <1>3, <3>1, <3>2 DEF Open, Executes
  <2>2. \/ /\ told' = [told EXCEPT !.state = held.state + 1]
           /\ down' = IF HasClient THEN Append(down, StateEvent(held.state + 1)) ELSE down
        \/ UNCHANGED <<told, down>>
    BY <1>0, <1>3, ExecutesDoes
  <2>3. /\ StateEvent(held.state + 1) \in Messages /\ StateEvent(held.state + 1).kind = "state"
        /\ StateEvent(held.state + 1).val = held.state + 1
    BY <1>0, Events
  <2> QED BY <1>1, <1>a, <1>b, <2>1, <2>2, <2>3
<1>4. ASSUME NEW n \in Conns, Replies(n)  PROVE Goal
  <2>1. Open(link) /\ cache' = cache /\ told' = told
    <3>1. n # link \/ conn[link].pc = "answering"
      BY <1>4 DEF Replies
    <3>2. n # link => conn'[link] = conn[link]
      BY <1>0, <1>4, RepliesDoes
    <3> QED BY <1>0, <1>4, <3>1, <3>2 DEF Open, Replies
  <2> DEFINE e == Reply(conn[n].job, conn[n].ok)
  <2>2. /\ e \in Messages /\ e.kind = "reply"
        /\ down' = down \/ down' = Append(down, e)
    <3>1. conn[n].job \in Requests /\ conn[n].ok \in BOOLEAN
      BY <1>0, <1>4, RepliesDoes, HandlerParts
    <3>2. e \in Messages /\ e.kind = "reply"
      BY <3>1, Replying
    <3> HIDE DEF e
    <3>3. down' = down \/ down' = Append(down, Reply(conn[n].job, conn[n].ok))
      BY <1>0, <1>4, RepliesDoes
    <3> QED BY <3>2, <3>3 DEF e
  <2> HIDE DEF e
  <2>3. CASE down' = Append(down, e)
    <3>1. \A t \in {"state", "meta"} : e.kind # t
      BY <2>2
    <3> QED BY <1>0, <1>1, <2>1, <2>2, <2>3, <3>1, EndsAdded
  <2> QED BY <1>b, <2>1, <2>2, <2>3
<1>5. ASSUME Notification  PROVE Goal
  <2>1. cache' = cache /\ conn' = conn
    BY <1>5 DEF Notification
  <2>2. Open(link)
    BY <1>0, <2>1 DEF Open
  <2>3. \/ /\ told' = [told EXCEPT !.state = held.state + 1]
           /\ down' = IF HasClient THEN Append(down, StateEvent(held.state + 1)) ELSE down
        \/ UNCHANGED <<told, down>>
    BY <1>0, <1>5, NotificationDoes
  <2>4. /\ StateEvent(held.state + 1) \in Messages /\ StateEvent(held.state + 1).kind = "state"
        /\ StateEvent(held.state + 1).val = held.state + 1
    BY <1>0, Events
  <2> QED BY <1>1, <1>a, <1>b, <2>1, <2>2, <2>3, <2>4
<1>6. ASSUME MetadataRead  PROVE Goal
  <2>1. cache' = cache /\ conn' = conn
    BY <1>6 DEF MetadataRead
  <2>2. Open(link)
    BY <1>0, <2>1 DEF Open
  <2>3. /\ told' = [told EXCEPT !.meta = held.meta + 1]
        /\ down' = IF HasClient THEN Append(down, MetaEvent(held.meta + 1)) ELSE down
    BY <1>0, <1>6, MetadataReadDoes
  <2>4. /\ MetaEvent(held.meta + 1) \in Messages /\ MetaEvent(held.meta + 1).kind = "meta"
        /\ MetaEvent(held.meta + 1).val = held.meta + 1
    BY <1>0, Events
  <2> QED BY <1>1, <1>a, <2>1, <2>2, <2>3, <2>4
<1>7. ASSUME ReadEvent \/ ReadReply  PROVE Goal
  <2>1. told' = told /\ conn' = conn
    BY <1>7 DEF ReadEvent, ReadReply
  <2>2. Open(link)
    BY <1>0, <2>1 DEF Open
  <2>3. /\ down # <<>> /\ down' = Tail(down)
        /\ \/ down[1].kind \in {"state", "meta"} /\ cache' = [cache EXCEPT ![down[1].kind] = down[1].val]
           \/ down[1].kind = "reply" /\ cache' = cache
    BY <1>0, <1>7, ReadEventDoes, ReadReplyDoes DEF ReadReply
  <2>4. \A t \in {"state", "meta"} :
          cache'[t] = IF down[1].kind = t THEN down[1].val ELSE cache[t]
    BY <1>0, <2>3
  <2> QED BY <1>0, <1>1, <2>1, <2>2, <2>3, <2>4, EndsTaken
<1>8. ASSUME UNCHANGED <<cache, told, down>>, ~(\E n \in Conns : Attaches(n))  PROVE Goal
  BY <1>0, <1>b, <1>8
<1>9. ASSUME HubEnds \/ Connects \/ ReadEnd  PROVE Goal
  BY <1>0, <1>9, ConnectsDoes DEF HubEnds, ReadEnd, Connects
<1> HIDE DEF Goal
<1>10. ASSUME \/ \E n \in Conns : Refuses(n) \/ HandlerEnds(n)
              \/ DaemonEnds \/ DaemonBoots \/ HubBoots \/ Reconnects \/ WatcherStep \/ UNCHANGED vars
              \/ \E r \in Requests : Send(r) \/ Expires(r) \/ Resumes(r)
       PROVE  UNCHANGED <<cache, told, down>>
  BY <1>10 DEF vars, Refuses, HandlerEnds, DaemonEnds, DaemonBoots, HubBoots, Send, Reconnects,
     Expires, Resumes, WatcherStep, Opens, Subscribes, Delivers, Leaves
<1>11. Goal
  BY <1>2, <1>3, <1>4, <1>5, <1>6, <1>7, <1>8, <1>9, <1>10 DEF Next, HandlerStep, ReadStep,
     WatcherStep
<1> QED BY <1>11 DEF Goal

\* Once the daemon's handler runs, what the hub has cached or will read last
\* is what the daemon told last, whatever was sent, broadcast or lost before.
THEOREM CacheHolds == Spec => []CacheFollows
<1>1. Init => ToldArrives
  BY DEF Init, ToldArrives
<1>2. TypeInv /\ ToldArrives => CacheFollows
  BY EndsArrives DEF TypeInv, TypeOK, ToldArrives, CacheFollows
<1> QED BY <1>1, <1>2, TypeInit, TypeStep, ToldStep, PTL DEF Spec

-----------------------------------------------------------------------------
\* The WebSockets follow the cache.

\* What a WebSocket that shows s and has the queue q will show in the end.
ShownLast(s, q) == IF q = <<>> THEN s ELSE q[Len(q)]

LEMMA LastShown ==
  ASSUME NEW s \in Nat, NEW q \in Seq(Nat)
  PROVE  Last(<<s>> \o q) = ShownLast(s, q)
<1>1. <<s>> \in Seq(Nat) /\ Len(<<s>>) = 1 /\ <<s>>[1] = s /\ Len(q) \in Nat
  BY LenProperties
<1>2. /\ Len(<<s>> \o q) = Len(q) + 1
      /\ \A i \in 1 .. Len(q) + 1 : (<<s>> \o q)[i] = IF i =< 1 THEN <<s>>[i] ELSE q[i - 1]
  BY <1>1, ConcatProperties
<1>3. q = <<>> <=> Len(q) = 0
  BY EmptySeq, <1>1
<1>4. Len(q) + 1 \in 1 .. Len(q) + 1 /\ (Len(q) + 1) - 1 = Len(q)
  BY <1>1
<1>5. Last(<<s>> \o q) = (<<s>> \o q)[Len(q) + 1]
  BY <1>2 DEF Last
<1> QED BY <1>1, <1>2, <1>3, <1>4, <1>5 DEF ShownLast

\* What WatcherFollows says of one of them.
FollowsNow(h, c) ==
  h.pc = "streaming" => \/ ShownLast(h.shown, h.queue) = c
                        \/ h.queue = <<>> /\ h.missed

Following == \A w \in Watchers : FollowsNow(watch[w], cache.state)

WatchInv == TypeInv /\ Following /\ OpeningEmpty

\* One more version in the queue is what it will show last.
LEMMA ShownAdded ==
  ASSUME NEW s \in Nat, NEW q \in Seq(Nat), NEW v \in Nat
  PROVE  ShownLast(s, Append(q, v)) = v
<1>1. /\ Len(Append(q, v)) = Len(q) + 1 /\ Len(q) \in Nat /\ Append(q, v)[Len(q) + 1] = v
      /\ Append(q, v) \in Seq(Nat)
  BY EnqueueAdds
<1>2. Append(q, v) # <<>>
  BY <1>1, EmptySeq
<1> QED BY <1>1, <1>2 DEF ShownLast

\* Showing the first version of the queue leaves what it will show last.
LEMMA ShownTaken ==
  ASSUME NEW s \in Nat, NEW q \in Seq(Nat), q # <<>>
  PROVE  ShownLast(Head(q), Tail(q)) = ShownLast(s, q)
<1> DEFINE p == Tail(q)
<1>1. /\ Head(q) = q[1] /\ Len(q) \in Nat \ {0} /\ Len(p) = Len(q) - 1 /\ p \in Seq(Nat)
      /\ \A i \in 1 .. Len(q) - 1 : p[i] = q[i + 1]
  BY TailShifts
<1> HIDE DEF p
<1>2. p = <<>> <=> Len(p) = 0
  BY <1>1, EmptySeq
<1>3. CASE Len(p) = 0
  BY <1>1, <1>2, <1>3 DEF ShownLast, p
<1>4. CASE Len(p) # 0
  <2>1. Len(p) \in 1 .. Len(q) - 1 /\ p[Len(p)] = q[Len(q)]
    BY <1>1, <1>4
  <2> QED BY <1>2, <1>4, <2>1 DEF ShownLast, p
<1> QED BY <1>3, <1>4

LEMMA WatchStep ==
  ASSUME WatchInv, [Next]_vars
  PROVE  WatchInv'
<1> USE DEF server, proxy, calls, effects
<1>0. /\ TypeInv /\ TypeOK /\ TypeInv' /\ OpeningEmpty
      /\ \A w \in Watchers : FollowsNow(watch[w], cache.state) /\ watch[w] \in WatcherType
      /\ \A w \in Watchers : watch[w].shown \in Nat /\ watch[w].queue \in Seq(Nat)
  BY TypeStep DEF WatchInv, Following, TypeInv, TypeOK, WatcherType
<1> DEFINE Fine(w) == /\ FollowsNow(watch[w], cache.state)
                      /\ watch[w].pc = "opening" => watch[w].queue = <<>>
<1>g. SUFFICES ASSUME NEW w \in Watchers  PROVE Fine(w)'
  BY <1>0 DEF WatchInv, Following, OpeningEmpty
<1>1. Fine(w)
  BY <1>0 DEF OpeningEmpty
<1> HIDE DEF Fine
<1>2. ASSUME watch'[w] = watch[w], cache'.state = cache.state  PROVE Fine(w)'
  BY <1>1, <1>2 DEF Fine
<1>3. CASE HubEnds
  BY <1>3 DEF HubEnds, NoWatcher, Fine, FollowsNow
<1>4. CASE ReadEvent
  <2>1. /\ down[1] \in Messages /\ down[1].kind \in {"state", "meta"}
        /\ cache' = [cache EXCEPT ![down[1].kind] = down[1].val]
        /\ IF down[1].kind = "state" /\ watch[w].pc = "streaming"
           THEN Shows(w, "streaming", watch[w].shown, Append(watch[w].queue, down[1].val),
                      watch[w].missed)
           ELSE watch'[w] = watch[w]
    BY <1>0, <1>4, ReadEventDoes
  <2>2. down[1].val \in Nat
    BY <2>1, MessageParts
  <2>3. CASE down[1].kind = "state" /\ watch[w].pc = "streaming"
    <3>1. ShownLast(watch'[w].shown, watch'[w].queue) = down[1].val /\ watch'[w].pc = "streaming"
      <4>1. /\ watch'[w].shown = watch[w].shown /\ watch'[w].pc = "streaming"
            /\ watch'[w].queue = Append(watch[w].queue, down[1].val)
        BY <2>1, <2>3 DEF Shows
      <4> QED BY <1>0, <2>2, <4>1, ShownAdded
    <3>2. cache'.state = down[1].val
      BY <1>0, <2>1, <2>3 DEF TypeOK
    <3> QED BY <3>1, <3>2 DEF Fine, FollowsNow
  <2>4. CASE down[1].kind = "state" /\ watch[w].pc # "streaming"
    BY <1>1, <2>1, <2>4 DEF Fine, FollowsNow
  <2>5. CASE down[1].kind = "meta"
    <3>1. cache'.state = cache.state
      BY <1>0, <2>1, <2>5 DEF TypeOK
    <3> QED BY <1>2, <2>1, <2>5, <3>1
  <2> QED BY <2>1, <2>3, <2>4, <2>5
<1>5. ASSUME NEW v \in Watchers, Opens(v)  PROVE Fine(w)'
  BY <1>0, <1>2, <1>5, OpensDoes DEF Shows, Fine, FollowsNow, Opens
<1>6. ASSUME NEW v \in Watchers, Subscribes(v)  PROVE Fine(w)'
  <2>1. /\ Shows(v, "streaming", watch[v].shown, watch[v].queue, watch[v].shown # cache.state)
        /\ watch[v].queue = <<>> /\ (w # v => watch'[w] = watch[w]) /\ cache' = cache
    BY <1>0, <1>6, SubscribesDoes DEF OpeningEmpty, Subscribes
  <2>2. ShownLast(watch'[v].shown, watch'[v].queue) = watch[v].shown
    BY <2>1 DEF Shows, ShownLast
  <2>3. CASE w = v
    <3>1. watch'[v].queue = <<>> /\ (watch[v].shown # cache.state => watch'[v].missed)
          /\ watch'[v].pc = "streaming"
      BY <2>1 DEF Shows
    <3> QED BY <2>1, <2>2, <2>3, <3>1 DEF Fine, FollowsNow
  <2> QED BY <1>2, <2>1, <2>3
<1>7. ASSUME NEW v \in Watchers, Delivers(v)  PROVE Fine(w)'
  <2>1. /\ Shows(v, "streaming", Head(watch[v].queue), Tail(watch[v].queue), FALSE)
        /\ watch[v].pc = "streaming" /\ watch[v].queue # <<>>
        /\ (w # v => watch'[w] = watch[w]) /\ cache' = cache
    BY <1>0, <1>7, DeliversDoes DEF Delivers
  <2>2. CASE w = v
    <3>1. ShownLast(watch[w].shown, watch[w].queue) = cache.state
      BY <1>0, <2>1, <2>2 DEF FollowsNow
    <3>2. ShownLast(watch'[w].shown, watch'[w].queue) = cache.state
      BY <1>0, <2>1, <2>2, <3>1, ShownTaken DEF Shows
    <3> QED BY <2>1, <2>2, <3>2 DEF Fine, FollowsNow, Shows
  <2> QED BY <1>2, <2>1, <2>2
<1>8. ASSUME NEW v \in Watchers, Leaves(v)  PROVE Fine(w)'
  BY <1>0, <1>2, <1>8, LeavesDoes DEF NoWatcher, Fine, FollowsNow, Leaves
<1>9. ASSUME ~HubEnds, ~ReadEvent, HubStep  PROVE Fine(w)'
  <2>1. UNCHANGED <<watch, cache>>
    BY <1>9 DEF HubStep, HubBoots, Connects, ReadReply, ReadEnd, Reconnects, Expires, Resumes
  <2> QED BY <1>2, <2>1
<1>10. ASSUME DaemonStep \/ (\E r \in Requests : Send(r)) \/ UNCHANGED vars  PROVE Fine(w)'
  <2>1. UNCHANGED <<watch, cache>>
    BY <1>10, DaemonLeaves DEF Send, vars
  <2> QED BY <1>2, <2>1
<1> QED BY <1>3, <1>4, <1>5, <1>6, <1>7, <1>8, <1>9, <1>10, Steps DEF WatcherStep

\* An open WebSocket will last of all show the state that the hub has, but for
\* a change between its first message and its subscription.
THEOREM WatcherHolds == Spec => []WatcherFollows
<1>1. Init => WatchInv
  BY TypeInit DEF Init, WatchInv, Following, FollowsNow, OpeningEmpty, NoWatcher
<1>2. ASSUME WatchInv  PROVE WatcherFollows
  <2>1. \A w \in Watchers : /\ watch[w].shown \in Nat /\ watch[w].queue \in Seq(Nat)
                            /\ FollowsNow(watch[w], cache.state)
    BY <1>2 DEF WatchInv, TypeInv, TypeOK, WatcherType, Following
  <2> QED BY <2>1, LastShown DEF WatcherFollows, FollowsNow
<1> QED BY <1>1, <1>2, WatchStep, PTL DEF Spec

=============================================================================
