---------------------------- MODULE BleLinkProofs ----------------------------
(***************************************************************************)
(* Proofs about the daemon's link.  That connections stay within their     *)
(* bound is an account: every connection that ended was paid for by a      *)
(* drop, a mute, a restart or a failure, and a state that will end one     *)
(* more (Debt) has been paid for in advance.  That the queue is served     *)
(* rests on what holds of the one live connection: it is the last one, the *)
(* manager's once connect() took it over, and its worker appears when      *)
(* connect() ends.                                                         *)
(***************************************************************************)
EXTENDS BleLinkProps, QueueLemmas

Connecting == {"subscribing", "subscribed", "reading", "asking", "settling"}

\* Connections that are over, and whether another may end unpaid: a SIGTERM, the
\* watchdog on its way, or a silence it will find when the device is back.
Ended == IF live = 0 THEN conns ELSE conns - 1

Debt ==
  IF \/ ordered \/ proc \in {"closing", "leaving"} \/ heard = "stale"
     \/ heard = "fresh" /\ (~Sounding \/ pc \in {"searching", "subscribing"})
  THEN 1 ELSE 0

Bill(s) == 2 * s.drops + s.mutes + s.restarts + s.failures

Paid == Ended + Debt =< Bill(spent)

\* The process and connect().
Started ==
  /\ proc = "down" => pc = "off" /\ heard = "never" /\ ~ordered
  /\ proc \in {"starting", "up", "closing"} => pc \notin {"off", "ended"}

\* The connection the radio holds is the last one, and the manager's when
\* connect() has taken it over.
Held ==
  /\ live # 0 => live = conns /\ ~losing
  /\ pc \in {"off", "searching"} => live = 0
  /\ pc \in {"off", "searching", "subscribing", "subscribed"} => ~connected
  /\ pc \in Connecting => attempt = conns
  /\ live # 0 /\ pc \in {"reading", "asking", "settling", "watching"} =>
       connected /\ client = live

Base == TypeOK /\ Paid /\ Started /\ Held

-----------------------------------------------------------------------------
\* What a drop, a mute, a restart and a failure add to the bill.
LEMMA Bills ==
  ASSUME TypeOK
  PROVE  /\ Bill(spent) \in Nat
         /\ Bill([spent EXCEPT !.drops = @ + 1]) = Bill(spent) + 2
         /\ Bill([spent EXCEPT !.mutes = @ + 1]) = Bill(spent) + 1
         /\ Bill([spent EXCEPT !.restarts = @ + 1]) = Bill(spent) + 1
         /\ Bill([spent EXCEPT !.failures = @ + 1]) = Bill(spent) + 1
<1>1. spent \in [drops : Nat, mutes : Nat, restarts : Nat, failures : Nat]
  BY BleLinkAssumption DEF TypeOK
<1>2. Bill(spent) \in Nat
  BY <1>1 DEF Bill
<1>3. Bill([spent EXCEPT !.drops = @ + 1]) = Bill(spent) + 2
  BY <1>1 DEF Bill
<1>4. Bill([spent EXCEPT !.mutes = @ + 1]) = Bill(spent) + 1
  BY <1>1 DEF Bill
<1>5. Bill([spent EXCEPT !.restarts = @ + 1]) = Bill(spent) + 1
  BY <1>1 DEF Bill
<1>6. Bill([spent EXCEPT !.failures = @ + 1]) = Bill(spent) + 1
  BY <1>1 DEF Bill
<1>7. QED
  BY <1>2, <1>3, <1>4, <1>5, <1>6

\* The steps, by what they are part of.
ManagerStep == SearchFails \/ SubscribeAnswers \/ TakesOver \/ InitialReads
                 \/ CreatesWorker \/ Reconnects
RadioStep == LossNoticed \/ DeviceReturns \/ Notification \/ Silence
ProcessStep == Boot \/ WatchdogFires \/ HubAttaches \/ HubDetaches \/ ServerCloses

\* No step ends a connection that was not paid for.
LEMMA PaidStep ==
  ASSUME Base, [Next]_vars
  PROVE  Paid'
<1> USE DEF radio, manager, commands, watch, process
<1> DEFINE Same == Ended' = Ended /\ (Debt = 1 \/ Debt' = 0)
           OneMore == Ended' \in {Ended, Ended + 1} /\ (Debt' = 0 \/ Ended' = Ended)
<1>0. conns \in Nat /\ Ended \in Int /\ Debt \in {0, 1} /\ Debt' \in {0, 1}
  <2>1. conns \in Nat
    BY DEF Base, TypeOK, Links
  <2>2. QED
    BY <2>1 DEF Ended, Debt
<1>1. ASSUME Same, spent' = spent PROVE Paid'
  BY <1>0, <1>1, Bills DEF Base, Paid
<1>2. ASSUME OneMore, \/ spent' = [spent EXCEPT !.mutes = @ + 1]
                      \/ spent' = [spent EXCEPT !.restarts = @ + 1]
                      \/ spent' = [spent EXCEPT !.failures = @ + 1]
      PROVE  Paid'
  BY <1>0, <1>2, Bills DEF Base, Paid
<1>3. CASE SearchFails \/ CreatesWorker
  <2>1. Same
    BY <1>3 DEF SearchFails, CreatesWorker, ConnectRaises, ConnectReturns, Sounding,
      Ended, Debt, Base, Started, Held
  <2>2. QED
    BY <1>1, <1>3, <2>1 DEF SearchFails, CreatesWorker
<1>4. CASE SearchFinds
  <2>1. Same
    BY <1>0, <1>4 DEF SearchFinds, Sounding, Ended, Debt
  <2>2. QED
    BY <1>1, <1>4, <2>1 DEF SearchFinds
<1>5. CASE SubscribeAnswers \/ TakesOver \/ InitialReads \/ Reconnects
  <2>1. Same
    BY <1>5 DEF SubscribeAnswers, TakesOver, InitialReads, Reconnects, Sounding,
      Ended, Debt, Base, TypeOK, Started, Held
  <2>2. QED
    BY <1>1, <1>5, <2>1 DEF SubscribeAnswers, TakesOver, InitialReads, Reconnects
<1>6. CASE SubscribeFails
  <2>1. CASE live # attempt /\ UNCHANGED spent
    <3>1. Same
      BY <1>6, <2>1 DEF SubscribeFails, ConnectRaises, ConnectReturns, Sounding,
        Ended, Debt, Base, Started, Held, Connecting
    <3>2. QED
      BY <1>1, <2>1, <3>1
  <2>2. CASE spent' = [spent EXCEPT !.failures = @ + 1]
    <3>1. Ended' \in {Ended, Ended + 1}
      BY <1>0, <1>6 DEF SubscribeFails, Ended, Base, TypeOK
    <3>2. Debt = 1 \/ Debt' = 0
      BY <1>6 DEF SubscribeFails, ConnectRaises, ConnectReturns, Sounding, Debt
    <3>3. QED
      BY <1>0, <2>2, <3>1, <3>2, Bills DEF Base, Paid
  <2>3. QED
    BY <1>6, <2>1, <2>2 DEF SubscribeFails, FailsOn
<1>7. ASSUME NEW w \in Links, WorkerStep(w) PROVE Paid'
  <2>1. Same
    BY <1>7 DEF WorkerStep, WorkerTakes, WriteReaches, WriteReturns, WriteFails,
      Sounding, Ended, Debt
  <2>2. spent' = spent \/ spent' = [spent EXCEPT !.failures = @ + 1]
    BY <1>7 DEF WorkerStep, WorkerTakes, WriteReaches, WriteReturns, WriteFails, FailsOn
  <2>3. QED
    BY <1>0, <1>1, <2>1, <2>2, Bills DEF Base, Paid
<1>8. CASE EnqueueCommand \/ LossNoticed \/ DeviceReturns \/ UNCHANGED vars
  <2>1. Same
    BY <1>8 DEF EnqueueCommand, LossNoticed, DeviceReturns, vars, Sounding, Ended, Debt
  <2>2. QED
    BY <1>1, <1>8, <2>1 DEF EnqueueCommand, LossNoticed, DeviceReturns, vars
<1>9. CASE Notification \/ Silence
  <2>1. Same
    BY <1>9 DEF Notification, Silence, Sounding, Ended, Debt, Base, Started, Held
  <2>2. QED
    BY <1>1, <1>9, <2>1 DEF Notification, Silence
<1>10. CASE ProcessStep
  <2>1. Same
    BY <1>10 DEF ProcessStep, Boot, WatchdogFires, HubAttaches, HubDetaches, ServerCloses,
      Sounding, Ended, Debt, Base, Started, Held
  <2>2. QED
    BY <1>1, <1>10, <2>1 DEF ProcessStep, Boot, WatchdogFires, HubAttaches, HubDetaches,
      ServerCloses
<1>11. CASE LinkDrops
  <2>1. Ended' = Ended + 1
    BY <1>0, <1>11 DEF LinkDrops, Ended
  <2>2. QED
    BY <1>0, <1>11, <2>1, Bills DEF LinkDrops, Base, Paid
<1>12. CASE GoesMute
  <2>1. Ended' = Ended
    BY <1>12 DEF GoesMute, Ended
  <2>2. QED
    BY <1>2, <1>12, <2>1 DEF GoesMute
<1>13. ASSUME ProcessEnds PROVE OneMore /\ Debt' = 0
  <2>1. conns' = conns /\ live' = 0
    BY <1>13 DEF ProcessEnds
  <2>2. Ended' \in {Ended, Ended + 1}
    BY <1>0, <2>1 DEF Ended
  <2>3. Debt' = 0
    BY <1>13 DEF ProcessEnds, Debt
  <2>4. QED
    BY <2>2, <2>3
<1>14. CASE Crash
  BY <1>2, <1>13, <1>14 DEF Crash
<1>15. CASE Terminate
  <2>1. CASE ProcessEnds
    BY <1>2, <1>13, <1>15, <2>1 DEF Terminate
  <2>2. CASE UNCHANGED <<live, conns>>
    <3>1. Ended' = Ended
      BY <2>2 DEF Ended
    <3>2. QED
      BY <1>2, <1>15, <3>1 DEF Terminate
  <2>3. QED
    BY <1>15, <2>1, <2>2 DEF Terminate
<1>16. CASE Exit \/ Kill
  <2>1. Debt = 1
    BY <1>16 DEF Exit, Kill, Debt
  <2>2. ProcessEnds /\ spent' = spent
    BY <1>16 DEF Exit, Kill
  <2>3. QED
    BY <1>0, <1>13, <2>1, <2>2, Bills DEF Base, Paid
<1>17. QED
  BY <1>3, <1>4, <1>5, <1>6, <1>7, <1>8, <1>9, <1>10, <1>11, <1>12, <1>14, <1>15, <1>16
  DEF Next, ConnectStep, ProcessStep

\* Every step keeps the process, connect() and the connection in step.
LEMMA HeldStep ==
  ASSUME Base, [Next]_vars
  PROVE  Started' /\ Held'
<1> USE DEF radio, manager, commands, watch, process, Started, Held, Connecting
<1>0. TypeOK
  BY DEF Base
<1>1. CASE ManagerStep
  BY <1>1 DEF ManagerStep, SearchFails, SubscribeAnswers, TakesOver,
    InitialReads, CreatesWorker, Reconnects, ConnectRaises, ConnectReturns, Base, TypeOK
<1>2. CASE SearchFinds \/ SubscribeFails
  BY <1>2 DEF SearchFinds, SubscribeFails, ConnectRaises, ConnectReturns, Base, TypeOK
<1>3. ASSUME NEW w \in Links, WorkerStep(w) PROVE Started' /\ Held'
  BY <1>3 DEF WorkerStep, WorkerTakes, WriteReaches, WriteReturns, WriteFails, Base
<1>4. CASE EnqueueCommand \/ RadioStep \/ LinkDrops \/ GoesMute
  <2>1. CASE EnqueueCommand \/ DeviceReturns
    BY <2>1 DEF EnqueueCommand, DeviceReturns, Base
  <2>2. CASE LossNoticed
    BY <2>2 DEF LossNoticed, Base
  <2>3. CASE Notification \/ Silence
    BY <2>3 DEF Notification, Silence, Sounding, Base
  <2>4. CASE LinkDrops \/ GoesMute
    BY <2>4 DEF LinkDrops, GoesMute, Base
  <2>5. QED
    BY <1>4, <2>1, <2>2, <2>3, <2>4 DEF RadioStep
<1>5. CASE ProcessStep \/ UNCHANGED vars
  BY <1>5 DEF ProcessStep, Boot, WatchdogFires, HubAttaches, HubDetaches, ServerCloses,
    vars, Base
<1>6. CASE Crash \/ Terminate \/ Exit \/ Kill
  BY <1>6 DEF Crash, Terminate, Exit, Kill, ProcessEnds, Base
<1>7. QED
  BY <1>1, <1>2, <1>3, <1>4, <1>5, <1>6
  DEF Next, ConnectStep, ManagerStep, RadioStep, ProcessStep

\* A worker's records.
LEMMA WorkerTypes ==
  /\ NoWorker \in WorkerType /\ Idle \in WorkerType /\ Dead \in WorkerType
  /\ NoWorker.pc = "none" /\ Idle.pc = "idle" /\ Dead.pc = "dead"
  /\ \A k \in WorkerType, p \in {"writing", "answered"} :
       k.pc \in {"writing", "answered"} =>
         /\ [k EXCEPT !.pc = p] \in WorkerType
         /\ [k EXCEPT !.pc = p].pc = p /\ [k EXCEPT !.pc = p].cmd = k.cmd
         /\ [k EXCEPT !.pc = p].conn = k.conn
         /\ k.cmd \in Commands /\ k.conn \in Links
  /\ \A c \in Commands, n \in Links :
       [pc |-> "writing", cmd |-> c, conn |-> n] \in WorkerType
<1>1. ASSUME NEW k \in WorkerType, NEW p \in {"writing", "answered"},
             k.pc \in {"writing", "answered"}
      PROVE  /\ [k EXCEPT !.pc = p] \in WorkerType
             /\ [k EXCEPT !.pc = p].pc = p /\ [k EXCEPT !.pc = p].cmd = k.cmd
             /\ [k EXCEPT !.pc = p].conn = k.conn
             /\ k.cmd \in Commands /\ k.conn \in Links
  <2>1. k \in [pc : {"writing", "answered"}, cmd : Commands, conn : Links]
    BY <1>1 DEF WorkerType
  <2>2. QED
    BY <2>1 DEF WorkerType
<1>2. QED
  BY <1>1 DEF WorkerType, NoWorker, Idle, Dead

\* What a worker's step does to the worker.
LEMMA WorkerMoves ==
  ASSUME TypeOK, NEW w \in Links, WorkerStep(w)
  PROVE  /\ worker' \in [Links -> WorkerType]
         /\ \A n \in Links \ {w} : worker'[n] = worker[n]
         /\ worker[w].pc \notin {"none", "dead"} /\ worker'[w].pc # "none"
         /\ queue' \in Seq(Commands) /\ written' \in Seq(Commands)
<1>0. /\ worker \in [Links -> WorkerType] /\ worker[w] \in WorkerType
      /\ queue \in Seq(Commands) /\ written \in Seq(Commands)
  BY DEF TypeOK
<1>1. CASE WorkerTakes(w)
  <2>1. Head(queue) \in Commands /\ Tail(queue) \in Seq(Commands)
    BY <1>0, <1>1, TailShifts DEF WorkerTakes
  <2>2. connected => client \in Links
    <3>1. conns \in Links \/ conns = 0
      BY DEF TypeOK
    <3>2. connected => client \in 1 .. conns
      BY <3>1 DEF TypeOK, Links
    <3>3. QED
      BY <3>1, <3>2, BleLinkAssumption DEF Links
  <2>3. BeginsWrite \in WorkerType /\ BeginsWrite.pc # "none"
    BY <2>1, <2>2, WorkerTypes DEF BeginsWrite
  <2>4. QED
    BY <1>0, <1>1, <2>1, <2>3 DEF WorkerTakes
<1>2. CASE WriteReaches(w)
  <2>1. worker' = [worker EXCEPT ![w] = [worker[w] EXCEPT !.pc = "answered"]]
        /\ worker[w].pc = "writing" /\ queue' = queue
        /\ written' = Append(written, worker[w].cmd)
    BY <1>2 DEF WriteReaches
  <2>2. QED
    BY <1>0, <2>1, WorkerTypes, EnqueueAdds
<1>3. CASE WriteReturns(w)
  BY <1>0, <1>3, WorkerTypes DEF WriteReturns
<1>4. CASE WriteFails(w)
  BY <1>0, <1>4, WorkerTypes DEF WriteFails
<1>5. QED
  BY <1>1, <1>2, <1>3, <1>4 DEF WorkerStep

\* Nothing is spent beyond its bound.
LEMMA SpentStep ==
  ASSUME TypeOK, [Next]_vars
  PROVE  spent' \in [drops : 0 .. MaxDrops, mutes : 0 .. MaxMutes,
                     restarts : 0 .. MaxRestarts, failures : 0 .. MaxFailures]
<1>1. \/ spent' = spent
      \/ spent.drops < MaxDrops /\ spent' = [spent EXCEPT !.drops = @ + 1]
      \/ spent.mutes < MaxMutes /\ spent' = [spent EXCEPT !.mutes = @ + 1]
      \/ spent.restarts < MaxRestarts /\ spent' = [spent EXCEPT !.restarts = @ + 1]
      \/ spent.failures < MaxFailures /\ spent' = [spent EXCEPT !.failures = @ + 1]
  BY DEF Next, ConnectStep, WorkerStep, vars, FailsOn, SearchFails, SearchFinds,
    SubscribeAnswers, SubscribeFails, TakesOver, InitialReads, CreatesWorker, Reconnects,
    EnqueueCommand, LinkDrops, LossNoticed, DeviceReturns, GoesMute, Notification,
    Silence, Boot, Crash, WatchdogFires, Terminate, ServerCloses, Exit, Kill,
    HubAttaches, HubDetaches, WorkerTakes, WriteReaches, WriteReturns, WriteFails
<1>2. spent \in [drops : 0 .. MaxDrops, mutes : 0 .. MaxMutes,
                 restarts : 0 .. MaxRestarts, failures : 0 .. MaxFailures]
  BY DEF TypeOK
<1>3. QED
  BY <1>1, <1>2, BleLinkAssumption

\* The bill leaves room for another connection.
LEMMA RoomForAnother ==
  ASSUME Base, live = 0
  PROVE  conns + 1 \in Links /\ conns \in Nat
<1>1. /\ spent.drops \in 0 .. MaxDrops /\ spent.mutes \in 0 .. MaxMutes
      /\ spent.restarts \in 0 .. MaxRestarts /\ spent.failures \in 0 .. MaxFailures
  BY DEF Base, TypeOK
<1>2. conns \in Nat /\ Debt \in Nat
  BY DEF Base, TypeOK, Links, Debt
<1>3. conns + Debt =< 2 * spent.drops + spent.mutes + spent.restarts + spent.failures
  BY DEF Base, Paid, Ended, Bill
<1>4. QED
  BY <1>1, <1>2, <1>3, BleLinkAssumption DEF Links

\* Every step keeps the types; only SearchFinds needs the account.
LEMMA TypeStep ==
  ASSUME Base, [Next]_vars
  PROVE  TypeOK'
<1> USE DEF radio, manager, commands, watch, process
<1>0. TypeOK /\ Held /\ Started
  BY DEF Base
<1>s. spent' \in [drops : 0 .. MaxDrops, mutes : 0 .. MaxMutes,
                  restarts : 0 .. MaxRestarts, failures : 0 .. MaxFailures]
  BY <1>0, SpentStep
<1>w. [w \in Links |-> NoWorker] \in [Links -> WorkerType]
  BY WorkerTypes
<1>z. 0 \in 0 .. conns
  BY <1>0 DEF TypeOK, Links
<1>1. CASE SearchFails
  BY <1>0, <1>s, <1>z, <1>1 DEF SearchFails, ConnectRaises, ConnectReturns, TypeOK
<1>u. CASE SubscribeFails
  <2>1. ~connected
    BY <1>0, <1>u DEF SubscribeFails, Held
  <2>2. QED
    BY <1>0, <1>s, <1>z, <1>u, <2>1 DEF SubscribeFails, ConnectRaises, ConnectReturns, TypeOK
<1>2. CASE SearchFinds
  <2>1. conns' = conns + 1 /\ conns' \in Links /\ conns \in Nat
    BY <1>2, RoomForAnother DEF SearchFinds
  <2>2. /\ live' \in 0 .. conns' /\ attempt' \in 0 .. conns' /\ client' \in 0 .. conns'
        /\ handle' \in 0 .. conns' /\ attempt' # 0
    BY <1>0, <1>2, <2>1 DEF SearchFinds, TypeOK
  <2>3. QED
    BY <1>0, <1>s, <1>2, <2>1, <2>2 DEF SearchFinds, TypeOK
<1>3. CASE SubscribeAnswers \/ InitialReads \/ Reconnects
  <2>1. CASE SubscribeAnswers
    BY <1>0, <1>s, <2>1 DEF SubscribeAnswers, TypeOK
  <2>2. CASE InitialReads
    BY <1>0, <1>s, <2>2 DEF InitialReads, TypeOK
  <2>3. CASE Reconnects
    BY <1>0, <1>s, <2>3 DEF Reconnects, TypeOK
  <2>4. QED
    BY <1>3, <2>1, <2>2, <2>3
<1>t. CASE TakesOver
  BY <1>0, <1>s, <1>t DEF TakesOver, TypeOK
<1>4. CASE CreatesWorker
  <2>1. worker' \in [Links -> WorkerType]
    BY <1>0, <1>4, WorkerTypes DEF CreatesWorker, TypeOK
  <2>2. QED
    BY <1>0, <1>s, <1>4, <2>1 DEF CreatesWorker, ConnectReturns, TypeOK
<1>5. CASE EnqueueCommand
  <2>1. accepted' \in 0 .. MaxCmds /\ accepted + 1 \in Commands
    BY <1>0, <1>5, BleLinkAssumption DEF EnqueueCommand, TypeOK, Commands
  <2>2. queue' \in Seq(Commands)
    BY <1>0, <1>5, <2>1, EnqueueAdds DEF EnqueueCommand, Enqueues, TypeOK
  <2>3. QED
    BY <1>0, <1>s, <1>5, <2>1, <2>2 DEF EnqueueCommand, TypeOK
<1>6. ASSUME NEW w \in Links, WorkerStep(w) PROVE TypeOK'
  <2>1. /\ worker' \in [Links -> WorkerType] /\ queue' \in Seq(Commands)
        /\ written' \in Seq(Commands)
    BY <1>0, <1>6, WorkerMoves
  <2>2. UNCHANGED <<radio, manager, handle, accepted, watch, process>>
    BY <1>6 DEF WorkerStep, WorkerTakes, WriteReaches, WriteReturns, WriteFails
  <2>3. QED
    BY <1>0, <1>s, <2>1, <2>2 DEF TypeOK
<1>7. CASE RadioStep
  <2>1. CASE LossNoticed
    <3>1. losing' \in BOOLEAN /\ connected' \in BOOLEAN /\ ~connected'
      BY <2>1, Zenon DEF LossNoticed
    <3>2. QED
      BY <1>0, <1>s, <2>1, <3>1 DEF LossNoticed, TypeOK
  <2>2. CASE DeviceReturns
    BY <1>0, <1>s, <2>2 DEF DeviceReturns, TypeOK
  <2>3. CASE Notification
    <3>1. silent' \in BOOLEAN
      BY <2>3, Zenon DEF Notification
    <3>2. QED
      BY <1>0, <1>s, <2>3, <3>1 DEF Notification, TypeOK
  <2>4. CASE Silence
    BY <1>0, <1>s, <2>4 DEF Silence, TypeOK
  <2>5. QED
    BY <1>7, <2>1, <2>2, <2>3, <2>4 DEF RadioStep
<1>8. CASE LinkDrops
  <2>1. mute' \in BOOLEAN /\ losing' \in BOOLEAN
    BY <1>8, Zenon DEF LinkDrops
  <2>2. QED
    BY <1>0, <1>s, <1>z, <1>8, <2>1 DEF LinkDrops, TypeOK
<1>m. CASE GoesMute
  BY <1>0, <1>s, <1>m DEF GoesMute, TypeOK
<1>9. CASE Boot \/ WatchdogFires \/ HubAttaches \/ HubDetaches
  <2>1. CASE Boot
    BY <1>0, <1>s, <2>1 DEF Boot, TypeOK
  <2>2. CASE WatchdogFires
    BY <1>0, <1>s, <2>2 DEF WatchdogFires, TypeOK
  <2>3. CASE HubAttaches
    BY <1>0, <1>s, <2>3 DEF HubAttaches, TypeOK
  <2>4. CASE HubDetaches
    <3>1. attached' \in BOOLEAN
      BY <2>4, Zenon DEF HubDetaches
    <3>2. QED
      BY <1>0, <1>s, <2>4, <3>1 DEF HubDetaches, TypeOK
  <2>5. QED
    BY <1>9, <2>1, <2>2, <2>3, <2>4
<1>10. CASE ServerCloses
  <2>1. worker' \in [Links -> WorkerType]
    BY <1>0, <1>10, WorkerTypes DEF ServerCloses, TypeOK
  <2>2. QED
    BY <1>0, <1>s, <1>10, <2>1 DEF ServerCloses, TypeOK
<1>11. ASSUME ProcessEnds PROVE TypeOK'
  <2>1. conns \in Nat
    BY <1>0 DEF TypeOK, Links
  <2>2. queue' \in Seq(Commands) /\ 0 \in 0 .. conns
    BY <1>11, <2>1 DEF ProcessEnds
  <2>3. QED
    BY <1>0, <1>s, <1>w, <1>11, <2>2 DEF ProcessEnds, TypeOK
<1>12. CASE Crash \/ Exit \/ Kill
  BY <1>11, <1>12 DEF Crash, Exit, Kill
<1>13. CASE Terminate
  <2>1. CASE proc' = "closing" /\ ordered' = TRUE
             /\ UNCHANGED <<radio, manager, commands, watch, attached>>
    BY <1>0, <1>s, <2>1 DEF TypeOK
  <2>2. QED
    BY <1>11, <1>13, <2>1 DEF Terminate
<1>14. CASE UNCHANGED vars
  BY <1>0, <1>14 DEF vars, TypeOK
<1>15. QED
  BY <1>1, <1>u, <1>2, <1>3, <1>t, <1>4, <1>5, <1>6, <1>7, <1>8, <1>m, <1>9, <1>10, <1>12, <1>13, <1>14
  DEF Next, ConnectStep, RadioStep


-----------------------------------------------------------------------------
\* A connection has no worker before connect() is over.
Fresh ==
  \A n \in Links : n > conns \/ (n = conns /\ pc \in Connecting) => worker[n].pc = "none"

\* When it is, its worker lives and writes to that connection, until a write
\* fails on it.
Served ==
  spent.failures = 0 /\ live # 0 /\ pc = "watching" =>
    Alive(live) /\ (worker[live].pc # "idle" => worker[live].conn = live)

\* Before the first connection nothing is accepted.
Blank == conns = 0 => accepted = 0 /\ written = <<>> /\ queue = <<>>

\* The command the first worker is writing.
InHand == IF conns = 1 THEN Writing(1) ELSE <<>>

\* What NothingLost says, also of the connection a restarted daemon holds.
Kept ==
  /\ conns =< 1 /\ live = conns /\ proc \in {"starting", "up"}
  /\ spent.failures = 0
  => written \o InHand \o queue = [i \in 1 .. accepted |-> i]

IInv == Base /\ Fresh /\ Served /\ Blank /\ Kept

\* No worker of a connection appears before CreatesWorker.
LEMMA FreshStep ==
  ASSUME Base, Fresh, [Next]_vars
  PROVE  Fresh'
<1> USE DEF radio, manager, commands, watch, process
<1>0. TypeOK /\ Held /\ conns \in Nat /\ worker \in [Links -> WorkerType]
  BY DEF Base, TypeOK, Links
<1>1. CASE UNCHANGED <<worker, conns>> /\ (pc' \in Connecting => pc \in Connecting)
  BY <1>1 DEF Fresh
<1>2. CASE SearchFinds
  <2>1. conns' = conns + 1 /\ worker' = worker
    BY <1>2 DEF SearchFinds
  <2>2. SUFFICES ASSUME NEW n \in Links, n > conns' \/ n = conns'
                 PROVE  worker'[n].pc = "none"
    BY DEF Fresh
  <2>3. n > conns
    BY <1>0, <2>1, <2>2 DEF Links
  <2>4. QED
    BY <2>1, <2>3 DEF Fresh
<1>3. CASE CreatesWorker
  <2>1. attempt = conns /\ pc' = "watching" /\ conns' = conns
        /\ worker' = [worker EXCEPT ![attempt] = Idle]
    BY <1>0, <1>3 DEF CreatesWorker, ConnectReturns, Held, Connecting
  <2>2. SUFFICES ASSUME NEW n \in Links, n > conns PROVE worker'[n].pc = "none"
    BY <2>1 DEF Fresh, Connecting
  <2>3. worker'[n] = worker[n]
    BY <1>0, <2>1, <2>2
  <2>4. QED
    BY <2>2, <2>3 DEF Fresh
<1>4. ASSUME NEW w \in Links, WorkerStep(w) PROVE Fresh'
  <2>1. /\ \A n \in Links \ {w} : worker'[n] = worker[n]
        /\ worker[w].pc # "none"
    BY <1>0, <1>4, WorkerMoves
  <2>2. conns' = conns /\ pc' = pc
    BY <1>4 DEF WorkerStep, WorkerTakes, WriteReaches, WriteReturns, WriteFails
  <2>3. QED
    BY <2>1, <2>2 DEF Fresh
<1>5. CASE ServerCloses
  <2>1. /\ pc' = "ended" /\ conns' = conns
        /\ worker' = [n \in Links |-> IF n = handle THEN Dead ELSE worker[n]]
    BY <1>5 DEF ServerCloses
  <2>2. SUFFICES ASSUME NEW n \in Links, n > conns PROVE worker'[n].pc = "none"
    BY <2>1 DEF Fresh, Connecting
  <2>3. n # handle
    BY <1>0, <2>2 DEF TypeOK, Links
  <2>4. QED
    BY <2>1, <2>2, <2>3 DEF Fresh
<1>6. CASE ProcessEnds
  <2>1. worker' = [n \in Links |-> NoWorker]
    BY <1>6 DEF ProcessEnds
  <2>2. QED
    BY <2>1, WorkerTypes DEF Fresh
<1>7. CASE Crash \/ Exit \/ Kill
  BY <1>6, <1>7 DEF Crash, Exit, Kill
<1>8. CASE Terminate
  BY <1>1, <1>6, <1>8 DEF Terminate
<1>9. CASE SearchFails \/ SubscribeAnswers \/ SubscribeFails \/ TakesOver \/ InitialReads
           \/ Reconnects
  BY <1>1, <1>9 DEF SearchFails, SubscribeAnswers, SubscribeFails, TakesOver, InitialReads,
    Reconnects, ConnectRaises, ConnectReturns, Connecting
<1>10. CASE EnqueueCommand \/ RadioStep \/ LinkDrops \/ GoesMute
  BY <1>1, <1>10 DEF EnqueueCommand, RadioStep, LossNoticed, DeviceReturns, Notification,
    Silence, LinkDrops, GoesMute
<1>11. CASE Boot \/ WatchdogFires \/ HubAttaches \/ HubDetaches \/ UNCHANGED vars
  BY <1>1, <1>11 DEF Boot, WatchdogFires, HubAttaches, HubDetaches, vars, Connecting
<1>12. QED
  BY <1>2, <1>3, <1>4, <1>5, <1>7, <1>8, <1>9, <1>10, <1>11
  DEF Next, ConnectStep, RadioStep

\* A worker's step on the connection it serves.
LEMMA ServingStep ==
  ASSUME Base, Served, NEW w \in Links, WorkerStep(w),
         live = w, pc = "watching", spent.failures = 0, spent'.failures = 0
  PROVE  /\ worker'[w].pc \in {"idle", "writing", "answered"}
         /\ worker'[w].pc # "idle" => worker'[w].conn = w
<1>0. /\ worker \in [Links -> WorkerType] /\ worker[w] \in WorkerType
      /\ connected /\ client = w /\ w # 0
      /\ worker[w].pc # "idle" => worker[w].conn = w
  BY DEF Base, TypeOK, Held, Served, Links
<1>1. CASE WorkerTakes(w)
  BY <1>0, <1>1 DEF WorkerTakes, BeginsWrite
<1>2. CASE WriteReaches(w)
  <2>1. worker' = [worker EXCEPT ![w] = [worker[w] EXCEPT !.pc = "answered"]]
        /\ worker[w].pc = "writing"
    BY <1>2 DEF WriteReaches
  <2>2. QED
    BY <1>0, <2>1, WorkerTypes
<1>3. CASE WriteReturns(w)
  BY <1>0, <1>3, WorkerTypes DEF WriteReturns
<1>4. CASE WriteFails(w)
  <2>1. worker[w].conn = live
    BY <1>0, <1>4 DEF WriteFails
  <2>2. spent' = [spent EXCEPT !.failures = @ + 1]
    BY <1>4, <2>1 DEF WriteFails, FailsOn
  <2>3. spent \in [drops : 0 .. MaxDrops, mutes : 0 .. MaxMutes,
                   restarts : 0 .. MaxRestarts, failures : 0 .. MaxFailures]
    BY DEF Base, TypeOK
  <2>4. spent'.failures = 1
    BY <2>2, <2>3
  <2>5. QED
    BY <2>4
<1>5. QED
  BY <1>1, <1>2, <1>3, <1>4 DEF WorkerStep

\* Only a failed write takes the worker of a live connection along.
LEMMA ServedStep ==
  ASSUME Base, Served, [Next]_vars
  PROVE  Served'
<1> USE DEF radio, manager, commands, watch, process
<1>0. TypeOK /\ Held /\ conns \in Nat /\ worker \in [Links -> WorkerType]
  BY DEF Base, TypeOK, Links
<1>1. CASE live' = 0 \/ pc' # "watching"
  BY <1>1 DEF Served
<1>2. CASE UNCHANGED <<worker, live, pc, spent>>
  BY <1>2 DEF Served, Alive
<1>3. CASE SearchFails \/ SubscribeFails
  BY <1>0, <1>1, <1>3 DEF SearchFails, SubscribeFails, Held
<1>4. CASE SearchFinds \/ SubscribeAnswers \/ TakesOver \/ InitialReads \/ Reconnects
  BY <1>1, <1>4 DEF SearchFinds, SubscribeAnswers, TakesOver, InitialReads, Reconnects
<1>5. CASE CreatesWorker
  <2>1. /\ attempt = conns /\ live' = live
        /\ worker' = [worker EXCEPT ![attempt] = Idle]
    BY <1>0, <1>5 DEF CreatesWorker, Held, Connecting
  <2>2. CASE live # 0
    <3>1. live = attempt /\ attempt \in Links
      BY <1>0, <2>1, <2>2 DEF Held, TypeOK
    <3>2. worker'[live'] = Idle
      BY <1>0, <2>1, <3>1
    <3>3. QED
      BY <3>2, WorkerTypes DEF Served, Alive
  <2>3. QED
    BY <1>1, <2>1, <2>2
<1>6. ASSUME NEW w \in Links, WorkerStep(w) PROVE Served'
  <2>1. live' = live /\ pc' = pc
    BY <1>6 DEF WorkerStep, WorkerTakes, WriteReaches, WriteReturns, WriteFails
  <2>2. spent'.failures = 0 => spent.failures = 0
    <3>1. spent \in [drops : 0 .. MaxDrops, mutes : 0 .. MaxMutes,
                     restarts : 0 .. MaxRestarts, failures : 0 .. MaxFailures]
      BY <1>0 DEF TypeOK
    <3>2. spent' = spent \/ spent' = [spent EXCEPT !.failures = @ + 1]
      BY <1>6 DEF WorkerStep, WorkerTakes, WriteReaches, WriteReturns, WriteFails, FailsOn
    <3>3. spent.failures \in Nat
      BY <3>1, BleLinkAssumption
    <3>4. QED
      BY <3>1, <3>2, <3>3
  <2>3. CASE live = w
    BY <1>6, <2>1, <2>2, <2>3, ServingStep DEF Served, Alive
  <2>4. CASE live # w
    <3>1. live # 0 => worker'[live] = worker[live]
      BY <1>0, <1>6, <2>4, WorkerMoves DEF Held, TypeOK
    <3>2. QED
      BY <2>1, <2>2, <3>1 DEF Served, Alive
  <2>5. QED
    BY <2>3, <2>4
<1>7. CASE EnqueueCommand \/ RadioStep \/ UNCHANGED vars
  BY <1>2, <1>7 DEF EnqueueCommand, RadioStep, LossNoticed, DeviceReturns, Notification,
    Silence, vars
<1>8. CASE GoesMute
  <2>1. spent \in [drops : 0 .. MaxDrops, mutes : 0 .. MaxMutes,
                   restarts : 0 .. MaxRestarts, failures : 0 .. MaxFailures]
    BY <1>0 DEF TypeOK
  <2>2. spent'.failures = spent.failures /\ UNCHANGED <<worker, live, pc>>
    BY <1>8, <2>1 DEF GoesMute
  <2>3. QED
    BY <2>2 DEF Served, Alive
<1>9. CASE LinkDrops \/ Crash \/ Exit \/ Kill
  BY <1>1, <1>9 DEF LinkDrops, Crash, Exit, Kill, ProcessEnds
<1>10. CASE Boot \/ ServerCloses
  BY <1>1, <1>10 DEF Boot, ServerCloses
<1>11. CASE WatchdogFires \/ HubAttaches \/ HubDetaches
  BY <1>2, <1>11 DEF WatchdogFires, HubAttaches, HubDetaches
<1>12. CASE Terminate
  <2>1. spent \in [drops : 0 .. MaxDrops, mutes : 0 .. MaxMutes,
                   restarts : 0 .. MaxRestarts, failures : 0 .. MaxFailures]
    BY <1>0 DEF TypeOK
  <2>2. CASE ProcessEnds
    BY <1>1, <2>2 DEF ProcessEnds
  <2>3. CASE UNCHANGED <<radio, manager, commands>>
    <3>1. spent'.failures = spent.failures
      BY <1>12, <2>1 DEF Terminate
    <3>2. QED
      BY <2>3, <3>1 DEF Served, Alive
  <2>4. QED
    BY <1>12, <2>2, <2>3 DEF Terminate
<1>13. QED
  BY <1>3, <1>4, <1>5, <1>6, <1>7, <1>8, <1>9, <1>10, <1>11, <1>12
  DEF Next, ConnectStep, RadioStep

\* Nothing is accepted before the first connection.
LEMMA BlankStep ==
  ASSUME Base, Fresh, Blank, [Next]_vars
  PROVE  Blank'
<1> USE DEF radio, manager, commands, watch, process
<1>0. TypeOK /\ conns \in Nat
  BY DEF Base, TypeOK, Links
<1>1. SUFFICES ASSUME conns' = 0
               PROVE  accepted' = 0 /\ written' = <<>> /\ queue' = <<>>
  BY DEF Blank
<1>2. CASE SearchFinds
  BY <1>0, <1>1, <1>2 DEF SearchFinds
<1>3. CASE conns' = conns /\ UNCHANGED <<accepted, written, queue>>
  BY <1>1, <1>3 DEF Blank
<1>4. CASE EnqueueCommand
  <2>1. client # 0
    BY <1>0, <1>4 DEF EnqueueCommand, TypeOK
  <2>2. conns # 0
    BY <1>0, <2>1 DEF TypeOK
  <2>3. QED
    BY <1>1, <1>4, <2>2 DEF EnqueueCommand
<1>5. ASSUME NEW w \in Links, WorkerStep(w)
      PROVE  accepted' = 0 /\ written' = <<>> /\ queue' = <<>>
  <2>1. worker[w].pc # "none"
    BY <1>0, <1>5, WorkerMoves
  <2>2. conns # 0
    BY <2>1 DEF Fresh, Links
  <2>3. conns' = conns
    BY <1>5 DEF WorkerStep, WorkerTakes, WriteReaches, WriteReturns, WriteFails
  <2>4. QED
    BY <1>1, <2>2, <2>3
<1>6. CASE ProcessEnds
  <2>1. conns' = conns /\ UNCHANGED <<accepted, written>> /\ queue' = <<>>
    BY <1>6 DEF ProcessEnds
  <2>2. QED
    BY <1>1, <2>1 DEF Blank
<1>7. CASE Crash \/ Exit \/ Kill
  BY <1>6, <1>7 DEF Crash, Exit, Kill
<1>8. CASE Terminate
  BY <1>3, <1>6, <1>8 DEF Terminate
<1>9. CASE SearchFails \/ SubscribeAnswers \/ SubscribeFails \/ TakesOver \/ InitialReads
           \/ CreatesWorker \/ Reconnects
  BY <1>3, <1>9 DEF SearchFails, SubscribeAnswers, SubscribeFails, TakesOver, InitialReads,
    CreatesWorker, Reconnects
<1>10. CASE RadioStep \/ LinkDrops \/ GoesMute
  BY <1>3, <1>10 DEF RadioStep, LossNoticed, DeviceReturns, Notification, Silence,
    LinkDrops, GoesMute
<1>11. CASE ProcessStep \/ UNCHANGED vars
  BY <1>3, <1>11 DEF ProcessStep, Boot, WatchdogFires, HubAttaches, HubDetaches,
    ServerCloses, vars
<1>12. QED
  BY <1>2, <1>4, <1>5, <1>7, <1>8, <1>9, <1>10, <1>11
  DEF Next, ConnectStep, RadioStep, ProcessStep

\* What the step of the one worker there is does to the commands.
LEMMA MovesOne ==
  ASSUME IInv, NEW w \in Links, WorkerStep(w), conns = 1, live = 1,
         proc \in {"starting", "up"}, spent.failures = 0, spent'.failures = 0
  PROVE  written' \o Writing(1)' \o queue' = written \o Writing(1) \o queue
<1>0. /\ TypeOK /\ Held /\ 1 \in Links
      /\ queue \in Seq(Commands) /\ written \in Seq(Commands)
      /\ worker \in [Links -> WorkerType]
  BY DEF IInv, Base, TypeOK
<1>1. w = 1 /\ pc = "watching"
  <2>1. worker[w].pc # "none"
    BY <1>0, WorkerMoves
  <2>2. w = 1 /\ pc \notin Connecting
    BY <2>1 DEF IInv, Fresh, Links
  <2>3. pc = "watching"
    BY <2>2 DEF IInv, Base, TypeOK, Started, Held, Connecting
  <2>4. QED
    BY <2>2, <2>3
<1>2. /\ connected /\ client = 1
      /\ worker[1].pc # "idle" => worker[1].conn = 1
  BY <1>1 DEF IInv, Base, Held, Served
<1>3. CASE WorkerTakes(1)
  <2>1. worker'[1] = [pc |-> "writing", cmd |-> Head(queue), conn |-> 1]
    BY <1>0, <1>2, <1>3 DEF WorkerTakes, BeginsWrite
  <2>2. Writing(1)' = <<Head(queue)>> /\ Writing(1) = <<>>
    BY <1>3, <2>1 DEF Writing, WorkerTakes
  <2>3. queue # <<>> /\ queue' = Tail(queue) /\ written' = written
    BY <1>3 DEF WorkerTakes, commands
  <2>4. QED
    BY <1>0, <2>2, <2>3, HandTakes
<1>4. CASE WriteReaches(1)
  <2>1. /\ worker' = [worker EXCEPT ![1] = [worker[1] EXCEPT !.pc = "answered"]]
        /\ worker[1].pc = "writing" /\ queue' = queue
        /\ written' = Append(written, worker[1].cmd)
    BY <1>4 DEF WriteReaches
  <2>2. worker[1] \in WorkerType
    BY <1>0
  <2>3. worker'[1].pc = "answered" /\ worker[1].cmd \in Commands
    BY <1>0, <2>1, <2>2, WorkerTypes
  <2>4. Writing(1)' = <<>> /\ Writing(1) = <<worker[1].cmd>>
    BY <2>1, <2>3 DEF Writing
  <2>5. Append(written, worker[1].cmd) \o <<>> \o queue
          = written \o <<worker[1].cmd>> \o queue
    BY <1>0, <2>3, HandGives
  <2>6. QED
    BY <2>1, <2>4, <2>5
<1>5. CASE WriteReturns(1)
  <2>1. worker'[1].pc = "idle" /\ worker[1].pc = "answered"
    BY <1>0, <1>5, WorkerTypes DEF WriteReturns
  <2>2. Writing(1)' = <<>> /\ Writing(1) = <<>> /\ UNCHANGED <<queue, written>>
    BY <1>5, <2>1 DEF Writing, WriteReturns
  <2>3. QED
    BY <2>2
<1>6. CASE WriteFails(1)
  <2>1. worker[1].conn = 1
    BY <1>2, <1>6 DEF WriteFails
  <2>2. spent' = [spent EXCEPT !.failures = @ + 1]
    BY <1>6, <2>1 DEF WriteFails, FailsOn
  <2>3. spent \in [drops : 0 .. MaxDrops, mutes : 0 .. MaxMutes,
                   restarts : 0 .. MaxRestarts, failures : 0 .. MaxFailures]
    BY <1>0 DEF TypeOK
  <2>4. spent'.failures = 1
    BY <2>2, <2>3
  <2>5. QED
    BY <2>4
<1>7. QED
  BY <1>1, <1>3, <1>4, <1>5, <1>6 DEF WorkerStep

\* A failure is never forgotten.
LEMMA FailuresGrow ==
  ASSUME TypeOK, [Next]_vars, spent'.failures = 0
  PROVE  spent.failures = 0
<1>1. \/ spent' = spent
      \/ spent' = [spent EXCEPT !.drops = @ + 1]
      \/ spent' = [spent EXCEPT !.mutes = @ + 1]
      \/ spent' = [spent EXCEPT !.restarts = @ + 1]
      \/ spent' = [spent EXCEPT !.failures = @ + 1]
  BY DEF Next, ConnectStep, WorkerStep, vars, FailsOn, SearchFails, SearchFinds,
    SubscribeAnswers, SubscribeFails, TakesOver, InitialReads, CreatesWorker, Reconnects,
    EnqueueCommand, LinkDrops, LossNoticed, DeviceReturns, GoesMute, Notification,
    Silence, Boot, Crash, WatchdogFires, Terminate, ServerCloses, Exit, Kill,
    HubAttaches, HubDetaches, WorkerTakes, WriteReaches, WriteReturns, WriteFails
<1>2. spent \in [drops : Nat, mutes : Nat, restarts : Nat, failures : Nat]
  BY BleLinkAssumption DEF TypeOK
<1>3. QED
  BY <1>1, <1>2

\* Every step keeps the commands of the first connection.
LEMMA KeptStep ==
  ASSUME IInv, [Next]_vars
  PROVE  Kept'
<1> USE DEF radio, manager, commands, watch, process
<1>0. /\ TypeOK /\ Held /\ Started /\ conns \in Nat
      /\ queue \in Seq(Commands) /\ written \in Seq(Commands)
      /\ worker \in [Links -> WorkerType]
  BY DEF IInv, Base, TypeOK, Links
<1>1. SUFFICES ASSUME conns' =< 1, live' = conns', proc' \in {"starting", "up"},
                      spent'.failures = 0
               PROVE  written' \o InHand' \o queue' = [i \in 1 .. accepted' |-> i]
  BY DEF Kept
<1>2. spent.failures = 0
  BY <1>0, <1>1, FailuresGrow
<1>3. ASSUME UNCHANGED <<conns, live, written, queue, worker, accepted>>,
             proc \in {"starting", "up"}
      PROVE  written' \o InHand' \o queue' = [i \in 1 .. accepted' |-> i]
  <2>1. InHand' = InHand
    BY <1>3 DEF InHand, Writing
  <2>2. written \o InHand \o queue = [i \in 1 .. accepted |-> i]
    BY <1>1, <1>2, <1>3 DEF IInv, Kept
  <2>3. QED
    BY <1>3, <2>1, <2>2
<1>4. ASSUME accepted' = 0, written' = <<>>, queue' = <<>>, InHand' = <<>>
      PROVE  written' \o InHand' \o queue' = [i \in 1 .. accepted' |-> i]
  BY <1>4
<1>5. CASE SearchFinds
  <2>1. conns' = conns + 1 /\ UNCHANGED <<written, queue, worker, accepted>>
    BY <1>5 DEF SearchFinds
  <2>2. conns = 0 /\ 1 \in Links
    BY <1>0, <1>1, <2>1, BleLinkAssumption DEF Links
  <2>3. worker'[1].pc = "none"
    BY <2>1, <2>2 DEF IInv, Fresh
  <2>4. InHand' = <<>>
    BY <2>3 DEF InHand, Writing
  <2>5. QED
    BY <1>4, <2>1, <2>2, <2>4 DEF IInv, Blank
<1>6. CASE CreatesWorker
  <2>1. /\ UNCHANGED <<conns, live, written, queue, accepted>>
        /\ worker' = [worker EXCEPT ![attempt] = Idle]
        /\ attempt = conns /\ proc \in {"starting", "up"}
    BY <1>0, <1>1, <1>6 DEF CreatesWorker, ConnectReturns, Held, Connecting
  <2>2. InHand' = <<>> /\ InHand = <<>>
    <3>1. CASE conns = 1
      <4>1. 1 \in Links /\ worker[1].pc = "none"
        BY <1>0, <1>6, <3>1 DEF TypeOK, IInv, Fresh, Connecting, CreatesWorker
      <4>2. worker'[1] = Idle
        BY <1>0, <2>1, <3>1, <4>1
      <4>3. QED
        BY <2>1, <3>1, <4>1, <4>2 DEF InHand, Writing, Idle
    <3>2. QED
      BY <2>1, <3>1 DEF InHand
  <2>3. written \o InHand \o queue = [i \in 1 .. accepted |-> i]
    BY <1>1, <1>2, <2>1 DEF IInv, Kept
  <2>4. QED
    BY <2>1, <2>2, <2>3
<1>7. CASE EnqueueCommand
  <2>1. /\ UNCHANGED <<conns, live, proc, written, worker>>
        /\ accepted' = accepted + 1 /\ queue' = Append(queue, accepted + 1)
        /\ accepted < MaxCmds
    BY <1>7 DEF EnqueueCommand, Enqueues
  <2>2. InHand' = InHand
    BY <2>1 DEF InHand, Writing
  <2>3. InHand \in Seq(Commands)
    <3>1. CASE conns = 1 /\ worker[1].pc = "writing"
      <4>1. worker[1] \in WorkerType
        BY <1>0, <3>1 DEF TypeOK
      <4>2. worker[1].cmd \in Commands
        BY <3>1, <4>1, WorkerTypes
      <4>3. QED
        BY <3>1, <4>2 DEF InHand, Writing
    <3>2. CASE ~(conns = 1 /\ worker[1].pc = "writing")
      BY <3>2 DEF InHand, Writing
    <3>3. QED
      BY <3>1, <3>2
  <2>4. written \o InHand \in Seq(Commands)
    BY <1>0, <2>3, ConcatProperties
  <2>5. accepted \in Nat /\ accepted + 1 \in Commands
    BY <1>0, <2>1, BleLinkAssumption DEF TypeOK, Commands
  <2>6. written \o InHand \o queue = [i \in 1 .. accepted |-> i]
    BY <1>1, <1>2, <2>1 DEF IInv, Kept
  <2>7. (written \o InHand) \o Append(queue, accepted + 1)
          = Append((written \o InHand) \o queue, accepted + 1)
    BY <1>0, <2>4, <2>5, AddsBehind
  <2>8. QED
    BY <2>1, <2>2, <2>5, <2>6, <2>7, CountGoesOn
<1>8. ASSUME NEW w \in Links, WorkerStep(w)
      PROVE  written' \o InHand' \o queue' = [i \in 1 .. accepted' |-> i]
  <2>1. UNCHANGED <<conns, live, proc, accepted>>
    BY <1>8 DEF WorkerStep, WorkerTakes, WriteReaches, WriteReturns, WriteFails
  <2>2. conns = 1
    <3>1. worker[w].pc # "none"
      BY <1>0, <1>8, WorkerMoves
    <3>2. conns # 0
      BY <3>1 DEF IInv, Fresh, Links
    <3>3. QED
      BY <1>0, <1>1, <2>1, <3>2
  <2>3. InHand = Writing(1) /\ InHand' = Writing(1)'
    BY <2>1, <2>2 DEF InHand
  <2>4. written' \o Writing(1)' \o queue' = written \o Writing(1) \o queue
    BY <1>1, <1>2, <1>8, <2>1, <2>2, MovesOne
  <2>5. written \o InHand \o queue = [i \in 1 .. accepted |-> i]
    BY <1>1, <1>2, <2>1 DEF IInv, Kept
  <2>6. QED
    BY <2>1, <2>3, <2>4, <2>5
<1>9. CASE SubscribeFails
  <2>1. live' = 0 /\ conns' = conns /\ conns # 0
    BY <1>0, <1>9 DEF SubscribeFails, Held, Connecting, TypeOK
  <2>2. QED
    BY <1>1, <2>1
<1>10. CASE LinkDrops
  <2>1. live' = 0 /\ conns' = conns /\ conns # 0
    BY <1>0, <1>10 DEF LinkDrops, Held
  <2>2. QED
    BY <1>1, <2>1
<1>11. CASE Boot
  <2>1. UNCHANGED <<conns, live, written, queue, worker, accepted>> /\ live = 0
    BY <1>0, <1>11 DEF Boot, Started, Held
  <2>2. InHand' = <<>>
    BY <1>1, <2>1 DEF InHand
  <2>3. QED
    BY <1>1, <1>4, <2>1, <2>2 DEF IInv, Blank
<1>12. CASE Crash \/ Exit \/ Kill \/ ServerCloses \/ WatchdogFires
  BY <1>1, <1>12 DEF Crash, Exit, Kill, ServerCloses, WatchdogFires, ProcessEnds
<1>13. CASE Terminate
  BY <1>1, <1>13 DEF Terminate, ProcessEnds
<1>14. CASE SearchFails \/ SubscribeAnswers \/ TakesOver \/ InitialReads \/ Reconnects
  <2>1. UNCHANGED <<conns, live, written, queue, worker, accepted>>
    BY <1>14 DEF SearchFails, SubscribeAnswers, TakesOver, InitialReads, Reconnects
  <2>2. proc \in {"starting", "up"}
    BY <1>1, <1>14 DEF SearchFails, SubscribeAnswers, TakesOver, InitialReads, Reconnects,
      ConnectRaises, ConnectReturns
  <2>3. QED
    BY <1>3, <2>1, <2>2
<1>15. CASE RadioStep \/ GoesMute \/ HubAttaches \/ HubDetaches \/ UNCHANGED vars
  BY <1>1, <1>3, <1>15 DEF RadioStep, LossNoticed, DeviceReturns, Notification, Silence,
    GoesMute, HubAttaches, HubDetaches, vars
<1>16. QED
  BY <1>5, <1>6, <1>7, <1>8, <1>9, <1>10, <1>11, <1>12, <1>13, <1>14, <1>15
  DEF Next, ConnectStep, RadioStep

\* The daemon starts in it.
LEMMA InitInv == Init => IInv
<1>1. SUFFICES ASSUME Init PROVE IInv
  OBVIOUS
<1>2. worker \in [Links -> WorkerType] /\ \A n \in Links : worker[n].pc = "none"
  BY <1>1, WorkerTypes DEF Init
<1>3. spent \in [drops : 0 .. MaxDrops, mutes : 0 .. MaxMutes,
                 restarts : 0 .. MaxRestarts, failures : 0 .. MaxFailures]
  BY <1>1, BleLinkAssumption DEF Init
<1>4. mute \in BOOLEAN /\ losing \in BOOLEAN /\ connected \in BOOLEAN /\ silent \in BOOLEAN
      /\ ordered \in BOOLEAN /\ attached \in BOOLEAN
  BY <1>1, Zenon DEF Init
<1>5. TypeOK
  BY <1>1, <1>2, <1>3, <1>4, BleLinkAssumption DEF Init, TypeOK
<1>6. Paid
  BY <1>1 DEF Init, Paid, Ended, Debt, Bill
<1>7. Started /\ Held
  BY <1>1 DEF Init, Started, Held, Connecting
<1>8. Fresh /\ Served /\ Blank
  BY <1>1, <1>2 DEF Init, Fresh, Served, Blank
<1>9. Kept
  BY <1>1 DEF Init, Kept, InHand
<1>10. QED
  BY <1>5, <1>6, <1>7, <1>8, <1>9 DEF IInv, Base

\* The inductive invariant holds.
LEMMA Invariance == Spec => []IInv
<1>1. IInv /\ [Next]_vars => IInv'
  BY TypeStep, PaidStep, HeldStep, FreshStep, ServedStep, BlankStep, KeptStep DEF IInv, Base
<1>2. QED
  BY <1>1, InitInv, PTL DEF Spec

\* Connections stay within their bound, and workers write only to connections
\* that were made.
THEOREM TypeHolds == Spec => []TypeOK
<1>1. IInv => TypeOK
  BY DEF IInv, Base
<1>2. QED
  BY <1>1, Invariance, PTL

\* When connect() is over and its connection holds, the queue has a worker of
\* that connection: CreatesWorker makes one for every connection, and what ends
\* a worker without ending its connection is a failed write.
THEOREM QueueHasServerHolds == Spec => []QueueHasServer
<1>1. IInv => QueueHasServer
  BY DEF IInv, Served, QueueHasServer, Attuned
<1>2. QED
  BY <1>1, Invariance, PTL

\* On the first connection no command is lost, doubled or overtaken between
\* _enqueue_command and the device.
THEOREM NothingLostHolds == Spec => []NothingLost
<1>1. IInv => NothingLost
  BY DEF IInv, Kept, NothingLost, InHand
<1>2. QED
  BY <1>1, Invariance, PTL

==============================================================================
