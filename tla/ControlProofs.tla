----------------------------- MODULE ControlProofs -----------------------------
(***************************************************************************)
(* The invariants of the commands, for every number of connections, every  *)
(* runtime and every bound.  Four strengthenings build on each other: IInv *)
(* (of the mute, what the device will have once the queue is empty; of the *)
(* filter, that an end time is known exactly while a running mode is       *)
(* reported), Typed (no runtime is longer than one asked for), ModeInv (of *)
(* the queue, only the first command changes the mode, and to the one      *)
(* asked for) and TimerInv (what set_mode is to write back is owed).       *)
(***************************************************************************)
EXTENDS ControlProps, QueueLemmas

Kinds == {"button", "runtime", "kept", "settings", "fan"}
Commands == [kind : Kinds, mode : Modes, n : Int, led : Settings, muted : Settings]
Devices == [mode : Modes, left : Int, led : Settings, muted : Settings]
Reports == [mode : Modes, led : Settings, muted : Settings]
Coroutines == [pc : {"idle", "waiting", "sleeping"}, target : Modes, keep : Int,
               late : BOOLEAN]

\* The shapes the other parts need.
Shape ==
  /\ model \in Models
  /\ device \in Devices
  /\ reported \in Reports
  /\ ends \in Int
  /\ queue \in Seq(Commands)
  /\ handler \in [Handlers -> Coroutines]

\* A command that tells the device whether to beep.
SaysMute(c) == c.kind = "fan" \/ (c.kind = "settings" /\ c.muted # Unknown)

\* The last command of q that says so says m.
LastSays(q, m) ==
  \E i \in 1 .. Len(q) :
    /\ SaysMute(q[i]) /\ q[i].muted = m
    /\ \A j \in 1 .. Len(q) : j > i => ~SaysMute(q[j])

NoneSays(q) == \A j \in 1 .. Len(q) : ~SaysMute(q[j])

\* What the device has when q has been carried out on d.
WillHave(d, q, m) == LastSays(q, m) \/ (NoneSays(q) /\ d.muted = m)

MuteUnderWay ==
  reported.muted # Unknown => WillHave(device, queue, reported.muted)

\* A runtime that is under way is one: none is zero.
Positive(c) == c.kind \in {"runtime", "kept"} => c.n > 0

RuntimesUnderWay ==
  /\ \A i \in 1 .. Len(queue) : Positive(queue[i])
  /\ \A h \in Handlers : handler[h].keep >= 0
                         /\ (handler[h].pc = "sleeping" => handler[h].keep > 0)

\* A device runs exactly as long as it has a runtime left.
LeftWhileRunning ==
  /\ device.left >= 0
  /\ device.mode = "standby" <=> device.left = 0

\* An end time is known exactly while a running mode is reported, and then
\* the subscribers know that the device runs.
EndWhileRunning ==
  /\ ends >= NoEnd
  /\ ends = NoEnd <=> reported.mode = "standby"
  /\ ShownRuns

IInv == Shape /\ MuteUnderWay /\ RuntimesUnderWay /\ LeftWhileRunning /\ EndWhileRunning

-----------------------------------------------------------------------------
\* Lemmas about the queue.

\* A command that says m makes m what the device will have.
LEMMA SayingSettles ==
  ASSUME NEW d, NEW q \in Seq(Commands), NEW c \in Commands, NEW m,
         SaysMute(c), c.muted = m
  PROVE  WillHave(d, Append(q, c), m)
<1>1. Len(q) + 1 \in 1 .. Len(Append(q, c)) /\ Append(q, c)[Len(q) + 1] = c
  BY EnqueueAdds
<1>2. \A j \in 1 .. Len(Append(q, c)) : ~(j > Len(q) + 1)
  BY EnqueueAdds
<1> QED BY <1>1, <1>2 DEF WillHave, LastSays

\* One that says nothing of the mute changes nothing of it.
LEMMA SilenceKeeps ==
  ASSUME NEW d, NEW q \in Seq(Commands), NEW c \in Commands, NEW m,
         ~SaysMute(c), WillHave(d, q, m)
  PROVE  WillHave(d, Append(q, c), m)
<1> DEFINE p == Append(q, c)
<1>1. /\ Len(p) = Len(q) + 1 /\ Len(q) \in Nat
      /\ \A i \in 1 .. Len(q) : p[i] = q[i]
      /\ p[Len(q) + 1] = c
  BY EnqueueAdds
<1>2. \A i \in 1 .. Len(p) : i \in 1 .. Len(q) \/ i = Len(q) + 1
  BY <1>1
<1>3. 1 .. Len(q) \subseteq 1 .. Len(p)
  BY <1>1
<1> HIDE DEF p
<1>4. CASE LastSays(q, m)
  <2>1. PICK i \in 1 .. Len(q) : /\ SaysMute(q[i]) /\ q[i].muted = m
                                 /\ \A j \in 1 .. Len(q) : j > i => ~SaysMute(q[j])
    BY <1>4 DEF LastSays
  <2>2. \A j \in 1 .. Len(p) : j > i => ~SaysMute(p[j])
    BY <1>1, <1>2, <2>1
  <2> QED BY <1>1, <1>3, <2>1, <2>2 DEF WillHave, LastSays, p
<1>5. CASE NoneSays(q) /\ d.muted = m
  <2>1. \A j \in 1 .. Len(p) : ~SaysMute(p[j])
    BY <1>1, <1>2, <1>5 DEF NoneSays
  <2> QED BY <2>1, <1>5 DEF WillHave, NoneSays, p
<1> QED BY <1>4, <1>5 DEF WillHave

\* Carrying out the first command leaves what the device will have.
LEMMA WritingKeeps ==
  ASSUME NEW d, NEW e, NEW q \in Seq(Commands), NEW m, q # <<>>, WillHave(d, q, m),
         SaysMute(Head(q)) => e.muted = Head(q).muted,
         ~SaysMute(Head(q)) => e.muted = d.muted
  PROVE  WillHave(e, Tail(q), m)
<1> DEFINE p == Tail(q)
<1>1. /\ Head(q) = q[1] /\ Len(q) \in Nat \ {0} /\ Len(p) = Len(q) - 1
      /\ \A i \in 1 .. Len(q) - 1 : p[i] = q[i + 1]
  BY TailShifts
<1> HIDE DEF p
<1>2. \A j \in 1 .. Len(p) : j + 1 \in 1 .. Len(q) /\ p[j] = q[j + 1]
  BY <1>1
<1>3. CASE LastSays(q, m)
  <2>1. PICK i \in 1 .. Len(q) : /\ SaysMute(q[i]) /\ q[i].muted = m
                                 /\ \A j \in 1 .. Len(q) : j > i => ~SaysMute(q[j])
    BY <1>3 DEF LastSays
  <2>2. CASE i = 1
    <3>1. \A j \in 1 .. Len(p) : ~SaysMute(p[j])
      BY <1>1, <1>2, <2>1, <2>2
    <3>2. e.muted = m
      BY <1>1, <2>1, <2>2
    <3> QED BY <3>1, <3>2 DEF WillHave, NoneSays, p
  <2>3. CASE i > 1
    <3>1. i - 1 \in 1 .. Len(p) /\ p[i - 1] = q[i]
      BY <1>1, <2>3
    <3>2. \A j \in 1 .. Len(p) : j > i - 1 => ~SaysMute(p[j])
      <4>1. TAKE j \in 1 .. Len(p)
      <4>2. HAVE j > i - 1
      <4>3. j + 1 > i
        BY <4>1, <4>2, <2>1
      <4> QED BY <1>2, <2>1, <4>1, <4>3
    <3> QED BY <2>1, <3>1, <3>2 DEF WillHave, LastSays, p
  <2> QED BY <2>1, <2>2, <2>3
<1>4. CASE NoneSays(q) /\ d.muted = m
  <2>1. \A j \in 1 .. Len(p) : ~SaysMute(p[j])
    BY <1>2, <1>4 DEF NoneSays
  <2>2. ~SaysMute(Head(q))
    BY <1>1, <1>4 DEF NoneSays
  <2> QED BY <2>1, <2>2, <1>4 DEF WillHave, NoneSays, p
<1> QED BY <1>3, <1>4 DEF WillHave

\* The queue keeps its runtimes positive.
LEMMA EnqueuePositive ==
  ASSUME NEW q \in Seq(Commands), NEW c \in Commands, Positive(c),
         \A i \in 1 .. Len(q) : Positive(q[i])
  PROVE  \A i \in 1 .. Len(Append(q, c)) : Positive(Append(q, c)[i])
<1>1. /\ Len(Append(q, c)) = Len(q) + 1 /\ Len(q) \in Nat
      /\ \A i \in 1 .. Len(q) : Append(q, c)[i] = q[i]
      /\ Append(q, c)[Len(q) + 1] = c
  BY EnqueueAdds
<1>2. \A i \in 1 .. Len(Append(q, c)) : i \in 1 .. Len(q) \/ i = Len(q) + 1
  BY <1>1
<1> QED BY <1>1, <1>2

-----------------------------------------------------------------------------
\* Typing of the commands and of the runtime that is preserved.

\* The commands fit the queue.
LEMMA CommandTypes ==
  /\ \A m \in Modes : Button(m) \in Commands
  /\ \A n \in Int, own \in BOOLEAN : Runtime(n, own) \in Commands
  /\ \A l, m \in Settings : Led(l, m) \in Commands
  /\ \A mode \in Modes, m \in Settings : Carrying(mode, m) \in Commands
BY DEF Button, Runtime, Led, Carrying, Commands, Kinds, Modes, Running, Settings, Unknown

\* What is preserved is a runtime.
LEMMA PreservedPositive ==
  ASSUME NEW target, ends \in Int
  PROVE  Preserved(target) \in Int /\ Preserved(target) >= 0
<1>1. Minute \in Nat /\ Minute > 0
  BY ControlAssumption
<1>2. CASE ends > Minute
  <2>1. ends \div Minute \in Int /\ ends \div Minute >= 1
    BY <1>1, <1>2
  <2> DEFINE k == ends \div Minute
  <2>2. k * Minute \in Int /\ k * Minute >= 0
    <3> HIDE DEF k
    <3>1. k \in Int /\ k >= 1
      BY <2>1 DEF k
    <3> QED BY <3>1, <1>1
  <2> QED BY <2>2, <1>1, <1>2 DEF Preserved
<1>3. CASE ~(ends > Minute)
  BY <1>1, <1>3 DEF Preserved
<1> QED BY <1>2, <1>3

-----------------------------------------------------------------------------

\* The daemon starts in it.
LEMMA InitIInv == Init => IInv
<1> SUFFICES ASSUME Init PROVE IInv
  OBVIOUS
<1> USE DEF Init, Modes, Running, Settings, Unknown, NoEnd
<1>1. Shape
  BY ControlAssumption DEF Shape, Models, Devices, Reports, Coroutines, Idle
<1>2. MuteUnderWay
  <2>1. NoneSays(queue)
    BY DEF NoneSays
  <2> QED BY <2>1 DEF MuteUnderWay, WillHave
<1>3. RuntimesUnderWay
  BY DEF RuntimesUnderWay, Idle
<1>4. LeftWhileRunning
  BY ControlAssumption DEF LeftWhileRunning
<1>5. EndWhileRunning
  BY DEF EndWhileRunning, ShownRuns
<1> QED BY <1>1, <1>2, <1>3, <1>4, <1>5 DEF IInv

\* Turning to a mode: neither the LED nor the mute changes.
LEMMA TurnedShape ==
  ASSUME NEW m \in Modes, device \in Devices
  PROVE  /\ Turned(device, m) \in Devices
         /\ Turned(device, m).muted = device.muted
         /\ Turned(device, m).mode = m
         /\ Turned(device, m).left = IF m = "standby" THEN 0 ELSE Default
<1> DEFINE left == IF m = "standby" THEN 0 ELSE Default
<1>1. left \in Int
  BY ControlAssumption
<1>2. Turned(device, m) = [device EXCEPT !.mode = m, !.left = left]
  BY DEF Turned
<1> HIDE DEF left
<1>3. /\ Turned(device, m) \in Devices
      /\ Turned(device, m).muted = device.muted
      /\ Turned(device, m).mode = m
      /\ Turned(device, m).left = left
  BY <1>1, <1>2 DEF Devices
<1> QED BY <1>3 DEF left

\* Pressing a button: a device that runs has a runtime left.
LEMMA PressedShape ==
  ASSUME NEW m \in Modes, device \in Devices
  PROVE  /\ Pressed(device, m) \in Devices
         /\ Pressed(device, m).muted = device.muted
         /\ Pressed(device, m).left >= 0
         /\ Pressed(device, m).mode = "standby" <=> Pressed(device, m).left = 0
<1>1. "standby" \in Modes
  BY DEF Modes
<1> QED BY <1>1, TurnedShape, ControlAssumption DEF Pressed

\* A command that is carried out sets the mute it says, or none.
LEMMA AppliedShape ==
  ASSUME NEW c \in Commands, device \in Devices, LeftWhileRunning, Positive(c)
  PROVE  /\ Applied(device, c) \in Devices
         /\ SaysMute(c) => Applied(device, c).muted = c.muted
         /\ ~SaysMute(c) => Applied(device, c).muted = device.muted
         /\ Applied(device, c).left >= 0
         /\ Applied(device, c).mode = "standby" <=> Applied(device, c).left = 0
<1>1. c.kind \in Kinds /\ c.mode \in Modes /\ c.n \in Int
      /\ c.led \in Settings /\ c.muted \in Settings
  BY DEF Commands
<1>2. CASE c.kind = "button"
  <2>1. Applied(device, c) = Pressed(device, c.mode)
    BY <1>2 DEF Applied
  <2> QED BY <2>1, <1>1, <1>2, PressedShape DEF SaysMute
<1>3. CASE c.kind \in {"runtime", "kept"}
  <2>1. Applied(device, c) = IF device.mode \in Running THEN [device EXCEPT !.left = c.n]
                             ELSE device
    BY <1>3 DEF Applied
  <2>2. c.n > 0
    BY <1>3 DEF Positive
  <2> QED BY <2>1, <2>2, <1>1, <1>3 DEF SaysMute, Devices, LeftWhileRunning, Running
<1>4. CASE c.kind = "settings"
  <2>1. Applied(device, c) =
          [device EXCEPT !.led = IF c.led = Unknown THEN @ ELSE c.led,
                         !.muted = IF c.muted = Unknown THEN @ ELSE c.muted]
    BY <1>4 DEF Applied
  <2> QED BY <2>1, <1>1, <1>4 DEF SaysMute, Devices, LeftWhileRunning
<1>5. CASE c.kind = "fan"
  <2>1. Applied(device, c) =
          [device EXCEPT !.mode = IF device.mode \in Running /\ c.mode \in Running
                                  THEN c.mode ELSE @,
                         !.muted = c.muted]
    BY <1>5 DEF Applied
  <2> QED BY <2>1, <1>1, <1>5 DEF SaysMute, Devices, LeftWhileRunning, Running
<1> QED BY <1>1, <1>2, <1>3, <1>4, <1>5 DEF Kinds

-----------------------------------------------------------------------------
\* One lemma per action that does more than move a coroutine.

\* The worker writes: what the device will have stays.
LEMMA WritesKeeps == IInv /\ Writes => IInv'
<1> SUFFICES ASSUME IInv, Writes PROVE IInv'
  OBVIOUS
<1> DEFINE c == Head(queue)
<1>1. /\ queue \in Seq(Commands) /\ queue # <<>> /\ device \in Devices
      /\ device' = Applied(device, c) /\ queue' = Tail(queue)
      /\ UNCHANGED <<model, reported, ends, shown, handler>>
  BY DEF IInv, Shape, Writes
<1>2. /\ c \in Commands /\ c = queue[1] /\ queue' \in Seq(Commands)
      /\ Len(queue) \in Nat \ {0} /\ Len(queue') = Len(queue) - 1
      /\ \A i \in 1 .. Len(queue) - 1 : queue'[i] = queue[i + 1]
  BY <1>1, TailShifts
<1>3. Positive(c)
  BY <1>2 DEF IInv, RuntimesUnderWay
<1>4. /\ device' \in Devices
      /\ SaysMute(c) => device'.muted = c.muted
      /\ ~SaysMute(c) => device'.muted = device.muted
      /\ LeftWhileRunning'
  BY <1>1, <1>2, <1>3, AppliedShape DEF IInv, LeftWhileRunning
<1>5. Shape'
  BY <1>1, <1>2, <1>4 DEF IInv, Shape
<1>6. MuteUnderWay'
  BY <1>1, <1>4, WritingKeeps DEF IInv, MuteUnderWay
<1>7. RuntimesUnderWay'
  <2>1. \A i \in 1 .. Len(queue') : i + 1 \in 1 .. Len(queue) /\ queue'[i] = queue[i + 1]
    BY <1>2
  <2> QED BY <2>1, <1>1 DEF IInv, RuntimesUnderWay
<1>8. EndWhileRunning'
  BY <1>1 DEF IInv, EndWhileRunning, ShownRuns
<1> QED BY <1>4, <1>5, <1>6, <1>7, <1>8 DEF IInv

\* A notification: the filter lets through what ends or begins.
LEMMA NotificationKeeps == IInv /\ Notification => IInv'
<1> SUFFICES ASSUME IInv, Notification PROVE IInv'
  OBVIOUS
<1> DEFINE new == EndOf(device.left)
<1>1. /\ device \in Devices /\ reported \in Reports /\ ends \in Int
      /\ reported' = [reported EXCEPT !.mode = device.mode]
      /\ ends' = IF Accepts(new) THEN new ELSE ends
      /\ shown' = device.mode \/ (~Accepts(new) /\ shown' = shown)
      /\ UNCHANGED <<model, device, queue, handler>>
  BY DEF IInv, Shape, Notification
<1>2. /\ reported' \in Reports /\ reported'.mode = device.mode
      /\ reported'.muted = reported.muted
  BY <1>1 DEF Reports, Devices
<1>3. new \in Int /\ new >= NoEnd /\ (new = NoEnd <=> device.mode = "standby")
  BY <1>1 DEF IInv, LeftWhileRunning, EndOf, NoEnd, Devices
<1>4. EndWhileRunning'
  <2>1. CASE Accepts(new)
    BY <2>1, <1>1, <1>2, <1>3 DEF EndWhileRunning, ShownRuns
  <2>2. CASE ~Accepts(new)
    <3>1. new # NoEnd /\ ends # NoEnd
      BY <2>2 DEF Accepts
    <3>2. device.mode # "standby" /\ shown # "standby"
      BY <3>1, <1>3 DEF IInv, EndWhileRunning, ShownRuns
    <3> QED BY <2>2, <3>1, <3>2, <1>1, <1>2 DEF IInv, EndWhileRunning, ShownRuns
  <2> QED BY <2>1, <2>2
<1>5. Shape'
  BY <1>1, <1>2, <1>3 DEF IInv, Shape
<1>6. MuteUnderWay'
  BY <1>1, <1>2 DEF IInv, MuteUnderWay
<1>7. RuntimesUnderWay' /\ LeftWhileRunning'
  BY <1>1 DEF IInv, RuntimesUnderWay, LeftWhileRunning
<1> QED BY <1>4, <1>5, <1>6, <1>7 DEF IInv

\* A tick: a device that runs out is off.
LEMMA TickKeeps == IInv /\ Tick => IInv'
<1> SUFFICES ASSUME IInv, Tick PROVE IInv'
  OBVIOUS
<1>1. /\ device \in Devices /\ device.mode \in Running /\ ends \in Int
      /\ handler \in [Handlers -> Coroutines]
      /\ device' = IF device.left > 1 THEN [device EXCEPT !.left = @ - 1]
                   ELSE Turned(device, "standby")
      /\ ends' = IF ends >= 0 THEN ends - 1 ELSE ends
      /\ handler' = [h \in Handlers |-> [handler[h] EXCEPT !.late = Busy(h)]]
      /\ UNCHANGED <<model, reported, shown, queue>>
  BY DEF IInv, Shape, Tick
<1>2. device' \in Devices /\ device'.muted = device.muted /\ LeftWhileRunning'
  <2>1. CASE device.left > 1
    BY <2>1, <1>1 DEF Devices, LeftWhileRunning, Running
  <2>2. CASE ~(device.left > 1)
    <3>1. "standby" \in Modes
      BY DEF Modes
    <3> QED BY <2>2, <3>1, <1>1, TurnedShape DEF LeftWhileRunning
  <2> QED BY <2>1, <2>2
<1>3. \A h \in Handlers : /\ handler'[h] \in Coroutines
                          /\ handler'[h].keep = handler[h].keep
                          /\ handler'[h].pc = handler[h].pc
  <2> SUFFICES ASSUME NEW h \in Handlers
               PROVE  /\ handler'[h] \in Coroutines
                      /\ handler'[h].keep = handler[h].keep
                      /\ handler'[h].pc = handler[h].pc
    OBVIOUS
  <2>1. Busy(h) \in BOOLEAN
    BY DEF Busy
  <2>2. handler'[h] = [handler[h] EXCEPT !.late = Busy(h)]
    BY <1>1
  <2>3. handler[h] \in Coroutines
    BY <1>1
  <2> QED BY <2>1, <2>2, <2>3 DEF Coroutines
<1>4. Shape'
  <2>1. handler' \in [Handlers -> Coroutines]
    BY <1>1, <1>3
  <2>2. ends' \in Int
    BY <1>1
  <2> QED BY <2>1, <2>2, <1>1, <1>2 DEF IInv, Shape
<1>5. MuteUnderWay'
  BY <1>1, <1>2 DEF IInv, MuteUnderWay, WillHave
<1>6. RuntimesUnderWay'
  BY <1>1, <1>3 DEF IInv, RuntimesUnderWay
<1>7. EndWhileRunning'
  BY <1>1 DEF IInv, EndWhileRunning, ShownRuns, NoEnd
<1> QED BY <1>2, <1>4, <1>5, <1>6, <1>7 DEF IInv

\* A button pressed at the device.
LEMMA PressedAtDeviceKeeps ==
  ASSUME IInv, NEW m \in Modes, PressedAtDevice(m)
  PROVE  IInv'
<1>1. /\ device \in Devices /\ device' = Pressed(device, m)
      /\ UNCHANGED <<model, reported, ends, shown, queue, handler>>
  BY DEF IInv, Shape, PressedAtDevice
<1>2. device' \in Devices /\ device'.muted = device.muted /\ LeftWhileRunning'
  BY <1>1, PressedShape DEF LeftWhileRunning
<1>3. Shape'
  BY <1>1, <1>2 DEF IInv, Shape
<1>4. MuteUnderWay'
  BY <1>1, <1>2 DEF IInv, MuteUnderWay, WillHave
<1>5. RuntimesUnderWay' /\ EndWhileRunning'
  BY <1>1 DEF IInv, RuntimesUnderWay, EndWhileRunning, ShownRuns
<1> QED BY <1>2, <1>3, <1>4, <1>5 DEF IInv

\* What a coroutine does to the queue: nothing, or one command is added, which
\* says what the daemon knows of the mute, or nothing of it.
LEMMA CoroutineKeeps ==
  ASSUME IInv, NEW h \in Handlers,
         UNCHANGED <<model, device, reported, ends, shown>>,
         \/ queue' = queue
         \/ \E c \in Commands :
              /\ queue' = Append(queue, c) /\ Positive(c)
              /\ (SaysMute(c) /\ reported.muted # Unknown) => c.muted = reported.muted,
         \/ handler' = handler
         \/ \E j \in Coroutines :
              /\ handler' = [handler EXCEPT ![h] = j] /\ j.keep >= 0
              /\ j.pc = "sleeping" => j.keep > 0
  PROVE  IInv'
<1>1. handler \in [Handlers -> Coroutines] /\ queue \in Seq(Commands)
  BY DEF IInv, Shape
<1>2. /\ handler' \in [Handlers -> Coroutines]
      /\ \A e \in Handlers : /\ handler'[e].keep >= 0
                             /\ handler'[e].pc = "sleeping" => handler'[e].keep > 0
  BY <1>1 DEF IInv, RuntimesUnderWay
<1>3. /\ queue' \in Seq(Commands) /\ MuteUnderWay'
      /\ \A i \in 1 .. Len(queue') : Positive(queue'[i])
  <2>1. CASE queue' = queue
    BY <2>1, <1>1 DEF IInv, MuteUnderWay, WillHave, RuntimesUnderWay
  <2>2. ASSUME NEW c \in Commands, queue' = Append(queue, c), Positive(c),
               (SaysMute(c) /\ reported.muted # Unknown) => c.muted = reported.muted
        PROVE  /\ queue' \in Seq(Commands) /\ MuteUnderWay'
               /\ \A i \in 1 .. Len(queue') : Positive(queue'[i])
    <3>1. MuteUnderWay'
      <4>1. CASE reported.muted = Unknown
        BY <4>1 DEF MuteUnderWay
      <4>2. CASE reported.muted # Unknown /\ SaysMute(c)
        <5>1. WillHave(device', Append(queue, c), reported.muted)
          BY <4>2, <2>2, <1>1, SayingSettles
        <5> QED BY <5>1, <2>2 DEF MuteUnderWay
      <4>3. CASE reported.muted # Unknown /\ ~SaysMute(c)
        <5>1. WillHave(device, Append(queue, c), reported.muted)
          BY <4>3, <1>1, SilenceKeeps DEF IInv, MuteUnderWay
        <5> QED BY <5>1, <2>2 DEF MuteUnderWay
      <4> QED BY <4>1, <4>2, <4>3
    <3>2. queue' \in Seq(Commands)
      BY <2>2, <1>1, EnqueueAdds
    <3>3. \A i \in 1 .. Len(Append(queue, c)) : Positive(Append(queue, c)[i])
      BY <2>2, <1>1, EnqueuePositive DEF IInv, RuntimesUnderWay
    <3> QED BY <3>1, <3>2, <3>3, <2>2
  <2> QED BY <2>1, <2>2
<1>4. Shape' /\ LeftWhileRunning' /\ EndWhileRunning'
  BY <1>2, <1>3 DEF IInv, Shape, LeftWhileRunning, EndWhileRunning, ShownRuns
<1>5. RuntimesUnderWay'
  BY <1>2, <1>3 DEF RuntimesUnderWay
<1> QED BY <1>3, <1>4, <1>5 DEF IInv

\* A button says nothing of the mute.
LEMMA SetModeKeeps ==
  ASSUME IInv, NEW h \in Handlers, NEW m \in Modes, SetMode(h, m) \/ SetModeV2(h, m)
  PROVE  IInv'
<1>1. ends \in Int /\ "standby" \in Modes
  BY DEF IInv, Shape, Modes
<1>2. \A b \in Modes : Button(b) \in Commands /\ Positive(Button(b)) /\ ~SaysMute(Button(b))
  BY CommandTypes DEF Button, Positive, SaysMute
<1>3. CASE SetMode(h, m)
  <2> DEFINE j == [pc |-> "waiting", target |-> m, keep |-> Preserved(m), late |-> FALSE]
  <2>1. j \in Coroutines /\ j.keep >= 0 /\ j.pc # "sleeping"
    BY <1>1, PreservedPositive DEF Coroutines
  <2>2. /\ queue' = Append(queue, Button(m))
        /\ handler' = [handler EXCEPT ![h] = j]
        /\ UNCHANGED <<model, device, reported, ends, shown>>
    BY <1>3 DEF SetMode, Enqueue, Waits
  <2> HIDE DEF j
  <2> QED BY <2>1, <2>2, <1>2, CoroutineKeeps
<1>4. CASE SetModeV2(h, m)
  <2> DEFINE j == [pc |-> "waiting", target |-> m, keep |-> 0, late |-> FALSE]
  <2>1. j \in Coroutines /\ j.keep >= 0 /\ j.pc # "sleeping"
    BY DEF Coroutines
  <2>2. ToggleFor(m) \subseteq Modes
    BY DEF ToggleFor, Modes, Running
  <2>3. /\ UNCHANGED <<model, device, reported, ends, shown>>
        /\ \/ UNCHANGED <<queue, handler>>
           \/ \E b \in ToggleFor(m) : /\ queue' = Append(queue, Button(b))
                                      /\ handler' = [handler EXCEPT ![h] = j]
    BY <1>4 DEF SetModeV2, Enqueue, Waits
  <2> HIDE DEF j
  <2>4. CASE UNCHANGED <<queue, handler>>
    BY <2>3, <2>4, CoroutineKeeps
  <2>5. ASSUME NEW b \in ToggleFor(m), queue' = Append(queue, Button(b)),
               handler' = [handler EXCEPT ![h] = j]
        PROVE  IInv'
    <3>1. /\ Button(b) \in Commands /\ Positive(Button(b)) /\ ~SaysMute(Button(b))
      BY <2>2, <1>2
    <3> QED BY <3>1, <2>1, <2>3, <2>5, CoroutineKeeps
  <2> QED BY <2>3, <2>4, <2>5
<1> QED BY <1>3, <1>4

\* A runtime that is asked for is one.
LEMMA SetRuntimeKeeps ==
  ASSUME IInv, NEW h \in Handlers, NEW n \in Runtimes, SetRuntime(h, n)
  PROVE  IInv'
<1>1. n \in Int /\ n > 0
  BY ControlAssumption
<1>2. /\ Runtime(n, FALSE) \in Commands /\ ~SaysMute(Runtime(n, FALSE))
      /\ Positive(Runtime(n, FALSE))
  BY <1>1, CommandTypes DEF Runtime, Positive, SaysMute
<1>3. /\ queue' = Append(queue, Runtime(n, FALSE)) \/ queue' = queue
      /\ UNCHANGED <<model, device, reported, ends, shown, handler>>
  BY DEF SetRuntime, Enqueue
<1> QED BY <1>2, <1>3, CoroutineKeeps

\* What is written back is one.
LEMMA RestoresKeeps ==
  ASSUME IInv, NEW h \in Handlers, Restores(h)
  PROVE  IInv'
<1> DEFINE c == Runtime(handler[h].keep, TRUE)
<1>1. handler[h].keep \in Int /\ handler[h].keep > 0
  BY DEF IInv, Shape, Coroutines, RuntimesUnderWay, Restores
<1>2. c \in Commands /\ ~SaysMute(c) /\ Positive(c)
  BY <1>1, CommandTypes DEF Runtime, Positive, SaysMute
<1>3. Idle \in Coroutines /\ Idle.keep >= 0 /\ Idle.pc # "sleeping"
  BY DEF Idle, Coroutines, Modes
<1>4. /\ queue' = Append(queue, c)
      /\ handler' = [handler EXCEPT ![h] = Idle]
      /\ UNCHANGED <<model, device, reported, ends, shown>>
  BY DEF Restores, Enqueue
<1> HIDE DEF c
<1> QED BY <1>2, <1>3, <1>4, CoroutineKeeps

\* The wait is over: set_mode ends, or sleeps with a runtime to write.
LEMMA WaitOverKeeps ==
  ASSUME IInv, NEW h \in Handlers, WaitOver(h)
  PROVE  IInv'
<1>1. /\ handler \in [Handlers -> Coroutines] /\ handler[h].keep >= 0
      /\ handler' = [handler EXCEPT ![h] =
           IF handler[h].keep = 0 THEN Idle ELSE [handler[h] EXCEPT !.pc = "sleeping"]]
      /\ UNCHANGED <<model, device, reported, ends, shown, queue>>
  BY DEF IInv, Shape, RuntimesUnderWay, WaitOver
<1>2. Idle \in Coroutines /\ Idle.keep >= 0 /\ Idle.pc # "sleeping"
  BY DEF Idle, Coroutines, Modes
<1> DEFINE j == [handler[h] EXCEPT !.pc = "sleeping"]
<1>3. CASE handler[h].keep = 0
  BY <1>1, <1>2, <1>3, CoroutineKeeps
<1>4. CASE handler[h].keep # 0
  <2>1. j \in Coroutines /\ j.keep > 0
    BY <1>1, <1>4 DEF Coroutines
  <2>2. handler' = [handler EXCEPT ![h] = j]
    BY <1>1, <1>4
  <2>3. j.keep >= 0
    BY <2>1 DEF Coroutines
  <2> HIDE DEF j
  <2> QED BY <1>1, <2>1, <2>2, <2>3, CoroutineKeeps
<1> QED BY <1>3, <1>4

\* A packet of a V2 carries the mute the daemon knows.
LEMMA SetValueKeeps ==
  ASSUME IInv, NEW h \in Handlers, NEW fan \in BOOLEAN, SetValue(h, fan)
  PROVE  IInv'
<1>1. reported.muted \in Settings
  BY DEF IInv, Shape, Reports
<1>2. \A mode \in Modes :
        /\ Carries(mode) \in Commands /\ Positive(Carries(mode))
        /\ reported.muted # Unknown => Carries(mode).muted = reported.muted
  <2>1. Or(reported.muted, "off") \in Settings
    BY <1>1 DEF Or, Settings
  <2> QED BY <2>1, CommandTypes DEF Carries, Carrying, Or, Positive
<1>3. \E mode \in Modes : queue' = Append(queue, Carries(mode)) \/ queue' = queue
  BY DEF SetValue, Enqueue, Modes, Running
<1>4. UNCHANGED <<model, device, reported, ends, shown, handler>>
  BY DEF SetValue
<1> QED BY <1>2, <1>3, <1>4, CoroutineKeeps

\* Setting the LED or the mute changes the report, its mode excepted.
LEMMA SettingKeeps ==
  ASSUME IInv, NEW c \in Commands, queue' = Append(queue, c), Positive(c),
         UNCHANGED <<model, device, ends, handler>>,
         reported' \in Reports, reported'.mode = reported.mode, shown' = reported.mode,
         reported'.muted # Unknown => WillHave(device, Append(queue, c), reported'.muted)
  PROVE  IInv'
<1>1. queue \in Seq(Commands)
  BY DEF IInv, Shape
<1>2. Shape'
  BY <1>1, EnqueueAdds DEF IInv, Shape
<1>3. MuteUnderWay'
  BY DEF MuteUnderWay
<1>4. RuntimesUnderWay'
  <2>1. \A i \in 1 .. Len(Append(queue, c)) : Positive(Append(queue, c)[i])
    BY <1>1, EnqueuePositive DEF IInv, RuntimesUnderWay
  <2> QED BY <2>1 DEF IInv, RuntimesUnderWay
<1>5. LeftWhileRunning' /\ EndWhileRunning'
  BY DEF IInv, LeftWhileRunning, EndWhileRunning, ShownRuns
<1> QED BY <1>2, <1>3, <1>4, <1>5 DEF IInv

\* On a V2 the packet of the LED carries the mute the daemon knows.
LEMMA SetLedKeeps ==
  ASSUME IInv, NEW h \in Handlers, NEW on \in {"on", "off"}, SetLed(h, on)
  PROVE  IInv'
<1> DEFINE c == IF model = "v2" THEN Led(on, Or(reported.muted, "off")) ELSE Led(on, Unknown)
<1>1. /\ reported \in Reports /\ queue \in Seq(Commands)
      /\ queue' = Append(queue, c)
      /\ reported' = [reported EXCEPT !.led = on] /\ shown' = reported.mode
      /\ UNCHANGED <<model, device, ends, handler>>
  BY DEF IInv, Shape, SetLed, Enqueue
<1>2. /\ reported' \in Reports /\ reported'.mode = reported.mode
      /\ reported'.muted = reported.muted
  BY <1>1 DEF Reports, Settings
<1>3. /\ c \in Commands /\ Positive(c)
      /\ SaysMute(c) /\ reported.muted # Unknown => c.muted = reported.muted
  <2>1. on \in Settings /\ Unknown \in Settings /\ Or(reported.muted, "off") \in Settings
    BY <1>1 DEF Settings, Or, Reports
  <2>2. \A l, m \in Settings : Led(l, m).muted = m /\ Positive(Led(l, m))
    BY DEF Led, Positive
  <2>3. \A l \in Settings : ~SaysMute(Led(l, Unknown))
    BY DEF Led, SaysMute
  <2> QED BY <2>1, <2>2, <2>3, CommandTypes DEF Or
<1> HIDE DEF c
<1>4. reported'.muted # Unknown => WillHave(device, Append(queue, c), reported'.muted)
  BY <1>1, <1>2, <1>3, SayingSettles, SilenceKeeps DEF IInv, MuteUnderWay
<1> QED BY <1>1, <1>2, <1>3, <1>4, SettingKeeps

\* What is reported of the mute is the last to be said of it.
LEMMA SetMutedKeeps ==
  ASSUME IInv, NEW h \in Handlers, NEW on \in {"on", "off"}, SetMuted(h, on)
  PROVE  IInv'
<1> DEFINE c == IF model = "v2" THEN Led("on", on) ELSE Led(Unknown, on)
<1>1. /\ reported \in Reports /\ queue \in Seq(Commands)
      /\ queue' = Append(queue, c)
      /\ reported' = [reported EXCEPT !.muted = on] /\ shown' = reported.mode
      /\ UNCHANGED <<model, device, ends, handler>>
  BY DEF IInv, Shape, SetMuted, Enqueue
<1>2. reported' \in Reports /\ reported'.mode = reported.mode /\ reported'.muted = on
  BY <1>1 DEF Reports, Settings
<1>3. c \in Commands /\ Positive(c) /\ SaysMute(c) /\ c.muted = on
  <2>1. on \in Settings /\ on # Unknown /\ Unknown \in Settings /\ "on" \in Settings
    BY DEF Settings, Unknown
  <2>2. \A l, m \in Settings : Led(l, m).muted = m /\ Positive(Led(l, m))
    BY DEF Led, Positive
  <2>3. \A l, m \in Settings : m # Unknown => SaysMute(Led(l, m))
    BY DEF Led, SaysMute
  <2> QED BY <2>1, <2>2, <2>3, CommandTypes
<1> HIDE DEF c
<1>4. WillHave(device, Append(queue, c), on)
  BY <1>1, <1>3, SayingSettles
<1> QED BY <1>1, <1>2, <1>3, <1>4, SettingKeeps

-----------------------------------------------------------------------------

\* Every step keeps IInv.
LEMMA StepKeeps == IInv /\ [Next]_vars => IInv'
<1> SUFFICES ASSUME IInv, [Next]_vars PROVE IInv'
  OBVIOUS
<1>1. CASE Writes
  BY <1>1, WritesKeeps
<1>2. CASE Notification
  BY <1>2, NotificationKeeps
<1>3. CASE Tick
  BY <1>3, TickKeeps
<1>4. CASE \E m \in Modes : PressedAtDevice(m)
  BY <1>4, PressedAtDeviceKeeps
<1>5. CASE \E h \in Handlers : HandlerStep(h)
  <2>1. PICK h \in Handlers : HandlerStep(h)
    BY <1>5
  <2>2. CASE \E m \in Modes : SetMode(h, m) \/ SetModeV2(h, m)
    BY <2>2, SetModeKeeps
  <2>3. CASE \E n \in Runtimes : SetRuntime(h, n)
    BY <2>3, SetRuntimeKeeps
  <2>4. CASE \E on \in {"on", "off"} : SetLed(h, on) \/ SetMuted(h, on)
    BY <2>4, SetLedKeeps, SetMutedKeeps
  <2>5. CASE \E fan \in BOOLEAN : SetValue(h, fan)
    BY <2>5, SetValueKeeps
  <2>6. CASE WaitOver(h) \/ Restores(h)
    BY <2>6, WaitOverKeeps, RestoresKeeps
  <2> QED BY <2>1, <2>2, <2>3, <2>4, <2>5, <2>6 DEF HandlerStep
<1>6. CASE UNCHANGED vars
  BY <1>6 DEF vars, IInv, Shape, MuteUnderWay, WillHave, RuntimesUnderWay,
              LeftWhileRunning, EndWhileRunning, ShownRuns
<1> QED BY <1>1, <1>2, <1>3, <1>4, <1>5, <1>6 DEF Next

\* IInv always holds.
LEMMA Inductive == Spec => []IInv
<1>1. Init => IInv
  BY InitIInv
<1>2. IInv /\ [Next]_vars => IInv'
  BY StepKeeps
<1> QED BY <1>1, <1>2, PTL DEF Spec

\* However many connections send commands, in whatever order, and whatever
\* is pressed and notified meanwhile: once the daemon knows the mute and the
\* queue is empty, the device has it.
THEOREM MuteHolds == Spec => []MuteKept
<1>1. IInv => MuteKept
  <2>1. queue = <<>> => ~LastSays(queue, reported.muted)
    BY DEF LastSays
  <2> QED BY <2>1 DEF IInv, MuteUnderWay, WillHave, MuteKept
<1> QED BY <1>1, Inductive, PTL

\* Whatever the jitter filter holds back, for every noise and every runtime,
\* the subscribers have been told whether the device runs.
THEOREM ShownHolds == Spec => []ShownRuns
<1>1. IInv => ShownRuns
  BY DEF IInv, EndWhileRunning
<1> QED BY <1>1, Inductive, PTL

-----------------------------------------------------------------------------
\* Types.  Beyond the shapes, the packets of the fan always say something of
\* the mute: the device would otherwise have none.
DeviceType == [mode : Modes, left : 0 .. Longest, led : {"on", "off"}, muted : {"on", "off"}]
CoroutineType == [pc : {"idle", "waiting", "sleeping"}, target : Modes, keep : 0 .. Longest,
                  late : BOOLEAN]
SpentType == [calls : 0 .. MaxCalls, presses : 0 .. MaxPresses]

FanSays == \A i \in 1 .. Len(queue) : queue[i].kind = "fan" => queue[i].muted # Unknown

Typed == TypeOK /\ FanSays

\* The longest runtime is one, and none is longer.
LEMMA LongestIs ==
  /\ Longest \in Nat
  /\ Default \in 0 .. Longest /\ Minute \in 0 .. Longest
  /\ \A n \in Runtimes : n \in 0 .. Longest
<1> DEFINE S == Runtimes \cup {Default, Minute}
<1>1. S \subseteq Nat
  BY ControlAssumption
<1>2. Longest \in S /\ \A k \in S : k =< Longest
  BY LongestAssumption DEF Longest
<1> QED BY <1>1, <1>2

\* The types by name.
LEMMA TypedShapes ==
  ASSUME TypeOK
  PROVE  /\ model \in Models /\ device \in DeviceType /\ reported \in Reports
         /\ ends \in NoEnd .. Longest /\ shown \in Modes /\ asked \in Modes
         /\ queue \in Seq(CommandType) /\ handler \in [Handlers -> CoroutineType]
         /\ due \in 0 .. Longest /\ spent \in SpentType /\ raced \in BOOLEAN
         /\ device.mode = "standby" <=> device.left = 0
  BY DEF TypeOK, DeviceType, Reports, CoroutineType, SpentType

\* No command carries a longer runtime.
LEMMA CommandTypesKnown ==
  /\ \A m \in Modes : Button(m) \in CommandType
  /\ \A n \in 0 .. Longest, own \in BOOLEAN : Runtime(n, own) \in CommandType
  /\ \A l, m \in Settings : Led(l, m) \in CommandType
  /\ \A mode \in Modes, m \in Settings : Carrying(mode, m) \in CommandType
BY LongestIs DEF Button, Runtime, Led, Carrying, CommandType, Modes, Running, Settings, Unknown

\* Adding a command that fits.
LEMMA EnqueueTyped ==
  ASSUME NEW q \in Seq(CommandType), NEW c \in CommandType,
         \A i \in 1 .. Len(q) : q[i].kind = "fan" => q[i].muted # Unknown,
         c.kind = "fan" => c.muted # Unknown
  PROVE  /\ Append(q, c) \in Seq(CommandType)
         /\ \A i \in 1 .. Len(Append(q, c)) :
              Append(q, c)[i].kind = "fan" => Append(q, c)[i].muted # Unknown
<1>1. /\ Append(q, c) \in Seq(CommandType)
      /\ Len(Append(q, c)) = Len(q) + 1 /\ Len(q) \in Nat
      /\ \A i \in 1 .. Len(q) : Append(q, c)[i] = q[i]
      /\ Append(q, c)[Len(q) + 1] = c
  BY EnqueueAdds
<1>2. \A i \in 1 .. Len(Append(q, c)) : i \in 1 .. Len(q) \/ i = Len(q) + 1
  BY <1>1
<1> QED BY <1>1, <1>2

\* A mode comes with its default runtime.
LEMMA TurnedTyped ==
  ASSUME NEW m \in Modes, device \in DeviceType
  PROVE  /\ Turned(device, m) \in DeviceType
         /\ Turned(device, m).mode = m
         /\ Turned(device, m).left = IF m = "standby" THEN 0 ELSE Default
<1> DEFINE left == IF m = "standby" THEN 0 ELSE Default
<1>1. left \in 0 .. Longest
  BY LongestIs
<1>2. Turned(device, m) = [device EXCEPT !.mode = m, !.left = left]
  BY DEF Turned
<1> HIDE DEF left
<1>3. /\ Turned(device, m) \in DeviceType
      /\ Turned(device, m).mode = m /\ Turned(device, m).left = left
  BY <1>1, <1>2 DEF DeviceType
<1> QED BY <1>3 DEF left

\* A command leaves the device one of its states.
LEMMA AppliedTyped ==
  ASSUME NEW c \in CommandType, device \in DeviceType, c.kind = "fan" => c.muted # Unknown
  PROVE  Applied(device, c) \in DeviceType
<1>1. /\ c.kind \in Kinds /\ c.mode \in Modes /\ c.n \in 0 .. Longest
      /\ c.led \in Settings /\ c.muted \in Settings
      /\ \A s \in Settings : s # Unknown => s \in {"on", "off"}
  BY DEF CommandType, Kinds, Settings, Unknown
<1>2. CASE c.kind = "button"
  <2>1. Applied(device, c) = Pressed(device, c.mode)
    BY <1>2 DEF Applied
  <2>2. "standby" \in Modes
    BY DEF Modes
  <2> QED BY <2>1, <2>2, <1>1, TurnedTyped DEF Pressed
<1>3. CASE c.kind \in {"runtime", "kept"}
  <2>1. Applied(device, c) = IF device.mode \in Running THEN [device EXCEPT !.left = c.n]
                             ELSE device
    BY <1>3 DEF Applied
  <2> QED BY <2>1, <1>1 DEF DeviceType
<1>4. CASE c.kind = "settings"
  <2>1. Applied(device, c) =
          [device EXCEPT !.led = IF c.led = Unknown THEN @ ELSE c.led,
                         !.muted = IF c.muted = Unknown THEN @ ELSE c.muted]
    BY <1>4 DEF Applied
  <2> QED BY <2>1, <1>1 DEF DeviceType
<1>5. CASE c.kind = "fan"
  <2>1. Applied(device, c) =
          [device EXCEPT !.mode = IF device.mode \in Running /\ c.mode \in Running
                                  THEN c.mode ELSE @,
                         !.muted = c.muted]
    BY <1>5 DEF Applied
  <2>2. c.muted \in {"on", "off"}
    BY <1>1, <1>5
  <2> QED BY <2>1, <2>2, <1>1 DEF DeviceType
<1> QED BY <1>1, <1>2, <1>3, <1>4, <1>5 DEF Kinds

\* The runtime that is preserved is not longer than the one that was left.
LEMMA PreservedTyped ==
  ASSUME NEW target, ends \in NoEnd .. Longest
  PROVE  /\ Preserved(target) \in 0 .. Longest
         /\ Preserved(target) > 0 => target \in Running /\ reported.mode \in Running
         /\ target \in Running /\ reported.mode \in Running => Preserved(target) > 0
         /\ Preserved(target) > 0 => Preserved(target) >= ends - Minute
         /\ Preserved(target) = 0 \/ Preserved(target) = Minute
              \/ (ends >= Preserved(target) /\ ends > Minute)
         /\ ends < 2 * Minute => Preserved(target) =< Minute
<1>1. Minute \in Nat /\ Minute > 0 /\ Longest \in Nat /\ ends \in Int /\ Minute =< Longest
      /\ ends =< Longest
  BY ControlAssumption, LongestIs DEF NoEnd
<1>2. CASE ends > Minute
  <2> DEFINE k == ends \div Minute
  <2>1. /\ k \in Int /\ k >= 1 /\ k * Minute =< ends /\ k * Minute > ends - Minute
        /\ k * Minute \in Int
        /\ ends < 2 * Minute => k = 1
    BY <1>1, <1>2
  <2>2. k * Minute > 0
    BY <1>1, <1>2, <2>1
  <2> HIDE DEF k
  <2>3. k = 1 => k * Minute = Minute
    BY <1>1
  <2>4. Preserved(target) = IF target \in Running /\ reported.mode \in Running
                            THEN k * Minute ELSE 0
    BY <1>2 DEF Preserved, k
  <2> DEFINE p == k * Minute
  <2>5. p \in Int /\ p =< ends /\ p > ends - Minute /\ p > 0
    BY <2>1, <2>2
  <2>6. ends < 2 * Minute => p = Minute
    BY <2>1, <2>3
  <2>7. Preserved(target) = IF target \in Running /\ reported.mode \in Running
                            THEN p ELSE 0
    BY <2>4
  <2> HIDE DEF p
  <2> QED BY <1>1, <1>2, <2>5, <2>6, <2>7
<1>3. CASE ~(ends > Minute)
  BY <1>1, <1>3 DEF Preserved
<1> QED BY <1>2, <1>3

\* What a coroutine does: at most one command is added and one coroutine moves.
LEMMA CoroutineTyped ==
  ASSUME Typed, NEW h \in Handlers,
         UNCHANGED <<model, device, ends, due>>,
         reported' \in Reports, shown' \in Modes, asked' \in Modes, raced' \in BOOLEAN,
         spent' \in SpentType,
         \/ queue' = queue
         \/ \E c \in CommandType :
              queue' = Append(queue, c) /\ (c.kind = "fan" => c.muted # Unknown),
         handler' = handler \/ \E j \in CoroutineType : handler' = [handler EXCEPT ![h] = j]
  PROVE  Typed'
<1>1. handler \in [Handlers -> CoroutineType] /\ queue \in Seq(CommandType) /\ TypeOK
      /\ FanSays
  BY TypedShapes DEF Typed
<1>2. handler' \in [Handlers -> CoroutineType]
  BY <1>1
<1>3. queue' \in Seq(CommandType) /\ FanSays'
  BY <1>1, EnqueueTyped DEF FanSays
<1>4. TypeOK'
  BY <1>1, <1>2, <1>3 DEF TypeOK, Reports, CoroutineType, SpentType
<1> QED BY <1>3, <1>4 DEF Typed

\* A call is counted.
LEMMA CallTyped ==
  ASSUME TypeOK, Call
  PROVE  /\ spent' \in SpentType /\ spent'.calls = spent.calls + 1
         /\ spent.calls \in Nat
<1>1. spent \in SpentType /\ spent.calls < MaxCalls
      /\ spent' = [spent EXCEPT !.calls = @ + 1]
  BY TypedShapes DEF Call
<1>2. spent.calls \in 0 .. MaxCalls
  BY <1>1 DEF SpentType
<1>3. spent.calls + 1 \in 0 .. MaxCalls /\ spent.calls \in Nat
  BY <1>1, <1>2, ControlAssumption
<1> QED BY <1>1, <1>3 DEF SpentType

\* The worker writes: what is owed stays a runtime.
LEMMA WritesTyped == IInv /\ Typed /\ Writes => Typed'
<1> SUFFICES ASSUME IInv, Typed, Writes PROVE Typed'
  OBVIOUS
<1> DEFINE c == Head(queue)
<1>1. /\ queue \in Seq(CommandType) /\ queue # <<>> /\ device \in DeviceType
      /\ device' = Applied(device, c) /\ queue' = Tail(queue)
      /\ due' = DueAfter(c, device, device')
      /\ UNCHANGED <<model, reported, ends, shown, handler, asked, raced, spent>>
      /\ TypeOK /\ due \in 0 .. Longest
  BY TypedShapes DEF Typed, Writes
<1>2. /\ c \in CommandType /\ c = queue[1] /\ queue' \in Seq(CommandType)
      /\ Len(queue) \in Nat \ {0} /\ Len(queue') = Len(queue) - 1
      /\ \A i \in 1 .. Len(queue) - 1 : queue'[i] = queue[i + 1]
  BY <1>1, TailShifts
<1>3. c.kind = "fan" => c.muted # Unknown
  BY <1>2 DEF Typed, FanSays
<1>4. device' \in DeviceType
  BY <1>1, <1>2, <1>3, AppliedTyped
<1>5. device'.mode = "standby" <=> device'.left = 0
  <2>1. IInv'
    BY WritesKeeps
  <2> QED BY <2>1 DEF IInv, LeftWhileRunning
<1>6. due' \in 0 .. Longest
  <2>1. c.n \in 0 .. Longest /\ device'.left \in 0 .. Longest /\ 0 \in 0 .. Longest
    BY <1>2, <1>4, LongestIs DEF CommandType, DeviceType
  <2> QED BY <2>1, <1>1 DEF DueAfter
<1>7. FanSays'
  <2>1. \A i \in 1 .. Len(queue') : i + 1 \in 1 .. Len(queue) /\ queue'[i] = queue[i + 1]
    BY <1>2
  <2> QED BY <2>1 DEF Typed, FanSays
<1>8. TypeOK'
  BY <1>1, <1>2, <1>4, <1>5, <1>6 DEF TypeOK, DeviceType
<1> QED BY <1>7, <1>8 DEF Typed

\* A tick.
LEMMA TickTyped == IInv /\ Typed /\ Tick => Typed'
<1> SUFFICES ASSUME IInv, Typed, Tick PROVE Typed'
  OBVIOUS
<1>1. /\ device \in DeviceType /\ device.mode \in Running /\ ends \in NoEnd .. Longest
      /\ handler \in [Handlers -> CoroutineType]
      /\ device' = IF device.left > 1 THEN [device EXCEPT !.left = @ - 1]
                   ELSE Turned(device, "standby")
      /\ due' = IF device'.mode = "standby" \/ due = 0 THEN 0 ELSE due - 1
      /\ asked' = IF device'.mode = "standby" THEN "standby" ELSE asked
      /\ ends' = IF ends >= 0 THEN ends - 1 ELSE ends
      /\ handler' = [h \in Handlers |-> [handler[h] EXCEPT !.late = Busy(h)]]
      /\ raced' = (raced \/ (device'.mode = "standby" /\ ~Quiet))
      /\ UNCHANGED <<model, reported, shown, queue, spent>>
      /\ TypeOK /\ due \in 0 .. Longest /\ "standby" \in Modes
  BY TypedShapes DEF Typed, Tick, Modes
<1>2. device' \in DeviceType
  <2>1. CASE device.left > 1
    <3>1. device.left \in 0 .. Longest
      BY <1>1 DEF DeviceType
    <3>2. device.left - 1 \in 0 .. Longest
      BY <2>1, <3>1, LongestIs
    <3> QED BY <2>1, <3>2, <1>1 DEF DeviceType
  <2>2. CASE ~(device.left > 1)
    BY <2>2, <1>1, TurnedTyped
  <2> QED BY <2>1, <2>2
<1>3. device'.mode = "standby" <=> device'.left = 0
  <2>1. IInv'
    BY TickKeeps
  <2> QED BY <2>1 DEF IInv, LeftWhileRunning
<1>4. due' \in 0 .. Longest /\ ends' \in NoEnd .. Longest
  <2>1. due' \in 0 .. Longest
    <3>1. due' = 0 \/ (due # 0 /\ due' = due - 1)
      BY <1>1
    <3>2. due \in 0 .. Longest /\ Longest \in Nat
      BY <1>1, LongestIs
    <3> QED BY <3>1, <3>2
  <2>2. ends \in Int /\ ends >= NoEnd /\ ends =< Longest /\ Longest \in Nat
    BY <1>1, LongestIs DEF NoEnd
  <2>3. ends' = ends \/ (ends >= 0 /\ ends' = ends - 1)
    BY <1>1
  <2>4. ends' \in NoEnd .. Longest
    BY <2>2, <2>3 DEF NoEnd
  <2> QED BY <2>1, <2>4
<1>5. handler' \in [Handlers -> CoroutineType]
  <2> SUFFICES ASSUME NEW h \in Handlers
               PROVE  [handler[h] EXCEPT !.late = Busy(h)] \in CoroutineType
    BY <1>1
  <2>1. Busy(h) \in BOOLEAN
    BY DEF Busy
  <2>2. handler[h] \in CoroutineType
    BY <1>1
  <2> QED BY <2>1, <2>2 DEF CoroutineType
<1>6. asked' \in Modes /\ raced' \in BOOLEAN
  BY <1>1 DEF TypeOK
<1>7. TypeOK'
  BY <1>1, <1>2, <1>3, <1>4, <1>5, <1>6 DEF TypeOK, DeviceType, CoroutineType
<1>8. FanSays'
  BY <1>1 DEF Typed, FanSays
<1> QED BY <1>7, <1>8 DEF Typed

\* A notification: an end time is a runtime that is left.
LEMMA NotificationTyped == IInv /\ Typed /\ Notification => Typed'
<1> SUFFICES ASSUME IInv, Typed, Notification PROVE Typed'
  OBVIOUS
<1>1. /\ device \in DeviceType /\ reported \in Reports /\ ends \in NoEnd .. Longest
      /\ reported' = [reported EXCEPT !.mode = device.mode]
      /\ ends' = ends \/ ends' = EndOf(device.left)
      /\ shown' = device.mode \/ shown' = shown
      /\ UNCHANGED <<model, device, queue, handler, asked, due, raced, spent>>
      /\ TypeOK
  BY TypedShapes DEF Typed, Notification
<1>2. device.mode \in Modes /\ device.left \in 0 .. Longest
  BY <1>1 DEF DeviceType
<1>3. EndOf(device.left) \in NoEnd .. Longest
  BY <1>2, LongestIs DEF EndOf, NoEnd
<1>4. reported' \in Reports
  BY <1>1, <1>2 DEF Reports
<1>5. TypeOK'
  BY <1>1, <1>2, <1>3, <1>4 DEF TypeOK, Reports
<1>6. FanSays'
  BY <1>1 DEF Typed, FanSays
<1> QED BY <1>5, <1>6 DEF Typed

\* A button pressed at the device.
LEMMA PressedTyped ==
  ASSUME IInv, Typed, NEW m \in Modes, PressedAtDevice(m)
  PROVE  Typed'
<1>1. /\ device \in DeviceType /\ device' = Pressed(device, m)
      /\ asked' = device'.mode /\ due' = device'.left
      /\ raced' = (raced \/ ~Quiet)
      /\ spent.presses < MaxPresses /\ spent' = [spent EXCEPT !.presses = @ + 1]
      /\ UNCHANGED <<model, reported, ends, shown, queue, handler>>
      /\ TypeOK /\ spent \in SpentType /\ "standby" \in Modes
  BY TypedShapes DEF Typed, PressedAtDevice, Modes
<1>2. device' \in DeviceType
  BY <1>1, TurnedTyped DEF Pressed
<1>3. device'.mode = "standby" <=> device'.left = 0
  <2>1. IInv'
    BY PressedAtDeviceKeeps
  <2> QED BY <2>1 DEF IInv, LeftWhileRunning
<1>4. spent' \in SpentType
  <2>1. spent.presses + 1 \in 0 .. MaxPresses
    BY <1>1, ControlAssumption DEF SpentType
  <2> QED BY <1>1, <2>1 DEF SpentType
<1>5. asked' \in Modes /\ due' \in 0 .. Longest /\ raced' \in BOOLEAN
  BY <1>1, <1>2 DEF DeviceType, TypeOK
<1>6. TypeOK'
  BY <1>1, <1>2, <1>3, <1>4, <1>5 DEF TypeOK, DeviceType, SpentType
<1>7. FanSays'
  BY <1>1 DEF Typed, FanSays
<1> QED BY <1>6, <1>7 DEF Typed

\* The commands.
LEMMA HandlerTyped ==
  ASSUME IInv, Typed, NEW h \in Handlers, HandlerStep(h)
  PROVE  Typed'
<1>1. /\ reported \in Reports /\ ends \in NoEnd .. Longest /\ shown \in Modes
      /\ asked \in Modes /\ raced \in BOOLEAN /\ spent \in SpentType /\ TypeOK
      /\ handler[h] \in CoroutineType
      /\ reported.mode \in Modes /\ reported.muted \in Settings
  BY TypedShapes DEF Typed, Reports
<1>2. Idle \in CoroutineType
  BY LongestIs DEF Idle, CoroutineType, Modes
<1>3. ASSUME NEW m \in Modes, SetMode(h, m) PROVE Typed'
  <2> DEFINE j == [pc |-> "waiting", target |-> m, keep |-> Preserved(m), late |-> FALSE]
  <2>1. j \in CoroutineType
    BY <1>1, PreservedTyped DEF CoroutineType
  <2>2. Button(m) \in CommandType /\ Button(m).kind # "fan"
    BY CommandTypesKnown DEF Button
  <2>3. /\ queue' = Append(queue, Button(m)) /\ handler' = [handler EXCEPT ![h] = j]
        /\ UNCHANGED <<model, device, reported, ends, shown, due>>
        /\ asked' = m /\ raced' = (raced \/ ~Fresh) /\ Call
    BY <1>3 DEF SetMode, Enqueue, Waits
  <2>4. raced' \in BOOLEAN
    BY <2>3
  <2> HIDE DEF j
  <2> QED BY <1>1, <2>1, <2>2, <2>3, <2>4, CallTyped, CoroutineTyped
<1>4. ASSUME NEW m \in Modes, SetModeV2(h, m) PROVE Typed'
  <2> DEFINE j == [pc |-> "waiting", target |-> m, keep |-> 0, late |-> FALSE]
  <2>1. j \in CoroutineType
    BY LongestIs DEF CoroutineType
  <2>2. \A b \in ToggleFor(m) : Button(b) \in CommandType /\ Button(b).kind # "fan"
    <3>1. ToggleFor(m) \subseteq Modes
      BY DEF ToggleFor, Modes, Running
    <3> QED BY <3>1, CommandTypesKnown DEF Button
  <2>3. /\ \/ UNCHANGED <<queue, handler>>
           \/ \E b \in ToggleFor(m) : queue' = Append(queue, Button(b))
                                      /\ handler' = [handler EXCEPT ![h] = j]
        /\ UNCHANGED <<model, device, reported, ends, shown, due>>
        /\ asked' = (IF m = "dry" THEN asked ELSE m) /\ raced' = (raced \/ ~Fresh) /\ Call
    BY <1>4 DEF SetModeV2, Enqueue, Waits
  <2>4. raced' \in BOOLEAN /\ asked' \in Modes
    BY <1>1, <2>3
  <2>5. spent' \in SpentType
    BY <1>1, <2>3, CallTyped
  <2> HIDE DEF j
  <2>6. CASE UNCHANGED <<queue, handler>>
    BY <1>1, <2>3, <2>4, <2>5, <2>6, CoroutineTyped
  <2>7. ASSUME NEW b \in ToggleFor(m), queue' = Append(queue, Button(b)),
               handler' = [handler EXCEPT ![h] = j]
        PROVE  Typed'
    BY <1>1, <2>1, <2>2, <2>3, <2>4, <2>5, <2>7, CoroutineTyped
  <2> QED BY <2>3, <2>6, <2>7
<1>5. ASSUME NEW n \in Runtimes, SetRuntime(h, n) PROVE Typed'
  <2>1. Runtime(n, FALSE) \in CommandType /\ Runtime(n, FALSE).kind # "fan"
    BY LongestIs, CommandTypesKnown DEF Runtime
  <2>2. /\ queue' = Append(queue, Runtime(n, FALSE)) \/ queue' = queue
        /\ UNCHANGED <<model, device, reported, ends, shown, handler, asked, due>>
        /\ raced' = (raced \/ ~Quiet) /\ Call
    BY <1>5 DEF SetRuntime, Enqueue, Overtakes
  <2>3. raced' \in BOOLEAN /\ spent' \in SpentType
    BY <1>1, <2>2, CallTyped
  <2> QED BY <1>1, <2>1, <2>2, <2>3, CoroutineTyped
<1>6. \A l, m \in Settings : Led(l, m) \in CommandType /\ Led(l, m).kind # "fan"
  BY CommandTypesKnown DEF Led
<1>7. /\ Unknown \in Settings /\ "on" \in Settings /\ "off" \in Settings
      /\ Or(reported.muted, "off") \in {"on", "off"}
  BY <1>1 DEF Settings, Or, Unknown
<1>8. ASSUME NEW on \in {"on", "off"}, SetLed(h, on) \/ SetMuted(h, on) PROVE Typed'
  <2>1. \E l, m \in Settings : queue' = Append(queue, Led(l, m))
    BY <1>7, <1>8 DEF SetLed, SetMuted, Enqueue
  <2>2. /\ UNCHANGED <<model, device, ends, handler, asked, due>> /\ shown' = reported.mode
        /\ raced' = (raced \/ ~Quiet) /\ Call
        /\ \/ reported' = [reported EXCEPT !.led = on]
           \/ reported' = [reported EXCEPT !.muted = on]
    BY <1>8 DEF SetLed, SetMuted, Overtakes
  <2>3. raced' \in BOOLEAN /\ spent' \in SpentType /\ reported' \in Reports
    BY <1>1, <1>7, <2>2, CallTyped DEF Reports
  <2> QED BY <1>1, <1>6, <2>1, <2>2, <2>3, CoroutineTyped
<1>9. ASSUME NEW fan \in BOOLEAN, SetValue(h, fan) PROVE Typed'
  <2>1. \A mode \in Modes : Carries(mode) \in CommandType /\ Carries(mode).muted # Unknown
    BY <1>7, CommandTypesKnown DEF Carries, Carrying, Unknown
  <2>2. \E mode \in Modes : queue' = Append(queue, Carries(mode)) \/ queue' = queue
    BY <1>9 DEF SetValue, Enqueue, Modes, Running
  <2>3. /\ UNCHANGED <<model, device, reported, ends, shown, handler, asked, due>>
        /\ raced' = (raced \/ (IF model = "v2" /\ fan THEN ~Fresh ELSE ~Quiet))
        /\ Call
    BY <1>9 DEF SetValue
  <2>4. raced' \in BOOLEAN /\ spent' \in SpentType
    BY <1>1, <2>3, CallTyped
  <2> QED BY <1>1, <2>1, <2>2, <2>3, <2>4, CoroutineTyped
<1>10. CASE WaitOver(h)
  <2>1. [handler[h] EXCEPT !.pc = "sleeping"] \in CoroutineType
    BY <1>1 DEF CoroutineType
  <2>2. /\ \E j \in CoroutineType : handler' = [handler EXCEPT ![h] = j]
        /\ UNCHANGED <<model, device, reported, ends, shown, queue, asked, due, raced, spent>>
    BY <1>2, <1>10, <2>1 DEF WaitOver
  <2> QED BY <1>1, <2>2, CoroutineTyped
<1>11. CASE Restores(h)
  <2>1. /\ Runtime(handler[h].keep, TRUE) \in CommandType
        /\ Runtime(handler[h].keep, TRUE).kind # "fan"
    BY <1>1, CommandTypesKnown DEF Runtime, CoroutineType
  <2>2. /\ queue' = Append(queue, Runtime(handler[h].keep, TRUE))
        /\ handler' = [handler EXCEPT ![h] = Idle]
        /\ UNCHANGED <<model, device, reported, ends, shown, asked, due, raced, spent>>
    BY <1>11 DEF Restores, Enqueue
  <2> QED BY <1>1, <1>2, <2>1, <2>2, CoroutineTyped
<1> QED BY <1>3, <1>4, <1>5, <1>8, <1>9, <1>10, <1>11 DEF HandlerStep

\* The daemon starts with types.
LEMMA InitTyped == Init => Typed
<1> SUFFICES ASSUME Init PROVE Typed
  OBVIOUS
<1> USE DEF Init, Modes, Running, Settings, Unknown
<1>1. /\ device \in DeviceType /\ (device.mode = "standby" <=> device.left = 0)
      /\ device.left \in 0 .. Longest /\ asked \in Modes
  BY LongestIs, ControlAssumption DEF DeviceType
<1>2. reported \in Reports
  BY DEF Reports
<1>3. handler \in [Handlers -> CoroutineType]
  BY LongestIs DEF Idle, CoroutineType
<1>4. spent \in SpentType /\ ends \in NoEnd .. Longest
  BY LongestIs, ControlAssumption DEF SpentType, NoEnd
<1>5. raced \in BOOLEAN
  BY Zenon
<1>6. TypeOK
  BY <1>1, <1>2, <1>3, <1>4, <1>5 DEF TypeOK, DeviceType, Reports, CoroutineType, SpentType,
    Models
<1>7. FanSays
  BY DEF FanSays
<1> QED BY <1>6, <1>7 DEF Typed

\* Every step keeps the types.
LEMMA StepTyped == IInv /\ Typed /\ [Next]_vars => Typed'
<1> SUFFICES ASSUME IInv, Typed, [Next]_vars PROVE Typed'
  OBVIOUS
<1>1. CASE Writes \/ Notification \/ Tick
  BY <1>1, WritesTyped, NotificationTyped, TickTyped
<1>2. CASE \E m \in Modes : PressedAtDevice(m)
  BY <1>2, PressedTyped
<1>3. CASE \E h \in Handlers : HandlerStep(h)
  BY <1>3, HandlerTyped
<1>4. CASE UNCHANGED vars
  BY <1>4 DEF vars, Typed, TypeOK, FanSays
<1> QED BY <1>1, <1>2, <1>3, <1>4 DEF Next

\* No runtime on its way, kept or left is longer than one that was asked for
\* or that the firmware gives, and a device runs exactly while it has some.
THEOREM TypeHolds == Spec => []TypeOK
<1>1. Typed => TypeOK
  BY DEF Typed
<1> QED BY <1>1, Inductive, InitTyped, StepTyped, PTL DEF Spec

-----------------------------------------------------------------------------
\* The mode.  While no decision is out of date, at most the first command of
\* the queue changes it (what follows is a runtime that is written back), and
\* that command lands in the mode asked for.

\* The mode in which device mode m of model v ends up on command c.
LandsIn(v, m, c) ==
  CASE c.kind = "button" -> IF v = "v2" /\ m = c.mode THEN "standby" ELSE c.mode
    [] c.kind = "fan" -> IF m \in Running /\ c.mode \in Running THEN c.mode ELSE m
    [] OTHER -> m

Lands == IF queue = <<>> THEN device.mode ELSE LandsIn(model, device.mode, queue[1])

OnlyKept == \A i \in 2 .. Len(queue) : queue[i].kind = "kept"

\* A V2 has no button for DRY and never runs in it.
NoDry ==
  model = "v2" =>
    /\ device.mode # "dry"
    /\ \A i \in 1 .. Len(queue) : queue[i].kind \in {"button", "fan"} => queue[i].mode # "dry"

Settled == ~raced => OnlyKept /\ Lands = asked

ModeInv == IInv /\ Typed /\ NoDry /\ Settled

\* What a command does to the mode and to the runtime.
LEMMA AppliedLands ==
  ASSUME NEW c \in CommandType, device \in DeviceType, model \in Models
  PROVE  /\ Applied(device, c).mode = LandsIn(model, device.mode, c)
         /\ c.kind = "button" =>
              Applied(device, c).left =
                IF Applied(device, c).mode = "standby" THEN 0 ELSE Default
         /\ c.kind \in {"runtime", "kept"} =>
              Applied(device, c).left = IF device.mode \in Running THEN c.n ELSE device.left
         /\ c.kind \in {"settings", "fan"} => Applied(device, c).left = device.left
<1>1. c.kind \in Kinds /\ c.mode \in Modes /\ "standby" \in Modes
  BY DEF CommandType, Kinds, Modes
<1>2. CASE c.kind = "button"
  <2>1. Applied(device, c) = Pressed(device, c.mode)
    BY <1>2 DEF Applied
  <2>2. LandsIn(model, device.mode, c) =
          IF model = "v2" /\ device.mode = c.mode THEN "standby" ELSE c.mode
    BY <1>2 DEF LandsIn
  <2> QED BY <1>1, <1>2, <2>1, <2>2, TurnedTyped DEF Pressed
<1>3. CASE c.kind \in {"runtime", "kept"}
  <2>1. Applied(device, c) = IF device.mode \in Running THEN [device EXCEPT !.left = c.n]
                             ELSE device
    BY <1>3 DEF Applied
  <2>2. LandsIn(model, device.mode, c) = device.mode
    BY <1>3 DEF LandsIn
  <2> QED BY <1>3, <2>1, <2>2 DEF DeviceType
<1>4. CASE c.kind = "settings"
  <2>1. Applied(device, c) =
          [device EXCEPT !.led = IF c.led = Unknown THEN @ ELSE c.led,
                         !.muted = IF c.muted = Unknown THEN @ ELSE c.muted]
    BY <1>4 DEF Applied
  <2>2. LandsIn(model, device.mode, c) = device.mode
    BY <1>4 DEF LandsIn
  <2> QED BY <1>4, <2>1, <2>2 DEF DeviceType
<1>5. CASE c.kind = "fan"
  <2>1. Applied(device, c) =
          [device EXCEPT !.mode = IF device.mode \in Running /\ c.mode \in Running
                                  THEN c.mode ELSE @,
                         !.muted = c.muted]
    BY <1>5 DEF Applied
  <2>2. LandsIn(model, device.mode, c) =
          IF device.mode \in Running /\ c.mode \in Running THEN c.mode ELSE device.mode
    BY <1>5 DEF LandsIn
  <2> QED BY <1>5, <2>1, <2>2 DEF DeviceType
<1> QED BY <1>1, <1>2, <1>3, <1>4, <1>5 DEF Kinds

\* The entries of a queue one command longer.
LEMMA AppendEntries ==
  ASSUME NEW q \in Seq(CommandType), NEW c \in CommandType
  PROVE  /\ Append(q, c) # <<>>
         /\ q = <<>> => Append(q, c)[1] = c
         /\ q # <<>> => Append(q, c)[1] = q[1]
         /\ \A i \in 1 .. Len(Append(q, c)) :
              \/ i \in 1 .. Len(q) /\ Append(q, c)[i] = q[i]
              \/ i = Len(q) + 1 /\ Append(q, c)[i] = c
         /\ \A i \in 1 .. Len(q) : i \in 1 .. Len(Append(q, c)) /\ Append(q, c)[i] = q[i]
         /\ Len(q) + 1 \in 1 .. Len(Append(q, c)) /\ Append(q, c)[Len(q) + 1] = c
         /\ q = <<>> <=> Len(q) = 0
         /\ Len(q) \in Nat
<1>1. /\ Append(q, c) \in Seq(CommandType)
      /\ Len(Append(q, c)) = Len(q) + 1 /\ Len(q) \in Nat
      /\ \A i \in 1 .. Len(q) : Append(q, c)[i] = q[i]
      /\ Append(q, c)[Len(q) + 1] = c
  BY EnqueueAdds
<1>2. q = <<>> <=> Len(q) = 0
  BY EmptySeq, <1>1
<1>3. Append(q, c) # <<>>
  BY <1>1, EmptySeq
<1>4. \A i \in 1 .. Len(Append(q, c)) : i \in 1 .. Len(q) \/ i = Len(q) + 1
  BY <1>1
<1>5. q # <<>> => 1 \in 1 .. Len(q)
  BY <1>1, <1>2
<1> QED BY <1>1, <1>2, <1>3, <1>4, <1>5

\* The entries of a queue whose first command is written.
LEMMA TailEntries ==
  ASSUME NEW q \in Seq(CommandType), q # <<>>
  PROVE  /\ Head(q) = q[1] /\ Head(q) \in CommandType
         /\ 1 \in 1 .. Len(q) /\ Len(q) \in Nat /\ Len(Tail(q)) \in Nat
         /\ \A i \in 1 .. Len(Tail(q)) : i + 1 \in 2 .. Len(q) /\ i + 1 \in 1 .. Len(q)
                                         /\ Tail(q)[i] = q[i + 1]
         /\ \A i \in 2 .. Len(q) : i - 1 \in 1 .. Len(Tail(q)) /\ Tail(q)[i - 1] = q[i]
         /\ Tail(q) # <<>> => 1 \in 1 .. Len(Tail(q))
<1>1. /\ Head(q) \in CommandType /\ Head(q) = q[1] /\ Tail(q) \in Seq(CommandType)
      /\ Len(q) \in Nat \ {0} /\ Len(Tail(q)) = Len(q) - 1
      /\ \A i \in 1 .. Len(q) - 1 : Tail(q)[i] = q[i + 1]
  BY TailShifts
<1>2. \A i \in 2 .. Len(q) : i - 1 \in 1 .. Len(q) - 1 /\ (i - 1) + 1 = i
  BY <1>1
<1>3. Tail(q) # <<>> => Len(Tail(q)) # 0
  BY <1>1, EmptySeq
<1> QED BY <1>1, <1>2, <1>3

\* The first command lands in the mode asked for; none of the others moves it.
LEMMA WritesSettled == ModeInv /\ Writes => NoDry' /\ Settled'
<1> SUFFICES ASSUME ModeInv, Writes PROVE NoDry' /\ Settled'
  OBVIOUS
<1> DEFINE c == queue[1]
<1>1. /\ queue \in Seq(CommandType) /\ queue # <<>> /\ device \in DeviceType
      /\ model \in Models
      /\ device' = Applied(device, c) /\ queue' = Tail(queue) /\ c \in CommandType
      /\ UNCHANGED <<model, asked, raced>>
  BY TypedShapes, TailEntries DEF ModeInv, Typed, Writes
<1>2. device'.mode = LandsIn(model, device.mode, c)
  BY <1>1, AppliedLands
<1>3. /\ 1 \in 1 .. Len(queue)
      /\ \A i \in 1 .. Len(queue') : i + 1 \in 2 .. Len(queue) /\ i + 1 \in 1 .. Len(queue)
                                     /\ queue'[i] = queue[i + 1]
      /\ queue' # <<>> => 1 \in 1 .. Len(queue')
  BY <1>1, TailEntries
<1>4. NoDry'
  <2>1. model = "v2" => device'.mode # "dry"
    BY <1>2, <1>3 DEF LandsIn, ModeInv, NoDry
  <2> QED BY <1>1, <1>3, <2>1 DEF ModeInv, NoDry
<1>5. ASSUME ~raced PROVE OnlyKept' /\ Lands' = asked'
  <2>1. device'.mode = asked
    BY <1>1, <1>2, <1>5 DEF ModeInv, Settled, Lands
  <2>2. \A i \in 1 .. Len(queue') : queue'[i].kind = "kept"
    BY <1>3, <1>5 DEF ModeInv, Settled, OnlyKept
  <2>3. OnlyKept'
    BY <2>2 DEF OnlyKept
  <2>4. Lands' = device'.mode
    BY <1>3, <2>2 DEF Lands, LandsIn
  <2> QED BY <1>1, <2>1, <2>3, <2>4
<1> QED BY <1>1, <1>4, <1>5 DEF Settled

\* A command that is added when nothing is under way.
LEMMA CallSettled ==
  ASSUME ModeInv, UNCHANGED <<model, device>>, NEW c \in CommandType,
         queue' = Append(queue, c),
         model = "v2" /\ c.kind \in {"button", "fan"} => c.mode # "dry",
         ~raced' => /\ ~raced /\ queue = <<>>
                    /\ LandsIn(model, device.mode, c) = asked'
  PROVE  NoDry' /\ Settled'
<1>1. queue \in Seq(CommandType)
  BY TypedShapes DEF ModeInv, Typed
<1>2. NoDry'
  BY <1>1, AppendEntries DEF ModeInv, NoDry
<1>3. ASSUME ~raced' PROVE OnlyKept' /\ Lands' = asked'
  <2>1. queue = <<>> /\ Len(queue) = 0
    BY <1>1, <1>3, AppendEntries
  <2>2. queue'[1] = c /\ queue' # <<>> /\ \A i \in 1 .. Len(queue') : i = 1
    BY <1>1, <2>1, AppendEntries
  <2>3. OnlyKept'
    BY <2>1, <1>1, EnqueueAdds DEF OnlyKept
  <2>4. Lands' = asked'
    BY <1>3, <2>2 DEF Lands
  <2> QED BY <2>3, <2>4
<1> QED BY <1>2, <1>3 DEF Settled

\* Nothing is added, and the mode asked for is the one there is.
LEMMA StaySettled ==
  ASSUME ModeInv, UNCHANGED <<model, device, queue>>,
         ~raced' => ~raced /\ asked' = Lands
  PROVE  NoDry' /\ Settled'
BY DEF ModeInv, NoDry, Settled, OnlyKept, Lands

\* A command that is decided in time asks for the mode its button leads to.
LEMMA HandlerSettled ==
  ASSUME ModeInv, NEW h \in Handlers, HandlerStep(h)
  PROVE  NoDry' /\ Settled'
<1>1. /\ model \in Models /\ device \in DeviceType /\ reported \in Reports
      /\ queue \in Seq(CommandType) /\ handler[h] \in CoroutineType
      /\ device.mode \in Modes /\ reported.mode \in Modes /\ reported.muted \in Settings
  BY TypedShapes DEF ModeInv, Typed, Reports, DeviceType
<1>2. ~raced => (queue = <<>> => Lands = device.mode) /\ Lands = asked
  BY DEF ModeInv, Settled, Lands
<1>3. Quiet => queue = <<>>
  BY DEF Quiet
<1>4. Fresh => Quiet /\ reported.mode = device.mode
  BY DEF Fresh
<1>5. ASSUME NEW m \in Modes, SetMode(h, m) PROVE NoDry' /\ Settled'
  <2>1. /\ Button(m) \in CommandType /\ queue' = Append(queue, Button(m))
        /\ UNCHANGED <<model, device>> /\ model = "v3"
        /\ asked' = m /\ raced' = (raced \/ ~Fresh)
    BY <1>5, CommandTypesKnown DEF SetMode, Enqueue
  <2>2. LandsIn(model, device.mode, Button(m)) = m
    BY <2>1 DEF LandsIn, Button
  <2> QED BY <1>3, <1>4, <2>1, <2>2, CallSettled
<1>6. ASSUME NEW m \in Modes, SetModeV2(h, m) PROVE NoDry' /\ Settled'
  <2>1. /\ UNCHANGED <<model, device>> /\ model = "v2" /\ raced' = (raced \/ ~Fresh)
        /\ asked' = IF m = "dry" THEN asked ELSE m
    BY <1>6 DEF SetModeV2
  <2>2. CASE ToggleFor(m) = {} /\ UNCHANGED queue
    <3>1. ~raced' => asked' = device.mode
      BY <1>1, <1>2, <1>3, <1>4, <2>1, <2>2
      DEF ToggleFor, Modes, Running, ModeInv, NoDry
    <3> QED BY <1>2, <1>3, <1>4, <2>1, <2>2, <3>1, StaySettled
  <2>3. ASSUME NEW b \in ToggleFor(m), queue' = Append(queue, Button(b))
        PROVE  NoDry' /\ Settled'
    <3>1. b \in {"heat", "cool"} /\ Button(b) \in CommandType
      BY CommandTypesKnown DEF ToggleFor, Modes, Running
    <3>2. ~raced' => LandsIn(model, device.mode, Button(b)) = asked'
      BY <1>4, <2>1 DEF LandsIn, Button, ToggleFor
    <3>3. Button(b).mode # "dry"
      BY <3>1 DEF Button
    <3> QED BY <1>3, <1>4, <2>1, <2>3, <3>1, <3>2, <3>3, CallSettled
  <2> QED BY <1>6, <2>2, <2>3 DEF SetModeV2, Enqueue
<1>7. ASSUME NEW n \in Runtimes, SetRuntime(h, n) PROVE NoDry' /\ Settled'
  <2>1. /\ Runtime(n, FALSE) \in CommandType /\ Runtime(n, FALSE).kind = "runtime"
        /\ UNCHANGED <<model, device, asked>> /\ raced' = (raced \/ ~Quiet)
        /\ queue' = Append(queue, Runtime(n, FALSE)) \/ queue' = queue
    BY <1>7, LongestIs, CommandTypesKnown DEF SetRuntime, Enqueue, Overtakes, Runtime
  <2>2. LandsIn(model, device.mode, Runtime(n, FALSE)) = device.mode
    BY <2>1 DEF LandsIn
  <2> QED BY <1>2, <1>3, <2>1, <2>2, CallSettled, StaySettled
<1>8. ASSUME NEW on \in {"on", "off"}, SetLed(h, on) \/ SetMuted(h, on)
      PROVE  NoDry' /\ Settled'
  <2>1. /\ Unknown \in Settings /\ "on" \in Settings /\ "off" \in Settings
        /\ Or(reported.muted, "off") \in Settings
    BY <1>1 DEF Settings, Or, Unknown
  <2>2. \E l, m \in Settings : queue' = Append(queue, Led(l, m))
    BY <1>8, <2>1 DEF SetLed, SetMuted, Enqueue
  <2>3. UNCHANGED <<model, device, asked>> /\ raced' = (raced \/ ~Quiet)
    BY <1>8 DEF SetLed, SetMuted, Overtakes
  <2>4. \A l, m \in Settings : /\ Led(l, m) \in CommandType /\ Led(l, m).kind = "settings"
                               /\ LandsIn(model, device.mode, Led(l, m)) = device.mode
    BY CommandTypesKnown DEF Led, LandsIn
  <2> QED BY <1>2, <1>3, <2>2, <2>3, <2>4, CallSettled
<1>9. ASSUME NEW fan \in BOOLEAN, SetValue(h, fan) PROVE NoDry' /\ Settled'
  <2> DEFINE mode == IF ~fan THEN "standby"
                     ELSE IF reported.mode \in {"heat", "cool"} THEN reported.mode
                     ELSE "heat"
  <2>1. /\ UNCHANGED <<model, device, asked>>
        /\ raced' = (raced \/ (IF model = "v2" /\ fan THEN ~Fresh ELSE ~Quiet))
        /\ \/ model = "v3" /\ queue' = queue
           \/ model = "v2" /\ queue' = Append(queue, Carries(mode))
    BY <1>1, <1>9 DEF SetValue, Enqueue, Models
  <2>2. CASE model = "v3" /\ queue' = queue
    BY <1>2, <2>1, <2>2, StaySettled
  <2>3. CASE model = "v2" /\ queue' = Append(queue, Carries(mode))
    <3>1. /\ mode \in Modes /\ mode # "dry" /\ Carries(mode) \in CommandType
          /\ Carries(mode).kind = "fan" /\ Carries(mode).mode = mode
      <4>1. Or(reported.muted, "off") \in Settings
        BY <1>1 DEF Settings, Or, Unknown
      <4>2. mode \in Modes /\ mode # "dry"
        BY <1>1 DEF Modes, Running
      <4> HIDE DEF mode
      <4> QED BY <4>1, <4>2, CommandTypesKnown DEF Carries, Carrying
    <3>2. ~raced' => LandsIn(model, device.mode, Carries(mode)) = device.mode
      <4>1. fan /\ ~raced' => reported.mode = device.mode
        BY <1>4, <2>1, <2>3
      <4>2. mode \in Running /\ device.mode \in Running /\ ~raced' => mode = device.mode
        BY <1>1, <4>1, <2>3 DEF Running, ModeInv, NoDry
      <4> HIDE DEF mode
      <4> QED BY <3>1, <4>2 DEF LandsIn
    <3>3. ~raced' => ~raced /\ queue = <<>>
      BY <1>3, <1>4, <2>1
    <3> HIDE DEF mode
    <3> QED BY <1>2, <2>1, <2>3, <3>1, <3>2, <3>3, CallSettled
  <2> QED BY <2>1, <2>2, <2>3
<1>10. CASE WaitOver(h)
  BY <1>2, <1>10, StaySettled DEF WaitOver
<1>11. CASE Restores(h)
  <2> DEFINE c == Runtime(handler[h].keep, TRUE)
  <2>1. c \in CommandType /\ c.kind = "kept"
    BY <1>1, CommandTypesKnown DEF Runtime, CoroutineType
  <2>2. queue' = Append(queue, c) /\ UNCHANGED <<model, device, asked, raced>>
    BY <1>11 DEF Restores, Enqueue
  <2> HIDE DEF c
  <2>3. NoDry'
    BY <1>1, <2>1, <2>2, AppendEntries DEF ModeInv, NoDry
  <2>4. OnlyKept => OnlyKept'
    <3>1. \A i \in 2 .. Len(queue') : i \in 2 .. Len(queue) \/ i = Len(queue) + 1
      BY <1>1, <2>1, <2>2, EnqueueAdds
    <3> QED BY <1>1, <2>1, <2>2, <3>1, EnqueueAdds DEF OnlyKept
  <2>5. Lands' = Lands
    <3>1. CASE queue = <<>>
      BY <1>1, <2>1, <2>2, <3>1, AppendEntries DEF Lands, LandsIn
    <3>2. CASE queue # <<>>
      <4>1. queue' # <<>> /\ queue'[1] = queue[1]
        BY <1>1, <2>1, <2>2, <3>2, AppendEntries
      <4> QED BY <2>2, <3>2, <4>1 DEF Lands
    <3> QED BY <3>1, <3>2
  <2> QED BY <2>2, <2>3, <2>4, <2>5 DEF ModeInv, Settled
<1> QED BY <1>5, <1>6, <1>7, <1>8, <1>9, <1>10, <1>11 DEF HandlerStep

\* Ticks and buttons move the mode only when nothing is under way.
LEMMA OthersSettled ==
  ASSUME ModeInv,
         \/ Notification \/ Tick \/ (\E m \in Modes : PressedAtDevice(m)) \/ UNCHANGED vars
  PROVE  NoDry' /\ Settled'
<1>1. /\ device \in DeviceType /\ device.mode \in Modes /\ queue \in Seq(CommandType)
      /\ "standby" \in Modes
  BY TypedShapes DEF ModeInv, Typed, DeviceType, Modes
<1>2. queue = <<>> /\ ~raced => asked = device.mode
  BY DEF ModeInv, Settled, Lands
<1>3. CASE Notification
  BY <1>3 DEF Notification, ModeInv, NoDry, Settled, OnlyKept, Lands
<1>4. CASE Tick
  <2>1. /\ queue = <<>> /\ UNCHANGED <<model, queue>>
        /\ asked' = IF device'.mode = "standby" THEN "standby" ELSE asked
        /\ ~raced' => ~raced
        /\ device' = IF device.left > 1 THEN [device EXCEPT !.left = @ - 1]
                     ELSE Turned(device, "standby")
    BY <1>4 DEF Tick
  <2>2. device'.mode = device.mode \/ device'.mode = "standby"
    BY <1>1, <2>1, TurnedTyped DEF DeviceType
  <2>3. ~raced' => asked' = device'.mode
    BY <1>2, <2>1, <2>2
  <2> QED BY <2>1, <2>2, <2>3 DEF ModeInv, NoDry, Settled, OnlyKept, Lands
<1>5. ASSUME NEW m \in Modes, PressedAtDevice(m) PROVE NoDry' /\ Settled'
  <2>1. /\ UNCHANGED <<model, queue>> /\ asked' = device'.mode
        /\ ~raced' => queue = <<>>
        /\ device' = Pressed(device, m)
        /\ model = "v2" => m # "dry"
    BY <1>5 DEF PressedAtDevice, Quiet
  <2>2. device'.mode = m \/ device'.mode = "standby"
    BY <1>1, <2>1, TurnedTyped DEF Pressed
  <2> QED BY <2>1, <2>2 DEF ModeInv, NoDry, Settled, OnlyKept, Lands
<1>6. CASE UNCHANGED vars
  BY <1>6 DEF vars, ModeInv, NoDry, Settled, OnlyKept, Lands
<1> QED BY <1>3, <1>4, <1>5, <1>6

\* The daemon starts settled.
LEMMA InitMode == Init => ModeInv
<1> SUFFICES ASSUME Init PROVE ModeInv
  OBVIOUS
<1>1. NoDry /\ Settled
  BY DEF Init, NoDry, Settled, OnlyKept, Lands
<1> QED BY <1>1, InitIInv, InitTyped DEF ModeInv

\* Every step keeps ModeInv.
LEMMA ModeStep == ModeInv /\ [Next]_vars => ModeInv'
<1> SUFFICES ASSUME ModeInv, [Next]_vars PROVE NoDry' /\ Settled'
  BY StepKeeps, StepTyped DEF ModeInv
<1>1. CASE Writes
  BY <1>1, WritesSettled
<1>2. CASE \E h \in Handlers : HandlerStep(h)
  BY <1>2, HandlerSettled
<1> QED BY <1>1, <1>2, OthersSettled DEF Next

\* ModeInv always holds.
LEMMA ModeInductive == Spec => []ModeInv
BY InitMode, ModeStep, PTL DEF Spec

\* Whatever commands, buttons and ticks come between, on a V2 as on a V3: when
\* all is carried out and no decision was out of date, the device is in the
\* mode asked for last.
THEOREM ModeHolds == Spec => []ModeAsAsked
<1>1. ModeInv => ModeAsAsked
  BY DEF ModeInv, Settled, Lands, Quiet, ModeAsAsked
<1> QED BY <1>1, ModeInductive, PTL

-----------------------------------------------------------------------------
\* The timer.  While no decision is out of date, a runtime that set_mode is to
\* write back is one the user is owed, and would be for another tick unless
\* that tick is over.

\* What Kept says of a runtime n when d is owed after k calls.
Owes(n, d, k) ==
  /\ n >= d - k * (Minute + EndNoise)
  /\ n =< Minute \/ n =< d + k * (EndNoise + 1)

InTime(n, d, k) == n =< Minute \/ n < d + k * (EndNoise + 1)

Restoring ==
  \/ \E h \in Handlers : Busy(h) /\ handler[h].keep > 0
  \/ \E i \in 1 .. Len(queue) : queue[i].kind = "kept"

RestoreDue ==
  /\ \A h \in Handlers :
       Busy(h) /\ handler[h].keep > 0 =>
         /\ Owes(handler[h].keep, due, spent.calls)
         /\ ~handler[h].late => InTime(handler[h].keep, due, spent.calls)
  /\ \A i \in 1 .. Len(queue) :
       queue[i].kind = "kept" => Owes(queue[i].n, due, spent.calls)
  /\ Restoring =>
       /\ device.mode \in Running
       /\ \A i \in 1 .. Len(queue) :
            \/ queue[i].kind = "kept"
            \/ queue[i].kind = "button" /\ queue[i].mode \in Running

ButtonFirst == queue # <<>> /\ queue[1].kind = "button"

LeftDue ==
  ~Restoring =>
    /\ ~ButtonFirst /\ device.mode \in Running => Owes(device.left, due, spent.calls)
    /\ ButtonFirst => queue[1].mode = "standby" \/ device.mode = "standby"

Timers == model = "v3" /\ ~raced => RestoreDue /\ LeftDue

TimerInv == ModeInv /\ Timers

\* One call more adds a minute of rounding and the jitter.
LEMMA CallsCost ==
  ASSUME NEW k \in Nat
  PROVE  /\ k * (Minute + EndNoise) \in Nat /\ k * (EndNoise + 1) \in Nat
         /\ (k + 1) * (Minute + EndNoise) = k * (Minute + EndNoise) + Minute + EndNoise
         /\ (k + 1) * (EndNoise + 1) = k * (EndNoise + 1) + EndNoise + 1
         /\ Minute \in Nat /\ EndNoise \in Nat /\ EndNoise =< Minute /\ EndNoise > 0
         /\ Minute > 0
<1> DEFINE a == Minute + EndNoise
           b == EndNoise + 1
<1>1. a \in Nat /\ b \in Nat
  BY ControlAssumption
<1> HIDE DEF a, b
<1>2. k * a \in Nat /\ k * b \in Nat /\ (k + 1) * a = k * a + a /\ (k + 1) * b = k * b + b
  BY <1>1
<1>3. a = Minute + EndNoise /\ b = EndNoise + 1
  BY DEF a, b
<1> QED BY <1>2, <1>3, ControlAssumption

\* What is owed is owed after more calls, and of itself; a tick takes one of
\* either, or of what is owed alone if it comes in time.
LEMMA OwesRules ==
  ASSUME NEW n \in Nat, NEW d \in Nat, NEW k \in Nat
  PROVE  /\ Owes(n, n, k)
         /\ Owes(n, d, k) => Owes(n, d, k + 1)
         /\ InTime(n, d, k) => InTime(n, d, k + 1)
         /\ Owes(n, d, k) /\ InTime(n, d, k) /\ d > 0 => Owes(n, d - 1, k)
         /\ Owes(n, d, k) /\ n > 0 /\ d > 0 => Owes(n - 1, d - 1, k)
         /\ Owes(n, 0, k) /\ n > 0 => Owes(n - 1, 0, k)
<1> DEFINE a == k * (Minute + EndNoise)
           b == k * (EndNoise + 1)
           c == (k + 1) * (Minute + EndNoise)
           e == (k + 1) * (EndNoise + 1)
<1>1. /\ a \in Nat /\ b \in Nat /\ c = a + Minute + EndNoise /\ e = b + EndNoise + 1
      /\ Minute \in Nat /\ EndNoise \in Nat
  BY CallsCost
<1>2. \A x, y \in Int : /\ Owes(x, y, k) <=> x >= y - a /\ (x =< Minute \/ x =< y + b)
                        /\ InTime(x, y, k) <=> x =< Minute \/ x < y + b
                        /\ Owes(x, y, k + 1) <=> x >= y - c /\ (x =< Minute \/ x =< y + e)
                        /\ InTime(x, y, k + 1) <=> x =< Minute \/ x < y + e
  BY DEF Owes, InTime
<1> HIDE DEF a, b, c, e
<1>3. n - 1 \in Int /\ d - 1 \in Int /\ n \in Int /\ d \in Int /\ 0 \in Int
  OBVIOUS
<1> QED BY <1>1, <1>2, <1>3

\* What set_mode preserves of a report that is not out of date is owed, and in
\* time.
LEMMA PreservedOwed ==
  ASSUME NEW left \in Nat, NEW d \in Nat, NEW k \in Nat, Owes(left, d, k),
         ends \in NoEnd .. Longest, ~Apart(ends, left), NEW target, Preserved(target) > 0
  PROVE  /\ Owes(Preserved(target), d, k + 1)
         /\ InTime(Preserved(target), d, k + 1)
<1> DEFINE a == k * (Minute + EndNoise)
           b == k * (EndNoise + 1)
           c == (k + 1) * (Minute + EndNoise)
           e == (k + 1) * (EndNoise + 1)
           p == Preserved(target)
<1>1. /\ a \in Nat /\ b \in Nat /\ c = a + Minute + EndNoise /\ e = b + EndNoise + 1
      /\ Minute \in Nat /\ EndNoise \in Nat /\ EndNoise =< Minute /\ EndNoise > 0
  BY CallsCost
<1>2. /\ Owes(p, d, k + 1) <=> p >= d - c /\ (p =< Minute \/ p =< d + e)
      /\ InTime(p, d, k + 1) <=> p =< Minute \/ p < d + e
      /\ left >= d - a /\ (left =< Minute \/ left =< d + b)
  BY DEF Owes, InTime
<1>3. /\ p \in Int /\ p >= ends - Minute /\ ends \in Int
      /\ p = Minute \/ ends >= p
      /\ ends < 2 * Minute => p =< Minute
  BY PreservedTyped, LongestIs DEF NoEnd
<1>4. ends - left < EndNoise /\ left - ends < EndNoise
  BY <1>1, <1>3 DEF Apart
<1> HIDE DEF a, b, c, e, p
<1>5. p >= d - c
  BY <1>1, <1>2, <1>3, <1>4
<1>6. p =< Minute \/ p < d + e
  BY <1>1, <1>2, <1>3, <1>4
<1> QED BY <1>2, <1>5, <1>6, <1>1, <1>3 DEF p, e

\* The types the arithmetic needs.
LEMMA TimerTypes ==
  ASSUME TimerInv
  PROVE  /\ device \in DeviceType /\ queue \in Seq(CommandType) /\ model \in Models
         /\ handler \in [Handlers -> CoroutineType] /\ spent \in SpentType
         /\ ends \in NoEnd .. Longest
         /\ device.mode \in Modes /\ device.left \in Nat /\ due \in Nat
         /\ spent.calls \in Nat /\ Default \in Nat
         /\ \A h \in Handlers : handler[h].keep \in Nat
         /\ \A i \in 1 .. Len(queue) : queue[i] \in CommandType /\ queue[i].n \in Nat
         /\ device.mode = "standby" <=> device.left = 0
         /\ TypeOK
<1>1. TypeOK
  BY DEF TimerInv, ModeInv, Typed
<1>2. \A i \in 1 .. Len(queue) : queue[i] \in CommandType
  BY <1>1, TypedShapes, ElementOfSeq
<1>3. \A i \in 1 .. Len(queue) : queue[i].n \in Nat
  BY <1>2, LongestIs DEF CommandType
<1>4. spent.calls \in Nat
  BY <1>1, TypedShapes, ControlAssumption DEF SpentType
<1>5. \A h \in Handlers : handler[h].keep \in Nat
  BY <1>1, TypedShapes, LongestIs DEF CoroutineType
<1>6. device.mode \in Modes /\ device.left \in Nat /\ due \in Nat
  BY <1>1, TypedShapes, LongestIs DEF DeviceType
<1> QED BY <1>1, <1>2, <1>3, <1>4, <1>5, <1>6, TypedShapes, LongestIs

\* The worker writes: the last runtime that is written back is what is left.
LEMMA WritesTimers ==
  ASSUME TimerInv, Writes, model = "v3", ~raced
  PROVE  RestoreDue' /\ LeftDue'
<1> DEFINE c == queue[1]
<1>1. /\ queue \in Seq(CommandType) /\ queue # <<>> /\ device \in DeviceType
      /\ device' = Applied(device, c) /\ queue' = Tail(queue) /\ c \in CommandType
      /\ due' = DueAfter(c, device, device') /\ model \in Models
      /\ UNCHANGED <<handler, spent>>
      /\ 1 \in 1 .. Len(queue)
      /\ \A i \in 1 .. Len(queue') : i + 1 \in 2 .. Len(queue) /\ i + 1 \in 1 .. Len(queue)
                                     /\ queue'[i] = queue[i + 1]
      /\ \A i \in 2 .. Len(queue) : i - 1 \in 1 .. Len(queue') /\ queue'[i - 1] = queue[i]
      /\ queue' # <<>> => 1 \in 1 .. Len(queue')
  BY TimerTypes, TailEntries DEF Writes
<1>2. /\ device'.mode = LandsIn(model, device.mode, c)
      /\ c.kind = "button" => device'.left = IF device'.mode = "standby" THEN 0 ELSE Default
      /\ c.kind \in {"runtime", "kept"} =>
           device'.left = IF device.mode \in Running THEN c.n ELSE device.left
      /\ c.kind \in {"settings", "fan"} => device'.left = device.left
  BY <1>1, AppliedLands
<1>3. c.kind \in Kinds /\ c.n \in Nat
  BY <1>1, TimerTypes DEF CommandType, Kinds
<1>4. \A i \in 1 .. Len(queue') : queue'[i].kind = "kept"
  BY <1>1 DEF TimerInv, ModeInv, Settled, OnlyKept
<1>5. ~ButtonFirst'
  BY <1>1, <1>4 DEF ButtonFirst
<1>6. RestoreDue /\ LeftDue
  BY DEF TimerInv, Timers
<1>7. Restoring' => Restoring
  BY <1>1 DEF Restoring, Busy
<1>8. CASE Restoring
  <2>1. /\ device.mode \in Running
        /\ c.kind = "kept" \/ (c.kind = "button" /\ c.mode \in Running)
    BY <1>1, <1>6, <1>8 DEF RestoreDue
  <2>2. device'.mode \in Running
    BY <1>2, <2>1 DEF LandsIn
  <2>3. due' = due
    BY <1>1, <2>1, <2>2 DEF DueAfter, Running
  <2>4. RestoreDue'
    BY <1>1, <1>4, <1>6, <2>2, <2>3 DEF RestoreDue, Busy
  <2>5. ASSUME ~Restoring' PROVE Owes(device'.left, due', spent'.calls)
    <3>1. c.kind = "kept"
      <4>1. \A h \in Handlers : ~(Busy(h) /\ handler[h].keep > 0)
        BY <1>1, <2>5 DEF Restoring, Busy
      <4>2. PICK i \in 1 .. Len(queue) : queue[i].kind = "kept"
        BY <1>8, <4>1 DEF Restoring
      <4>3. i \notin 2 .. Len(queue)
        BY <1>1, <4>2, <2>5 DEF Restoring
      <4>4. i = 1
        BY <4>3
      <4> QED BY <4>2, <4>4
    <3>2. Owes(c.n, due, spent.calls)
      BY <1>1, <1>6, <3>1 DEF RestoreDue
    <3> QED BY <1>1, <1>2, <2>1, <2>3, <3>1, <3>2
  <2> QED BY <1>5, <2>4, <2>5 DEF LeftDue
<1>9. CASE ~Restoring
  <2>1. RestoreDue'
    <3>1. ~Restoring'
      BY <1>7, <1>9
    <3> QED BY <3>1 DEF RestoreDue, Restoring
  <2>2. ASSUME device'.mode \in Running PROVE Owes(device'.left, due', spent'.calls)
    <3>0. c.kind # "kept"
      BY <1>1, <1>9 DEF Restoring
    <3>1. CASE c.kind = "button"
      <4>1. c.mode = "standby" \/ device.mode = "standby"
        BY <1>1, <1>6, <1>9, <3>1 DEF LeftDue, ButtonFirst
      <4>2. device.mode = "standby"
        BY <1>2, <2>2, <3>1, <4>1 DEF LandsIn, Running
      <4>3. due' = device'.left /\ device'.left = Default
        BY <1>1, <1>2, <2>2, <3>1, <4>2 DEF DueAfter, Running
      <4>4. spent.calls \in Nat /\ Default \in Nat
        BY TimerTypes
      <4> QED BY <1>1, <4>3, <4>4, OwesRules
    <3>2. CASE c.kind = "runtime"
      <4>1. device'.mode = device.mode
        BY <1>2, <3>2 DEF LandsIn
      <4>2. device'.left = c.n /\ due' = c.n
        BY <1>1, <1>2, <2>2, <3>2, <4>1 DEF DueAfter, Running
      <4>3. spent.calls \in Nat
        BY TimerTypes
      <4> QED BY <1>1, <1>3, <4>2, <4>3, OwesRules
    <3>3. CASE c.kind \in {"settings", "fan"}
      <4>1. device.mode \in Running
        BY <1>2, <2>2, <3>3 DEF LandsIn, Running
      <4>2. device'.left = device.left /\ due' = due
        BY <1>1, <1>2, <2>2, <3>3, <4>1 DEF DueAfter, Running
      <4>3. ~ButtonFirst
        BY <3>3 DEF ButtonFirst
      <4> QED BY <1>1, <1>6, <1>9, <4>1, <4>2, <4>3 DEF LeftDue
    <3> QED BY <1>3, <3>0, <3>1, <3>2, <3>3 DEF Kinds
  <2> QED BY <1>5, <2>1, <2>2 DEF LeftDue
<1> QED BY <1>8, <1>9

\* At most one tick passes while set_mode runs.
LEMMA TickTimers ==
  ASSUME TimerInv, Tick, model = "v3", ~raced'
  PROVE  RestoreDue' /\ LeftDue'
<1>1. /\ queue = <<>> /\ UNCHANGED <<queue, spent>> /\ ~raced
      /\ \A h \in Handlers : ~handler[h].late
      /\ device' = IF device.left > 1 THEN [device EXCEPT !.left = @ - 1]
                   ELSE Turned(device, "standby")
      /\ due' = IF device'.mode = "standby" \/ due = 0 THEN 0 ELSE due - 1
      /\ handler' = [h \in Handlers |-> [handler[h] EXCEPT !.late = Busy(h)]]
      /\ device'.mode = "standby" => Quiet
      /\ device.mode \in Running /\ "standby" \in Modes
  BY DEF Tick, Modes
<1>2. RestoreDue /\ LeftDue
  BY <1>1 DEF TimerInv, Timers
<1>3. \A h \in Handlers : /\ handler'[h].pc = handler[h].pc
                          /\ handler'[h].keep = handler[h].keep
                          /\ handler'[h].late = Busy(h)
  BY <1>1, TimerTypes DEF CoroutineType
<1>4. (Restoring' <=> Restoring) /\ ~ButtonFirst' /\ ~ButtonFirst
  <2>1. \A h \in Handlers : Busy(h)' <=> Busy(h)
    BY <1>3 DEF Busy
  <2> QED BY <1>1, <1>3, <2>1 DEF Restoring, ButtonFirst
<1>5. CASE device'.mode = "standby"
  <2>1. ~Restoring
    BY <1>1, <1>5 DEF Quiet, Restoring
  <2> QED BY <1>3, <1>4, <1>5, <2>1 DEF RestoreDue, LeftDue, Restoring, Running, Busy
<1>6. CASE device'.mode # "standby"
  <2>1. device.left > 1 /\ device' = [device EXCEPT !.left = @ - 1]
    BY <1>1, <1>6, TimerTypes, TurnedTyped
  <2>2. /\ device'.mode = device.mode /\ device'.left = device.left - 1
        /\ device.left \in Nat /\ due \in Nat /\ spent.calls \in Nat
    BY <2>1, TimerTypes DEF DeviceType
  <2>3. \/ due = 0 /\ due' = 0
        \/ due > 0 /\ due' = due - 1
    BY <1>1, <1>6, <2>2
  <2>4. ASSUME NEW h \in Handlers, Busy(h), handler[h].keep > 0
        PROVE  Owes(handler[h].keep, due', spent.calls)
    <3>1. /\ Owes(handler[h].keep, due, spent.calls)
          /\ InTime(handler[h].keep, due, spent.calls)
          /\ handler[h].keep \in Nat
      BY <1>1, <1>2, <2>4, TimerTypes DEF RestoreDue
    <3> QED BY <2>2, <2>3, <3>1, OwesRules
  <2>5. RestoreDue'
    <3>1. \A h \in Handlers : Busy(h)' <=> Busy(h)
      BY <1>3 DEF Busy
    <3>2. \A h \in Handlers : Busy(h)' /\ handler'[h].keep > 0 =>
            Owes(handler'[h].keep, due', spent'.calls) /\ handler'[h].late
      BY <1>1, <1>3, <2>4, <3>1
    <3>3. Restoring' => device'.mode \in Running
      BY <1>1, <2>2
    <3> QED BY <1>1, <3>2, <3>3 DEF RestoreDue
  <2>6. ~Restoring => Owes(device'.left, due', spent'.calls)
    <3>1. ASSUME ~Restoring PROVE Owes(device.left, due, spent.calls)
      BY <1>1, <1>2, <1>4, <3>1 DEF LeftDue
    <3>2. device.left > 0
      BY <2>1, <2>2
    <3> QED BY <1>1, <2>2, <2>3, <3>1, <3>2, OwesRules
  <2> QED BY <1>4, <2>5, <2>6 DEF LeftDue
<1> QED BY <1>5, <1>6

\* Nothing is being restored, and something else is called for.
LEMMA CallTimers ==
  ASSUME TimerInv, ~raced, model = "v3", Quiet,
         UNCHANGED <<device, due, handler>>, spent'.calls = spent.calls + 1,
         \/ queue' = queue
         \/ \E c \in CommandType :
              queue' = Append(queue, c) /\ c.kind \in {"runtime", "settings"}
  PROVE  RestoreDue' /\ LeftDue'
<1>1. queue = <<>> /\ queue \in Seq(CommandType) /\ \A h \in Handlers : ~Busy(h)
  BY TimerTypes DEF Quiet
<1>2. ~Restoring /\ ~ButtonFirst
  BY <1>1 DEF Restoring, ButtonFirst
<1>3. \A i \in 1 .. Len(queue') : queue'[i].kind \in {"runtime", "settings"}
  BY <1>1, AppendEntries
<1>4. ~Restoring' /\ ~ButtonFirst'
  <2>1. \A h \in Handlers : ~Busy(h)'
    BY <1>1 DEF Busy
  <2>2. queue' # <<>> => queue'[1].kind \in {"runtime", "settings"}
    BY <1>1, AppendEntries
  <2> QED BY <1>3, <2>1, <2>2 DEF Restoring, ButtonFirst
<1>5. device.mode \in Running => Owes(device.left, due, spent'.calls)
  BY <1>2, TimerTypes, OwesRules DEF TimerInv, Timers, LeftDue
<1>6. RestoreDue'
  BY <1>4 DEF RestoreDue, Restoring
<1> QED BY <1>4, <1>5, <1>6 DEF LeftDue

\* set_mode decides: what it preserves is owed.
LEMMA SetModeTimers ==
  ASSUME TimerInv, NEW h \in Handlers, NEW m \in Modes, SetMode(h, m), ~raced'
  PROVE  RestoreDue' /\ LeftDue'
<1> DEFINE j == [pc |-> "waiting", target |-> m, keep |-> Preserved(m), late |-> FALSE]
<1>1. /\ ~raced /\ model = "v3" /\ Fresh /\ Call
      /\ queue' = Append(queue, Button(m)) /\ handler' = [handler EXCEPT ![h] = j]
      /\ UNCHANGED <<device, due>>
  BY DEF SetMode, Enqueue, Waits
<1>2. /\ queue = <<>> /\ \A g \in Handlers : ~Busy(g)
      /\ reported.mode = device.mode
      /\ device.left > 0 => ends >= 0 /\ ~Apart(ends, device.left)
      /\ spent'.calls = spent.calls + 1
  BY <1>1, TimerTypes, CallTyped DEF Fresh, Quiet
<1>3. /\ Len(queue') = 1 /\ queue'[1] = Button(m) /\ queue' # <<>>
      /\ Button(m) \in CommandType
  BY <1>1, <1>2, TimerTypes, CommandTypesKnown, EnqueueAdds, AppendEntries
<1>4. /\ handler'[h] = j /\ j.keep = Preserved(m) /\ j.late = FALSE /\ j.pc # "idle"
      /\ \A g \in Handlers \ {h} : handler'[g] = handler[g]
  BY <1>1, TimerTypes
<1> HIDE DEF j
<1>5. Button(m).kind = "button" /\ Button(m).mode = m
  BY DEF Button
<1>6. /\ Restoring' <=> Preserved(m) > 0
      /\ \A g \in Handlers : Busy(g)' => g = h
  <2>1. \A g \in Handlers : Busy(g)' <=> g = h
    BY <1>2, <1>4 DEF Busy
  <2>2. \A i \in 1 .. Len(queue') : queue'[i].kind = "button"
    BY <1>3, <1>5
  <2> QED BY <1>4, <2>1, <2>2 DEF Restoring
<1>7. ASSUME Preserved(m) > 0
      PROVE  /\ m \in Running /\ device.mode \in Running
             /\ Owes(Preserved(m), due, spent'.calls)
             /\ InTime(Preserved(m), due, spent'.calls)
  <2>1. m \in Running /\ device.mode \in Running
    BY <1>2, <1>7, TimerTypes, PreservedTyped
  <2>2. device.left > 0
    BY <2>1, TimerTypes DEF Running
  <2>3. Owes(device.left, due, spent.calls)
    <3>1. ~Restoring /\ ~ButtonFirst
      BY <1>2 DEF Restoring, ButtonFirst
    <3> QED BY <1>1, <2>1, <3>1 DEF TimerInv, Timers, LeftDue
  <2> QED BY <1>2, <1>7, <2>1, <2>2, <2>3, TimerTypes, PreservedOwed
<1>8. RestoreDue'
  <2>1. \A i \in 1 .. Len(queue') : queue'[i].kind = "button" /\ queue'[i].mode = m
    BY <1>3, <1>5
  <2> QED BY <1>1, <1>4, <1>6, <1>7, <2>1 DEF RestoreDue
<1>9. LeftDue'
  <2>1. ButtonFirst' /\ queue'[1].mode = m
    BY <1>3, <1>5 DEF ButtonFirst
  <2>2. ~Restoring' => m = "standby" \/ device.mode = "standby"
    BY <1>2, <1>6, TimerTypes, PreservedTyped DEF Modes
  <2> QED BY <1>1, <2>1, <2>2 DEF LeftDue
<1> QED BY <1>8, <1>9

\* The wait changes nothing of what is to be written back.
LEMMA WaitOverTimers ==
  ASSUME TimerInv, NEW h \in Handlers, WaitOver(h), model = "v3", ~raced
  PROVE  RestoreDue' /\ LeftDue'
<1>1. /\ UNCHANGED <<device, queue, due, spent>>
      /\ \A g \in Handlers \ {h} : handler'[g] = handler[g]
      /\ handler'[h] = IF handler[h].keep = 0 THEN Idle
                       ELSE [handler[h] EXCEPT !.pc = "sleeping"]
      /\ Busy(h) /\ handler[h] \in CoroutineType
  BY TimerTypes DEF WaitOver, Busy
<1>2. /\ Idle.pc = "idle"
      /\ [handler[h] EXCEPT !.pc = "sleeping"].pc = "sleeping"
      /\ [handler[h] EXCEPT !.pc = "sleeping"].keep = handler[h].keep
      /\ [handler[h] EXCEPT !.pc = "sleeping"].late = handler[h].late
  BY <1>1 DEF Idle, CoroutineType
<1>3. \A g \in Handlers :
        /\ Busy(g)' /\ handler'[g].keep > 0 <=> Busy(g) /\ handler[g].keep > 0
        /\ Busy(g)' /\ handler'[g].keep > 0 =>
             handler'[g].keep = handler[g].keep /\ handler'[g].late = handler[g].late
  <2> TAKE g \in Handlers
  <2>1. CASE g # h
    BY <1>1, <2>1 DEF Busy
  <2>2. CASE g = h /\ handler[h].keep = 0
    BY <1>1, <1>2, <2>2 DEF Busy
  <2>3. CASE g = h /\ handler[h].keep # 0
    BY <1>1, <1>2, <2>3 DEF Busy
  <2> QED BY <2>1, <2>2, <2>3
<1>4. Restoring' <=> Restoring
  BY <1>1, <1>3 DEF Restoring
<1>5. RestoreDue /\ LeftDue
  BY DEF TimerInv, Timers
<1>6. RestoreDue'
  BY <1>1, <1>3, <1>4, <1>5 DEF RestoreDue
<1> QED BY <1>1, <1>4, <1>5, <1>6 DEF LeftDue, ButtonFirst

\* set_mode writes back: the runtime moves to the queue.
LEMMA RestoresTimers ==
  ASSUME TimerInv, NEW h \in Handlers, Restores(h), model = "v3", ~raced
  PROVE  RestoreDue' /\ LeftDue'
<1> DEFINE c == Runtime(handler[h].keep, TRUE)
<1>1. /\ UNCHANGED <<device, due, spent>>
      /\ handler[h].pc = "sleeping" /\ handler[h] \in CoroutineType
      /\ \A g \in Handlers \ {h} : handler'[g] = handler[g]
      /\ handler'[h] = Idle /\ queue' = Append(queue, c)
      /\ queue \in Seq(CommandType)
  BY TimerTypes DEF Restores, Enqueue
<1>2. c \in CommandType /\ c.kind = "kept" /\ c.n = handler[h].keep
  BY <1>1, CommandTypesKnown DEF Runtime, CoroutineType
<1> HIDE DEF c
<1>3. Busy(h) /\ handler[h].keep > 0
  BY <1>1 DEF Busy, TimerInv, ModeInv, IInv, RuntimesUnderWay
<1>4. Restoring
  BY <1>3 DEF Restoring
<1>5. RestoreDue /\ Owes(c.n, due, spent.calls)
  BY <1>2, <1>3 DEF TimerInv, Timers, RestoreDue
<1>6. /\ \A i \in 1 .. Len(queue') :
           \/ i \in 1 .. Len(queue) /\ queue'[i] = queue[i]
           \/ queue'[i] = c
      /\ Len(queue) + 1 \in 1 .. Len(queue') /\ queue'[Len(queue) + 1] = c
  BY <1>1, <1>2, AppendEntries
<1>7. \A g \in Handlers : Busy(g)' => g # h /\ Busy(g) /\ handler'[g] = handler[g]
  BY <1>1 DEF Busy, Idle
<1>8. Restoring'
  BY <1>2, <1>6 DEF Restoring
<1>9. RestoreDue'
  BY <1>1, <1>2, <1>4, <1>5, <1>6, <1>7 DEF RestoreDue
<1> QED BY <1>8, <1>9 DEF LeftDue

\* The commands, when no decision is out of date.
LEMMA HandlerTimers ==
  ASSUME TimerInv, NEW h \in Handlers, HandlerStep(h), model = "v3", ~raced'
  PROVE  RestoreDue' /\ LeftDue'
<1>1. ASSUME NEW n \in Runtimes, SetRuntime(h, n) PROVE RestoreDue' /\ LeftDue'
  <2>1. /\ Runtime(n, FALSE) \in CommandType /\ Runtime(n, FALSE).kind = "runtime"
        /\ queue' = Append(queue, Runtime(n, FALSE))
        /\ UNCHANGED <<device, due, handler>> /\ ~raced /\ Quiet /\ Call
    BY <1>1, LongestIs, CommandTypesKnown DEF SetRuntime, Enqueue, Overtakes, Runtime
  <2> QED BY <2>1, TimerTypes, CallTyped, CallTimers
<1>2. ASSUME NEW on \in {"on", "off"}, SetLed(h, on) \/ SetMuted(h, on)
      PROVE  RestoreDue' /\ LeftDue'
  <2>1. /\ \E l, m \in Settings : queue' = Append(queue, Led(l, m))
        /\ UNCHANGED <<device, due, handler>> /\ ~raced /\ Quiet /\ Call
    BY <1>2 DEF SetLed, SetMuted, Enqueue, Overtakes, Settings
  <2>2. \A l, m \in Settings : Led(l, m) \in CommandType /\ Led(l, m).kind = "settings"
    BY CommandTypesKnown DEF Led
  <2> QED BY <2>1, <2>2, TimerTypes, CallTyped, CallTimers
<1>3. ASSUME NEW fan \in BOOLEAN, SetValue(h, fan) PROVE RestoreDue' /\ LeftDue'
  <2>1. queue' = queue /\ UNCHANGED <<device, due, handler>> /\ ~raced /\ Quiet /\ Call
    BY <1>3 DEF SetValue
  <2> QED BY <2>1, TimerTypes, CallTyped, CallTimers
<1>4. CASE WaitOver(h)
  BY <1>4, WaitOverTimers DEF WaitOver
<1>5. CASE Restores(h)
  BY <1>5, RestoresTimers DEF Restores
<1> QED BY <1>1, <1>2, <1>3, <1>4, <1>5, SetModeTimers DEF HandlerStep, SetModeV2

\* Notifications and buttons at the device.
LEMMA OthersTimers ==
  ASSUME TimerInv, model = "v3", ~raced',
         Notification \/ (\E m \in Modes : PressedAtDevice(m)) \/ UNCHANGED vars
  PROVE  RestoreDue' /\ LeftDue'
<1>1. CASE UNCHANGED <<device, queue, handler, due, raced, spent>>
  <2>1. RestoreDue /\ LeftDue
    BY <1>1 DEF TimerInv, Timers
  <2>2. (Restoring' <=> Restoring) /\ \A h \in Handlers : Busy(h)' <=> Busy(h)
    BY <1>1 DEF Restoring, Busy
  <2> QED BY <1>1, <2>1, <2>2 DEF RestoreDue, LeftDue, ButtonFirst
<1>2. ASSUME NEW m \in Modes, PressedAtDevice(m) PROVE RestoreDue' /\ LeftDue'
  <2>1. /\ queue' = <<>> /\ \A h \in Handlers : ~Busy(h)'
        /\ due' = device'.left
    BY <1>2 DEF PressedAtDevice, Quiet, Busy
  <2>2. ~Restoring' /\ ~ButtonFirst'
    BY <2>1 DEF Restoring, ButtonFirst
  <2>3. device'.left \in Nat /\ spent'.calls \in Nat
    <3>1. TypeOK'
      BY <1>2, PressedTyped DEF TimerInv, ModeInv, Typed
    <3>2. device'.left \in 0 .. Longest /\ spent'.calls \in 0 .. MaxCalls
      BY <3>1 DEF TypeOK
    <3> QED BY <3>2, LongestIs, ControlAssumption
  <2> QED BY <2>1, <2>2, <2>3, OwesRules DEF RestoreDue, LeftDue, Restoring
<1> QED BY <1>1, <1>2 DEF Notification, vars

\* TimerInv always holds.
LEMMA TimerInductive == Spec => []TimerInv
<1>1. Init => TimerInv
  <2> SUFFICES ASSUME Init PROVE TimerInv
    OBVIOUS
  <2>1. ModeInv
    BY InitMode
  <2>2. ~Restoring /\ ~ButtonFirst
    BY DEF Init, Restoring, ButtonFirst, Busy, Idle
  <2>3. device.left \in Nat /\ spent.calls \in Nat /\ due = device.left
    BY ControlAssumption DEF Init
  <2>4. Owes(device.left, due, spent.calls)
    BY <2>3, OwesRules
  <2> QED BY <2>1, <2>2, <2>4 DEF TimerInv, Timers, RestoreDue, LeftDue, Restoring
<1>2. TimerInv /\ [Next]_vars => TimerInv'
  <2> SUFFICES ASSUME TimerInv, [Next]_vars PROVE TimerInv'
    OBVIOUS
  <2>1. ModeInv'
    BY ModeStep DEF TimerInv
  <2>2. model' = model /\ (~raced' => ~raced)
    <3>1. CASE Writes \/ Notification \/ Tick \/ UNCHANGED vars
      <4>1. CASE Tick
        BY <4>1 DEF Tick
      <4>2. CASE Writes \/ Notification \/ UNCHANGED vars
        <5>1. UNCHANGED <<model, raced>>
          BY <4>2 DEF Writes, Notification, vars
        <5> QED BY <5>1, Zenon
      <4> QED BY <3>1, <4>1, <4>2
    <3>2. ASSUME NEW m \in Modes, PressedAtDevice(m) PROVE model' = model /\ (~raced' => ~raced)
      BY <3>2 DEF PressedAtDevice
    <3>3. ASSUME NEW h \in Handlers, HandlerStep(h) PROVE model' = model /\ (~raced' => ~raced)
      <4>1. CASE \E m \in Modes : SetMode(h, m) \/ SetModeV2(h, m)
        BY <4>1 DEF SetMode, SetModeV2
      <4>2. CASE \E n \in Runtimes : SetRuntime(h, n)
        BY <4>2 DEF SetRuntime, Overtakes
      <4>3. CASE \E on \in {"on", "off"} : SetLed(h, on) \/ SetMuted(h, on)
        BY <4>3 DEF SetLed, SetMuted, Overtakes
      <4>4. CASE \E fan \in BOOLEAN : SetValue(h, fan)
        BY <4>4 DEF SetValue
      <4>5. CASE WaitOver(h) \/ Restores(h)
        <5>1. UNCHANGED <<model, raced>>
          BY <4>5 DEF WaitOver, Restores
        <5> QED BY <5>1, Zenon
      <4> QED BY <3>3, <4>1, <4>2, <4>3, <4>4, <4>5 DEF HandlerStep
    <3> QED BY <3>1, <3>2, <3>3 DEF Next
  <2>3. ASSUME model = "v3", ~raced' PROVE RestoreDue' /\ LeftDue'
    <3>1. CASE Writes
      BY <2>2, <2>3, <3>1, WritesTimers
    <3>2. CASE Tick
      BY <2>3, <3>2, TickTimers
    <3>3. CASE \E h \in Handlers : HandlerStep(h)
      BY <2>3, <3>3, HandlerTimers
    <3>4. CASE Notification \/ (\E m \in Modes : PressedAtDevice(m)) \/ UNCHANGED vars
      BY <2>3, <3>4, OthersTimers
    <3> QED BY <3>1, <3>2, <3>3, <3>4 DEF Next
  <2> QED BY <2>1, <2>2, <2>3 DEF TimerInv, Timers
<1> QED BY <1>1, <1>2, PTL DEF Spec

\* Whatever modes are asked for in turn on a V3, for every runtime, minute and
\* noise: when all is carried out and no decision was out of date, the runtime
\* left is what the user is owed, but for the rounding, the delay and the
\* jitter of each call.
THEOREM TimerHolds == Spec => []TimerKept
<1>1. TimerInv => TimerKept
  <2> SUFFICES ASSUME TimerInv, model = "v3", Quiet, ~raced, device.mode \in Running
               PROVE  Kept
    BY DEF TimerKept
  <2>1. ~Restoring /\ ~ButtonFirst
    BY DEF Quiet, Restoring, ButtonFirst
  <2>2. Owes(device.left, due, spent.calls)
    BY <2>1 DEF TimerInv, Timers, LeftDue
  <2> QED BY <2>2 DEF Owes, Kept
<1> QED BY <1>1, TimerInductive, PTL

==============================================================================
