--------------------------------- MODULE Panel ---------------------------------
(***************************************************************************)
(* What the manager's commands (ble/manager.py) make of the device's       *)
(* settings, through the bytes of both protocols (Wire): a command is      *)
(* built from what was notified last, queued, written by the worker and    *)
(* obeyed by the device, which notifies what it holds, in any order.       *)
(*                                                                         *)
(* One command at a time is under way.  Failing writes are in BleLink, two *)
(* connections and the end-time filter in Control, values that the hub     *)
(* refuses in Api.                                                         *)
(***************************************************************************)
EXTENDS Wire

CONSTANTS
  Presets,           \* what the device holds after a button of a V3
  Found,             \* what it may hold when it is found, or is used by hand
  Percents,          \* the fan speeds that are asked for
  Quarters,          \* the temperatures, in quarters of a degree
  Runtimes,          \* the runtimes, hours and minutes
  Coldest, Hottest,  \* the limits that the device reports, in halves
  MaxCalls,          \* bound: commands
  MaxByHand          \* bound: changes at the device

Settings == {"mode", "fan", "target", "runtime", "muted", "led"}
OfAProgram == {"mode", "fan", "target", "runtime"}

ModeButtons ==
  [standby |-> 1, cool |-> 2, heat |-> 3, turbo |-> 4, dry |-> 5, extended_heat |-> 6]
Modes == DOMAIN ModeButtons

\* activate_memory, activate_biorhythm.
SlotButton(kind, n) == IF kind = "memory" THEN 31 + n ELSE 127 + n
SlotButtons == {SlotButton(k, n) : k \in {"memory", "biorhythm"}, n \in 1 .. 3}

Device ==
  [mode : Modes, step : 1 .. 20, temp : 0 .. High - 1, hours : 0 .. 15, minutes : 0 .. 59,
   seconds : {0, 15, 30, 45}, muted : {"on", "off"}, led : {"on", "off"}]

ASSUME PanelAssumption ==
  /\ Presets \in [Range(ModeButtons) \cup SlotButtons -> Device]
  /\ \A m \in Modes : Presets[ModeButtons[m]].mode = m
  /\ Found \subseteq Device
  /\ Percents \subseteq 5 .. 100 /\ Quarters \subseteq Int
  /\ Runtimes \subseteq Nat \X (0 .. 59)
  /\ MaxCalls \in Nat /\ MaxByHand \in Nat

VARIABLES
  model,   \* BleManager._model
  wakes,   \* whether a V2 that is off obeys the mode in a fan command
  device,  \* what the device holds
  shown,   \* BleManager._state: what the last notification said
  known,   \*   and its beeps_muted and led_enabled, "none" for None
  fresh,   \* since that notification nothing was asked for and nothing changed
  queue,   \* BleManager._command_queue
  keep,    \* the minutes that set_mode is about to write back, or 0
  goal,    \* history: the settings after what was asked for, in its order
  sure,    \* history: those of them that hold whatever the device is
  spent    \* bounds used up so far

vars == <<model, wakes, device, shown, known, fresh, queue, keep, goal, sure, spent>>

-----------------------------------------------------------------------------
\* The device (not part of the code).

Base == [standby |-> 20, cool |-> 96, heat |-> 64, turbo |-> 32]

\* Its notification, as _on_notification reads it.
Notified(d) ==
  IF model = "v3"
  THEN DecodeV3([mode |-> d.mode, step |-> d.step - 1, temp |-> d.temp,
                 hours |-> d.hours, minutes |-> d.minutes, seconds |-> d.seconds])
  ELSE LET sub == d.minutes * 64 + (d.seconds * 64) \div 60
       IN  DecodeV2([b4 |-> Base[d.mode] + IF d.mode = "standby" THEN 0 ELSE d.step,
                     b5 |-> d.hours * 16 + sub \div 256, b6 |-> sub % 256, b7 |-> d.temp])

OnOff(b) == IF b THEN "on" ELSE "off"

Pressed(d, button) == [Presets[button] EXCEPT !.muted = d.muted, !.led = d.led]

ObeysV3(d, p) ==
  CASE p[1] = 7 -> [d EXCEPT !.step = p[2] + 1]
    [] p[1] = 3 -> [d EXCEPT !.temp = p[2]]
    [] p[1] = 2 -> IF d.mode = "standby" THEN d
                   ELSE [d EXCEPT !.hours = p[2], !.minutes = p[3], !.seconds = 0]
    [] p[1] = 8 -> d
    [] p[1] = 1 /\ p[2] \in {70, 71} -> [d EXCEPT !.led = OnOff(p[2] = 70)]
    [] p[1] = 1 /\ p[2] \in {72, 73} -> [d EXCEPT !.muted = OnOff(p[2] = 72)]
    [] OTHER -> Pressed(d, p[2])

ModeNumbered(n) == CHOOSE m \in DOMAIN V2Modes : V2Modes[m] = n

\* A mode's button is a toggle.
Toggled(d, m) == Pressed(d, ModeButtons[IF d.mode = m THEN "standby" ELSE m])

ObeysV2(d, p) ==
  CASE p[3] = 1 -> Toggled(d, ModeNumbered(p[4]))
    [] p[3] = 7 -> [d EXCEPT !.temp = p[4] % High, !.muted = OnOff(p[4] >= High)]
    [] p[3] = 17 -> [d EXCEPT !.muted = OnOff(p[4] % 2 = 1), !.led = OnOff(p[4] < 2)]
    [] p[3] = 14 ->
         [d EXCEPT !.mode = IF d.mode = "standby" /\ ~wakes THEN @ ELSE ModeNumbered(p[4]),
                   !.step = p[5], !.temp = p[6] % High, !.muted = OnOff(p[6] >= High),
                   !.hours = p[7], !.minutes = p[8], !.seconds = 0]

\* A V2 ignores a packet with a wrong checksum.
Obeys(d, p) ==
  IF model = "v3" THEN ObeysV3(d, p) ELSE IF Sum8(p) = 255 THEN ObeysV2(d, p) ELSE d

\* The settings it holds: per cent, quarters of a degree, seconds.
Held(d) ==
  [mode |-> d.mode, fan |-> 5 * d.step, target |-> 2 * d.temp,
   runtime |-> 3600 * d.hours + 60 * d.minutes + d.seconds, muted |-> d.muted, led |-> d.led]

-----------------------------------------------------------------------------
\* Those that a V2 has, or a V3 and its commands.
V2Found == {d \in Found : d.mode \in DOMAIN Base}

\* The manager is connected; the first notification has come or not.  Only a
\* V3 is asked for its mute and LED.
Init ==
  /\ model \in {"v2", "v3"} /\ wakes \in BOOLEAN
  /\ device \in IF model = "v2" THEN V2Found ELSE Found
  /\ known = IF model = "v3" THEN [muted |-> device.muted, led |-> device.led]
             ELSE [muted |-> "none", led |-> "none"]
  /\ \/ fresh = TRUE /\ shown = Notified(device)
     \/ fresh = FALSE /\ shown = [mode |-> "standby", fan |-> 0, target |-> 0, runtime |-> 0]
  /\ queue = <<>> /\ keep = 0
  /\ goal = Held(device) /\ sure = IF model = "v3" THEN Settings ELSE OfAProgram
  /\ spent = [calls |-> 0, byHand |-> 0]

-----------------------------------------------------------------------------
\* The commands.

\* A command that means the settings g is called.
Means(g, s) ==
  /\ keep = 0
  /\ spent.calls < MaxCalls /\ spent' = [spent EXCEPT !.calls = @ + 1]
  /\ goal' = g /\ sure' = s /\ fresh' = FALSE
  /\ UNCHANGED <<model, wakes, device, shown>>

\* _enqueue_command; bytes() has raised when an element is no byte.
Enqueue(packet) == IsBytes(packet) /\ queue' = Append(queue, packet)

IsMuted == known.muted = "on"

HoursLeft == shown.runtime \div 3600
MinutesLeft == (shown.runtime % 3600) \div 60

\* _set_fan_v2 falls back to HEAT.
ModeNumber == IF shown.mode \in DOMAIN V2Modes THEN V2Modes[shown.mode] ELSE V2Modes["heat"]

\* The fan command of a V2 takes the settings that were shown along.  It takes
\* back what was changed since, HEAT where the device is off, and the fixed
\* temperature that a V2 shows in TURBO.
TakenBack ==
  IF ~fresh THEN {"mode", "target", "runtime"}
  ELSE IF shown.mode = "standby" THEN {"mode"}
  ELSE IF shown.mode = "turbo" THEN {"target"}
  ELSE {}

SetFanSpeed(p) ==
  /\ \/ /\ model = "v3"
        /\ Enqueue(EncodeSetFan(p))
        /\ Means([goal EXCEPT !.fan = 5 * (p \div 5)], sure \cup {"fan"})
     \/ /\ model = "v2"
        /\ Enqueue(Wrap(EncodeFan(p, ModeNumber, shown.target, IsMuted, HoursLeft, MinutesLeft)))
        /\ Means([goal EXCEPT !.fan = 5 * (p \div 5), !.runtime = 60 * (@ \div 60)],
                 (sure \ TakenBack) \cup {"fan"})
  /\ UNCHANGED <<known, keep>>

\* A V3 is sent what was asked for, although it may be beyond its limits.
SetTemperature(q) ==
  /\ \/ /\ model = "v3"
        /\ Enqueue(EncodeSetTemperature(q))
        /\ Means([goal EXCEPT !.target = q],
                 IF Halves(q) \in Coldest .. Hottest THEN sure \cup {"target"}
                 ELSE sure \ {"target"})
     \/ /\ model = "v2"
        /\ Enqueue(Wrap(EncodeTemperature(q, IsMuted)))
        /\ Means([goal EXCEPT !.target = Clamp(q, 4 * 19, 4 * 43)], sure \cup {"target"})
  /\ UNCHANGED <<known, keep>>

SetLed(on) ==
  /\ Enqueue(IF model = "v3" THEN EncodeButton(IF on THEN 70 ELSE 71)
             ELSE Wrap(EncodeSettings(on, IsMuted)))
  /\ known' = [known EXCEPT !.led = OnOff(on)]
  /\ Means([goal EXCEPT !.led = OnOff(on)], sure \cup {"led"})
  /\ UNCHANGED keep

\* On a V2 this switches the LED on.
SetMuted(on) ==
  /\ Enqueue(IF model = "v3" THEN EncodeButton(IF on THEN 72 ELSE 73)
             ELSE Wrap(EncodeSettings(TRUE, on)))
  /\ known' = [known EXCEPT !.muted = OnOff(on)]
  /\ Means([goal EXCEPT !.muted = OnOff(on)],
           (sure \cup {"muted"}) \ IF model = "v2" THEN {"led"} ELSE {})
  /\ UNCHANGED keep

\* A V2 has no command for these three.
SyncClock ==
  /\ model = "v3"
  /\ \E h \in {0, 23} : Enqueue(<<8, h, 59>>)
  /\ Means(goal, sure)
  /\ UNCHANGED <<known, keep>>

\* A device that is off does not take it.
SetRuntime(h, m) ==
  /\ model = "v3"
  /\ Enqueue(EncodeSetRuntime(h, m))
  /\ Means([goal EXCEPT !.runtime = 3600 * h + 60 * m],
           IF "mode" \in sure /\ goal.mode # "standby" THEN sure \cup {"runtime"}
                                                        ELSE sure \ {"runtime"})
  /\ UNCHANGED <<known, keep>>

ActivateSlot(kind, n) ==
  /\ model = "v3"
  /\ Enqueue(EncodeButton(SlotButton(kind, n)))
  /\ Means([Held(Presets[SlotButton(kind, n)]) EXCEPT !.muted = goal.muted, !.led = goal.led],
           sure \cup OfAProgram)
  /\ UNCHANGED <<known, keep>>

-----------------------------------------------------------------------------
\* set_mode.

Preset(m) ==
  [Held(Presets[ModeButtons[m]]) EXCEPT !.muted = goal.muted, !.led = goal.led]

\* _runtime_to_preserve, lag seconds after the notification; 0 for None.
Preserved(m, lag) ==
  IF m = "standby" \/ shown.mode = "standby" THEN 0
  ELSE Max({1, (shown.runtime - lag) \div 60})

SetModeV3(m, lag) ==
  /\ model = "v3"
  /\ Enqueue(EncodeButton(ModeButtons[m]))
  /\ keep' = Preserved(m, lag)
  /\ Means(IF keep' = 0 THEN Preset(m) ELSE [Preset(m) EXCEPT !.runtime = 60 * keep'],
           IF fresh THEN sure \cup OfAProgram ELSE (sure \cup OfAProgram) \ {"runtime"})
  /\ UNCHANGED known

\* The button that _set_mode_v2 presses: that of the mode shown, to switch it
\* off; none if it is off or in the mode already, or has no such mode;
\* TURBO's every time.
NoButton == "none"
ButtonFor(m) ==
  IF m = "standby" THEN IF shown.mode = "standby" THEN NoButton ELSE shown.mode
  ELSE IF m \notin DOMAIN V2Modes \/ (shown.mode = m /\ m # "turbo") THEN NoButton
  ELSE m

\* A button that is pressed, or not, by what was shown before the latest
\* change may be the wrong one; a second TURBO is not documented.
SetModeV2(m) ==
  /\ model = "v2"
  /\ IF ButtonFor(m) = NoButton THEN UNCHANGED queue
     ELSE Enqueue(Wrap(EncodeModeButton(V2Modes[ButtonFor(m)])))
  /\ IF ~fresh \/ (m = "turbo" /\ shown.mode = "turbo") THEN Means(goal, sure \ OfAProgram)
     ELSE IF ButtonFor(m) = NoButton THEN Means(goal, sure)
     ELSE Means(Preset(m), sure \cup OfAProgram)
  /\ UNCHANGED <<known, keep>>

\* A second and more after the button, the runtime is put back.
WritesBack ==
  /\ keep # 0
  /\ Enqueue(EncodeSetRuntime(keep \div 60, keep % 60))
  /\ keep' = 0 /\ fresh' = FALSE
  /\ UNCHANGED <<model, wakes, device, shown, known, goal, sure, spent>>

-----------------------------------------------------------------------------
\* _command_worker, and the device obeys.
Writes ==
  /\ queue # <<>>
  /\ device' = Obeys(device, Head(queue))
  /\ queue' = Tail(queue)
  /\ UNCHANGED <<model, wakes, shown, known, fresh, keep, goal, sure, spent>>

\* _on_notification; it leaves mute and LED alone.
Notifies ==
  /\ shown' = Notified(device)
  /\ fresh' = (queue = <<>>)
  /\ UNCHANGED <<model, wakes, device, known, queue, keep, goal, sure, spent>>

\* Somebody uses the remote control, or time goes on.
ByHand(d) ==
  /\ spent.byHand < MaxByHand /\ spent' = [spent EXCEPT !.byHand = @ + 1]
  /\ device' = d /\ goal' = Held(d)
  /\ sure' = IF queue # <<>> THEN {}
             ELSE IF keep # 0 THEN OfAProgram \ {"runtime"} ELSE OfAProgram
  /\ fresh' = FALSE
  /\ UNCHANGED <<model, wakes, shown, known, queue, keep>>

Next ==
  \/ \E p \in Percents : SetFanSpeed(p)
  \/ \E q \in Quarters : SetTemperature(q)
  \/ \E on \in BOOLEAN : SetLed(on)
  \/ \E on \in BOOLEAN : SetMuted(on)
  \/ SyncClock
  \/ \E r \in Runtimes : SetRuntime(r[1], r[2])
  \/ \E kind \in {"memory", "biorhythm"}, n \in 1 .. 3 : ActivateSlot(kind, n)
  \/ \E m \in Modes, lag \in {0, 1} : SetModeV3(m, lag)
  \/ \E m \in Modes : SetModeV2(m)
  \/ WritesBack \/ Writes \/ Notifies
  \/ \E d \in IF model = "v2" THEN V2Found ELSE Found : ByHand(d)

Spec == Init /\ [][Next]_vars

=============================================================================
