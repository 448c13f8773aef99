-------------------------------- MODULE Control --------------------------------
(***************************************************************************)
(* What the daemon makes of the hub's commands: set_mode with the runtime  *)
(* it preserves, the toggle buttons and state-carrying commands of a V2,   *)
(* and the notifications that feed the state those decisions are taken     *)
(* from (hub/bedjet_hub/ble/manager.py, ble/state.py, and the routes of    *)
(* api/routes_device.py).                                                  *)
(*                                                                         *)
(* Time is counted in ticks; end times are relative to now.  Each IPC      *)
(* connection runs one command at a time; after a restart of the hub the   *)
(* handler of the old connection may still run.  TURBO, which may be       *)
(* pressed twice on a V2, is left out.                                     *)
(***************************************************************************)
EXTENDS Integers, Sequences

CONSTANTS
  Handlers,    \* the connections whose commands run
  Minute,      \* ticks in a minute
  Default,     \* the runtime the firmware gives to a mode
  Runtimes,    \* the runtimes that are asked for
  EndNoise,    \* the change of an end time that is not jitter
  MaxCalls,    \* bound: commands
  MaxPresses   \* bound: buttons pressed at the device

ASSUME ControlAssumption ==
  /\ Minute \in Nat \ {0} /\ Default \in Nat \ {0} /\ EndNoise \in Nat \ {0}
  /\ EndNoise =< Minute  \* five seconds
  /\ Runtimes \subseteq Nat \ {0}
  /\ MaxCalls \in Nat /\ MaxPresses \in Nat

Running == {"heat", "cool", "dry"}  \* _RUNNING_MODES
Modes == Running \cup {"standby"}
Models == {"v2", "v3"}

\* DeviceState's led_enabled and beeps_muted may be None.
Unknown == "none"
Settings == {"on", "off", Unknown}

NoEnd == -2  \* run_end_time is None; -1 is any time in the past

VARIABLES
  model,     \* BleManager._model
  device,    \* the device itself: mode, runtime left, LED and mute
  reported,  \* BleManager._state: the mode, LED and mute
  ends,      \* its run_end_time, and JitterSuppressor._last_end_time
  shown,     \* the mode the subscribers were told last
  queue,     \* BleManager._command_queue
  handler,   \* the coroutines of set_mode
  asked,     \* history: the mode asked for last
  due,       \* history: the runtime left if mode changes did not touch it
  raced,     \* history: a decision was taken from a state that was out of
             \* date, or overtaken before it was carried out
  spent      \* bounds used up so far

vars == <<model, device, reported, ends, shown, queue, handler, asked, due, raced, spent>>

Idle == [pc |-> "idle", target |-> "standby", keep |-> 0, late |-> FALSE]

\* The daemon starts with a device that is off, or that runs.
Init ==
  /\ model \in Models
  /\ \E mode \in {"standby", "heat"}, muted \in {"on", "off"} :
       /\ device = [mode |-> mode, left |-> IF mode = "standby" THEN 0 ELSE Default,
                    led |-> "on", muted |-> muted]
       /\ asked = mode
       /\ reported = [mode |-> "standby", led |-> IF model = "v3" THEN "on" ELSE Unknown,
                      muted |-> IF model = "v3" THEN muted ELSE Unknown]
  /\ due = device.left
  /\ ends = NoEnd /\ shown = "standby"
  /\ queue = <<>> /\ handler = [h \in Handlers |-> Idle]
  /\ raced = FALSE /\ spent = [calls |-> 0, presses |-> 0]

-----------------------------------------------------------------------------
\* The device.

Button(m) == [kind |-> "button", mode |-> m, n |-> 0, led |-> Unknown, muted |-> Unknown]
Runtime(n, own) ==
  [kind |-> IF own THEN "kept" ELSE "runtime", mode |-> "standby", n |-> n,
   led |-> Unknown, muted |-> Unknown]
Led(l, m) == [kind |-> "settings", mode |-> "standby", n |-> 0, led |-> l, muted |-> m]
Carrying(mode, m) == [kind |-> "fan", mode |-> mode, n |-> 0, led |-> Unknown, muted |-> m]

Turned(d, m) ==
  [d EXCEPT !.mode = m, !.left = IF m = "standby" THEN 0 ELSE Default]

\* A V3 button sets a mode and its default runtime; a V2 button toggles it.
Pressed(d, m) ==
  IF model = "v2" /\ d.mode = m THEN Turned(d, "standby") ELSE Turned(d, m)

Applied(d, c) ==
  CASE c.kind = "button" -> Pressed(d, c.mode)
    [] c.kind \in {"runtime", "kept"} ->
         IF d.mode \in Running THEN [d EXCEPT !.left = c.n] ELSE d
    [] c.kind = "settings" ->
         [d EXCEPT !.led = IF c.led = Unknown THEN @ ELSE c.led,
                   !.muted = IF c.muted = Unknown THEN @ ELSE c.muted]
    [] c.kind = "fan" ->
         [d EXCEPT !.mode = IF d.mode \in Running /\ c.mode \in Running THEN c.mode ELSE @,
                   !.muted = c.muted]

\* What the user is owed: a start gives the default, a stop ends it, an
\* explicit runtime replaces it, and a change of mode leaves it alone.
DueAfter(c, before, after) ==
  IF after.mode = "standby" THEN 0
  ELSE IF before.mode = "standby" THEN after.left
  ELSE IF c.kind = "runtime" THEN c.n
  ELSE due

\* The command worker writes the next command.
Writes ==
  /\ queue # <<>>
  /\ device' = Applied(device, Head(queue))
  /\ due' = DueAfter(Head(queue), device, device')
  /\ queue' = Tail(queue)
  /\ UNCHANGED <<model, reported, ends, shown, handler, asked, raced, spent>>

Busy(h) == handler[h].pc # "idle"
Quiet == queue = <<>> /\ \A h \in Handlers : ~Busy(h)

\* Somebody uses the remote control; a V2 knows TURBO, HEAT and COOL only.
PressedAtDevice(m) ==
  /\ model = "v2" => m \in {"heat", "cool"}
  /\ spent.presses < MaxPresses /\ spent' = [spent EXCEPT !.presses = @ + 1]
  /\ device' = Pressed(device, m)
  /\ asked' = device'.mode /\ due' = device'.left
  /\ raced' = (raced \/ ~Quiet)
  /\ UNCHANGED <<model, reported, ends, shown, queue, handler>>

\* A tick; a set_mode takes less than one, the queue is emptied at once.
Tick ==
  /\ queue = <<>> /\ \A h \in Handlers : ~handler[h].late
  /\ device' = IF device.left > 1 THEN [device EXCEPT !.left = @ - 1]
               ELSE Turned(device, "standby")
  /\ device.mode \in Running
  /\ due' = IF device'.mode = "standby" \/ due = 0 THEN 0 ELSE due - 1
  /\ asked' = IF device'.mode = "standby" THEN "standby" ELSE asked
  /\ ends' = IF ends >= 0 THEN ends - 1 ELSE ends
  /\ handler' = [h \in Handlers |-> [handler[h] EXCEPT !.late = Busy(h)]]
  /\ raced' = (raced \/ (device'.mode = "standby" /\ ~Quiet))
  /\ UNCHANGED <<model, reported, shown, queue, spent>>

-----------------------------------------------------------------------------
\* Notifications.

EndOf(left) == IF left > 0 THEN left ELSE NoEnd

Apart(a, b) == a - b >= EndNoise \/ b - a >= EndNoise

\* Mutant: an end time that disappears is taken for jitter.
AcceptsMoves(new) ==
  \/ ends = NoEnd
  \/ ends = -1 /\ new > 0
  \/ new # NoEnd /\ Apart(new, ends)

\* JitterSuppressor.update_end_time.
Accepts(new) ==
  \/ ends = NoEnd
  \/ ends = -1 /\ new > 0
  \/ new = NoEnd
  \/ Apart(new, ends)

\* _on_notification.  The LED and the mute are not taken over, and the
\* subscribers are told if the temperature (which may do either) or the end
\* time is accepted.
Notification ==
  LET new == EndOf(device.left) IN
  /\ reported' = [reported EXCEPT !.mode = device.mode]
  /\ ends' = IF Accepts(new) THEN new ELSE ends
  /\ \/ shown' = device.mode
     \/ ~Accepts(new) /\ UNCHANGED shown
  /\ UNCHANGED <<model, device, queue, handler, asked, due, raced, spent>>

-----------------------------------------------------------------------------
\* The commands.

Enqueue(c) == queue' = Append(queue, c)

Call == spent.calls < MaxCalls /\ spent' = [spent EXCEPT !.calls = @ + 1]

\* The state the decisions are taken from is that of the device, and nothing
\* is under way.
Fresh == Quiet /\ reported.mode = device.mode
           /\ (device.left > 0 => ends >= 0 /\ ~Apart(ends, device.left))

\* Another command comes between a set_mode and its end.
Overtakes == raced' = (raced \/ ~Quiet)

\* Mutant: the remaining runtime is rounded up.
PreservedUp(target) ==
  IF target \in Running /\ reported.mode \in Running
  THEN IF ends > Minute THEN ((ends \div Minute) + 2) * Minute ELSE Minute
  ELSE 0

\* _runtime_to_preserve: whole minutes, at least one; 0 stands for None.
Preserved(target) ==
  IF target \in Running /\ reported.mode \in Running
  THEN IF ends > Minute THEN (ends \div Minute) * Minute ELSE Minute
  ELSE 0

Waits(h, target, keep) ==
  handler' = [handler EXCEPT ![h] = [pc |-> "waiting", target |-> target, keep |-> keep,
                                     late |-> FALSE]]

\* set_mode on a V3, up to the wait for the mode.
SetMode(h, target) ==
  /\ model = "v3" /\ ~Busy(h) /\ Call
  /\ Enqueue(Button(target))
  /\ Waits(h, target, Preserved(target))
  /\ asked' = target /\ raced' = (raced \/ ~Fresh)
  /\ UNCHANGED <<model, device, reported, ends, shown, due>>

\* Mutant: the button of the target is pressed, whatever the mode is.
TogglePressesAlways(target) == IF target \in {"heat", "cool"} THEN {target} ELSE {}

\* _set_mode_v2's choice: the button of the running mode switches off, that
\* of another mode switches over; DRY and EXTENDED_HEAT have none.
ToggleFor(target) ==
  IF target = "standby" THEN {reported.mode} \cap {"heat", "cool"}
  ELSE {target} \cap ({"heat", "cool"} \ {reported.mode})

\* _set_mode_v2, up to the wait for the mode, if it presses anything.
SetModeV2(h, target) ==
  /\ model = "v2" /\ ~Busy(h) /\ Call
  /\ \/ ToggleFor(target) = {} /\ UNCHANGED <<queue, handler>>
     \/ \E b \in ToggleFor(target) : Enqueue(Button(b)) /\ Waits(h, target, 0)
  /\ asked' = IF target = "dry" THEN asked ELSE target
  /\ raced' = (raced \/ ~Fresh)
  /\ UNCHANGED <<model, device, reported, ends, shown, due>>

\* _wait_for_mode_change: the mode is reported or the deadline is over; if
\* there is a runtime to restore, set_mode sleeps for another second.
WaitOver(h) ==
  /\ handler[h].pc = "waiting"
  /\ handler' = [handler EXCEPT ![h] = IF @.keep = 0 THEN Idle ELSE [@ EXCEPT !.pc = "sleeping"]]
  /\ UNCHANGED <<model, device, reported, ends, shown, queue, asked, due, raced, spent>>

\* The runtime is written back.
Restores(h) ==
  /\ handler[h].pc = "sleeping"
  /\ Enqueue(Runtime(handler[h].keep, TRUE))
  /\ handler' = [handler EXCEPT ![h] = Idle]
  /\ UNCHANGED <<model, device, reported, ends, shown, asked, due, raced, spent>>

\* set_runtime; a V2 ignores it.
SetRuntime(h, n) ==
  /\ ~Busy(h) /\ Call
  /\ IF model = "v3" THEN Enqueue(Runtime(n, FALSE)) ELSE UNCHANGED queue
  /\ Overtakes
  /\ UNCHANGED <<model, device, reported, ends, shown, handler, asked, due>>

Or(setting, other) == IF setting = Unknown THEN other ELSE setting

\* set_led and set_muted: a V2 is sent both settings, and the LED's is always
\* on ("led_enabled or True").  The state is changed and told at once.
SetLed(h, on) ==
  /\ ~Busy(h) /\ Call /\ Overtakes
  /\ Enqueue(IF model = "v2" THEN Led(on, Or(reported.muted, "off")) ELSE Led(on, Unknown))
  /\ reported' = [reported EXCEPT !.led = on]
  /\ shown' = reported.mode
  /\ UNCHANGED <<model, device, ends, handler, asked, due>>

SetMuted(h, on) ==
  /\ ~Busy(h) /\ Call /\ Overtakes
  /\ Enqueue(IF model = "v2" THEN Led("on", on) ELSE Led(Unknown, on))
  /\ reported' = [reported EXCEPT !.muted = on]
  /\ shown' = reported.mode
  /\ UNCHANGED <<model, device, ends, handler, asked, due>>

\* Mutant: the mute is left out of the packet.
CarriesNothing(mode) == Carrying(mode, "off")

\* What a V2 packet says besides the value that is set.
Carries(mode) == Carrying(mode, Or(reported.muted, "off"))

\* set_temperature and set_fan_speed: a V2 is sent the mute as well, and with
\* the fan also the mode (HEAT if it has none); a V3 only the value.
SetValue(h, fan) ==
  /\ ~Busy(h) /\ Call
  /\ IF model = "v3" THEN UNCHANGED queue
     ELSE Enqueue(Carries(IF ~fan THEN "standby"
                          ELSE IF reported.mode \in {"heat", "cool"} THEN reported.mode
                          ELSE "heat"))
  /\ raced' = (raced \/ (IF model = "v2" /\ fan THEN ~Fresh ELSE ~Quiet))
  /\ UNCHANGED <<model, device, reported, ends, shown, handler, asked, due>>

-----------------------------------------------------------------------------

HandlerStep(h) ==
  \/ \E m \in Modes : SetMode(h, m) \/ SetModeV2(h, m)
  \/ \E n \in Runtimes : SetRuntime(h, n)
  \/ \E on \in {"on", "off"} : SetLed(h, on) \/ SetMuted(h, on)
  \/ \E fan \in BOOLEAN : SetValue(h, fan)
  \/ WaitOver(h) \/ Restores(h)

Next ==
  \/ Writes \/ Notification \/ Tick
  \/ \E m \in Modes : PressedAtDevice(m)
  \/ \E h \in Handlers : HandlerStep(h)

Spec == Init /\ [][Next]_vars
=============================================================================
