------------------------------ MODULE PanelProps ------------------------------
(* What a caller can rely on of the device's settings. *)
EXTENDS Panel

\* The settings are in range, none that the bytes of a V2 cannot hold, and
\* what is fresh was notified after the last write.
TypeOK ==
  /\ model \in {"v2", "v3"} /\ wakes \in BOOLEAN
  /\ device.mode \in IF model = "v2" THEN DOMAIN Base ELSE Modes
  /\ device.step \in 1 .. 20 /\ device.minutes \in 0 .. 59
  /\ device.temp \in Byte /\ device.hours \in Byte
  /\ model = "v2" => device.temp < High /\ device.hours < 16
  /\ shown.fan \in 0 .. 100 /\ shown.fan % 5 = 0
  /\ fresh => queue = <<>> /\ shown = Notified(device)
  /\ known.muted \in {"on", "off", "none"} /\ known.led \in {"on", "off", "none"}
  /\ keep \in Nat /\ sure \subseteq Settings
  /\ spent \in [calls : 0 .. MaxCalls, byHand : 0 .. MaxByHand]

\* The device holds the setting asked for: a temperature to the nearest half
\* degree.
Holds(s) ==
  IF s = "target" THEN Held(device).target - goal.target \in -1 .. 1
  ELSE Held(device)[s] = goal[s]

\* And the hub shows it.  A V2 shows no fan while it is off, and a fixed
\* temperature in TURBO.
Shows(s) ==
  CASE s = "muted" -> known.muted = device.muted
    [] s = "led" -> known.led = device.led
    [] s = "mode" -> shown.mode = device.mode
    [] s = "runtime" -> shown.runtime = Held(device).runtime
    [] s = "fan" -> shown.fan = IF model = "v2" /\ device.mode = "standby" THEN 0
                                ELSE Held(device).fan
    [] s = "target" -> 2 * shown.target = IF model = "v2" /\ device.mode = "turbo" THEN 4 * 43
                                          ELSE Held(device).target

ShownIsAsked == fresh /\ keep = 0 => \A s \in sure : Holds(s) /\ Shows(s)

======================================================================
