------------------------------ MODULE ControlProps ------------------------------
(* What the commands promise, and what the comments say of them. *)
EXTENDS Control

\* There is a longest runtime: the packet has a byte for the hours.
ASSUME LongestAssumption ==
  \E n \in Runtimes \cup {Default, Minute} :
    \A k \in Runtimes \cup {Default, Minute} : k =< n

Longest == CHOOSE n \in Runtimes \cup {Default, Minute} :
             \A k \in Runtimes \cup {Default, Minute} : k =< n

CommandType ==
  [kind : {"button", "runtime", "kept", "settings", "fan"}, mode : Modes, n : 0 .. Longest,
   led : Settings, muted : Settings]

\* Every variable has its type: no runtime grows beyond what was asked for,
\* a device that is off has none, and one that runs has some.
TypeOK ==
  /\ model \in Models
  /\ device \in [mode : Modes, left : 0 .. Longest, led : {"on", "off"}, muted : {"on", "off"}]
  /\ device.mode = "standby" <=> device.left = 0
  /\ reported \in [mode : Modes, led : Settings, muted : Settings]
  /\ ends \in NoEnd .. Longest
  /\ shown \in Modes /\ asked \in Modes
  /\ queue \in Seq(CommandType)
  /\ handler \in [Handlers -> [pc : {"idle", "waiting", "sleeping"}, target : Modes,
                               keep : 0 .. Longest, late : BOOLEAN]]
  /\ due \in 0 .. Longest /\ raced \in BOOLEAN
  /\ spent \in [calls : 0 .. MaxCalls, presses : 0 .. MaxPresses]

\* "The firmware wipes the runtime back to the mode default on every mode
\* change.  Put the remaining time back": the device's runtime is the one the
\* user is owed.  A change of mode may take a minute from it by rounding, add
\* the delay and the jitter, or leave a minute that is not owed.
Kept ==
  /\ device.left >= due - spent.calls * (Minute + EndNoise)
  /\ device.left =< Minute \/ device.left =< due + spent.calls * (EndNoise + 1)

\* When everything is carried out and no decision was taken from a state that
\* was out of date, mode changes have kept the runtime.
TimerKept ==
  model = "v3" /\ Quiet /\ ~raced /\ device.mode \in Running => Kept

\* Then the device is also in the mode asked for last, also on a V2, where
\* the button to press depends on the mode it is in.
ModeAsAsked == Quiet /\ ~raced => device.mode = asked

\* A V2 takes the mute from every packet: once the daemon knows it, no later
\* command of another kind changes it.
MuteKept ==
  queue = <<>> /\ reported.muted # Unknown => device.muted = reported.muted

\* Whatever the jitter filter suppresses, the subscribers learn whether the
\* device runs: only the kind of a running mode may be late.
ShownRuns == (shown = "standby") = (reported.mode = "standby")

-----------------------------------------------------------------------------
\* "Put the remaining time back so that only an explicit set_runtime() call
\* may change the timer": what set_mode writes back is what the user is owed,
\* whatever else was under way when it looked at the state.
RestoresRemaining ==
  [][Writes /\ Head(queue).kind = "kept" /\ device.mode \in Running => Kept']_vars

=============================================================================
