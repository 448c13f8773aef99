--------------------------------- MODULE Wire ---------------------------------
(***************************************************************************)
(* The two BLE protocols as functions on bytes (ble/protocol_v3.py,        *)
(* ble/protocol_v2.py): the commands that carry a number, and what a       *)
(* status notification is read as.  A temperature that a caller gives is   *)
(* counted in quarters of a degree, one on the wire in halves.             *)
(***************************************************************************)
EXTENDS Integers, Sequences, FiniteSetsExt, SequencesExt

Byte == 0 .. 255
High == 128    \* the bit that a V2 uses for the mute

\* bytes([...]) raises ValueError when an element is no byte.
IsBytes(packet) == Range(packet) \subseteq Byte

\* round(c * 2): the nearest half degree, a tie goes to the even one.
Halves(q) == IF q % 4 = 3 THEN (q + 1) \div 2 ELSE q \div 2

Clamp(q, low, high) == Min({Max({q, low}), high})

-----------------------------------------------------------------------------
\* V3 commands.

EncodeButton(code) == <<1, code>>
EncodeSetFan(p) == <<7, p \div 5 - 1>>
EncodeSetTemperature(q) == <<3, Halves(q)>>
EncodeSetRuntime(h, m) == LET t == h * 60 + m IN <<2, t \div 60, t % 60>>

\* A V3 notification, the bytes that are read here.
DecodeV3(n) ==
  [mode |-> n.mode, fan |-> (n.step + 1) * 5, target |-> n.temp,
   runtime |-> n.hours * 3600 + n.minutes * 60 + n.seconds]

-----------------------------------------------------------------------------
\* V2 commands.

Sum8(bytes) == FoldLeft(+, 0, bytes) % 256

\* wrap_command: header and checksum.
Wrap(inner) == LET pkt == <<88>> \o inner IN Append(pkt, 255 - Sum8(pkt))

EncodeModeButton(m) == <<2, 1, m>>

Muted(byte, muted) == IF muted THEN byte + High ELSE byte

\* The LED's bit says off.
EncodeSettings(led, muted) ==
  <<2, 17, (IF muted THEN 1 ELSE 0) + (IF led THEN 0 ELSE 2)>>

V2Modes == [turbo |-> 1, heat |-> 2, cool |-> 3]

EncodeTemperature(q, muted) ==
  <<2, 7, Muted(Halves(Clamp(q, 4 * 19, 4 * 43)), muted)>>

\* Mutant: the fan's steps are counted as a V3 counts them.
EncodeFanFromZero(p, mode, target, muted, h, m) ==
  <<7, 14, mode, p \div 5 - 1, Muted(target, muted), h, m, 0>>

EncodeFan(p, mode, target, muted, h, m) ==
  <<7, 14, mode, p \div 5, Muted(target, muted), h, m, 0>>

\* Mutant: cool runs are recognised one step late.
ModeAndFanLate(b4, b5) ==
  IF b4 \in 98 .. 117 THEN <<"cool", (b4 - 96) * 5>>
  ELSE IF b4 \in 65 .. 84 THEN <<"heat", (b4 - 64) * 5>>
  ELSE IF b4 \in 33 .. 52 THEN <<"turbo", (b4 - 32) * 5>>
  ELSE <<"standby", 0>>

\* Byte 4 of a V2 notification holds mode and fan step, or else the device
\* is off unless byte 5 says that TURBO runs.
ModeAndFan(b4, b5) ==
  IF b4 \in 97 .. 116 THEN <<"cool", (b4 - 96) * 5>>
  ELSE IF b4 \in 65 .. 84 THEN <<"heat", (b4 - 64) * 5>>
  ELSE IF b4 \in 33 .. 52 THEN <<"turbo", (b4 - 32) * 5>>
  ELSE IF b4 \notin {20, 14} /\ b5 \in 1 .. 4 THEN <<"turbo", 100>>
  ELSE <<"standby", 0>>

\* A V2 notification: the hours are the upper half of byte 5; its lower half
\* and byte 6 count 64ths of a minute.  (The mute and the LED it also says are
\* not taken over by the manager.)
DecodeV2(n) ==
  LET mf == ModeAndFan(n.b4, n.b5)
      sub == (n.b5 % 16) * 256 + n.b6
  IN  [mode |-> mf[1],
       fan |-> IF mf[1] = "standby" THEN 0 ELSE Clamp(mf[2], 5, 100),
       target |-> IF mf[1] = "turbo" THEN 2 * 43 ELSE n.b7 % High,
       runtime |-> (n.b5 \div 16) * 3600 + (sub * 60 + 32) \div 64]

=============================================================================
