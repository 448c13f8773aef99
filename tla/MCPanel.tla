------------------------------- MODULE MCPanel -------------------------------
(* Values around every limit, and presets that differ in every setting. *)
EXTENDS PanelProps

Setting(mode, step, temp, hours, minutes) ==
  [mode |-> mode, step |-> step, temp |-> temp, hours |-> hours, minutes |-> minutes,
   seconds |-> 0, muted |-> "off", led |-> "on"]

MCPresets ==
  [b \in Range(ModeButtons) \cup SlotButtons |->
     CASE b = 1 -> Setting("standby", 10, 60, 0, 0)
       [] b = 2 -> Setting("cool", 20, 50, 4, 0)
       [] b = 3 -> Setting("heat", 8, 76, 1, 0)
       [] b = 4 -> Setting("turbo", 20, 86, 0, 10)
       [] b = 5 -> Setting("dry", 15, 70, 2, 0)
       [] b = 6 -> Setting("extended_heat", 5, 66, 10, 0)
       [] OTHER -> Setting("heat", 12, 72, 7, 30)]

MCFound ==
  {MCPresets[1],
   [Setting("heat", 1, 75, 0, 59) EXCEPT !.seconds = 45, !.muted = "on"],
   [Setting("cool", 20, 39, 15, 7) EXCEPT !.led = "off"],
   [Setting("turbo", 20, 86, 0, 9) EXCEPT !.seconds = 30]}

MCPercents == {5, 52, 100}
MCQuarters == {-2, -1, 75, 79, 173, 510, 511}
MCRuntimes == {<<2, 30>>, <<255, 59>>, <<256, 0>>}

======================================================================
