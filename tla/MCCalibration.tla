---------------------------- MODULE MCCalibration ----------------------------
(* Instances of Calibration for TLC.                                          *)
EXTENDS Calibration

Whole == 0 .. PwmMax
Even == {p \in Whole : p % 2 = 0} \cup {PwmMax}
Odd == {0, 5, 11, PwmMax}
Fan(kick, stall, levels) ==
  [kick |-> kick, stall |-> stall, levels |-> levels, percent |-> FALSE]
FanNV(kick, stall) == [Fan(kick, stall, Whole) EXCEPT !.percent = TRUE]

\* Fans that stop, with drivers that keep every PWM or few; one that never
\* starts; one that never stops; one of a GPU. With Odd a test whose start PWM is odd passes by 0.
AllHardware ==
  {Fan(8, 4, Whole), Fan(9, 5, Even), Fan(10, 4, {0, 6, 12, PwmMax}),
   Fan(5, 4, Odd), Fan(PwmMax + 1, PwmMax + 1, Whole), Fan(0, 0, Whole),
   FanNV(5, 4)}
=============================================================================
