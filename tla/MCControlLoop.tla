---------------------------- MODULE MCControlLoop ----------------------------
(* Instances of ControlLoop for TLC.                                          *)
EXTENDS ControlLoop, TLC

\* What a test finds for a fan that stops, with start PWM 120 and stall PWM 60.
Tested == 0 :> 0 @@ 400 :> 60 @@ 600 :> 80 @@ 1000 :> 140 @@ 1500 :> 255
\* The form of the README: the fan stands at the speed it names first.
Named == 300 :> 0 @@ 1500 :> 255

\* Curves that stand first, that never stand, and that stay level at the top.
SomeCurves ==
  {30 :> 0 @@ 50 :> 0 @@ 70 :> 1500, 30 :> 700 @@ 50 :> 700 @@ 70 :> 1500,
   30 :> 0 @@ 50 :> 700 @@ 70 :> 700}

TwoMappings == {Tested, Named}
=============================================================================
