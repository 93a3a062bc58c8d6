---------------------------- MODULE MCFanConfig ----------------------------
(* Texts and measurements for TLC.                                            *)
EXTENDS FanConfig, TLC

Item(t, v, u) == [temp |-> t, fahrenheit |-> FALSE, value |-> v, unit |-> u]
ItemF(t, v, u) == [temp |-> t, fahrenheit |-> TRUE, value |-> v, unit |-> u]

\* README.md:76, one in PWM, one in °F that is below 0 °C, one with a sign, one
\* whose items fall together, one that does not rise and has a number too large.
SomeCurves == {
  <<Item(39, 0, "%"), Item(40, 1, "%"), Item(75, 50, "%"), Item(90, 100, "%")>>,
  <<Item(30, 0, "PWM"), Item(50, 70, "PWM"), Item(60, 130, "PWM"), Item(70, 999, "PWM")>>,
  <<ItemF(20, 800, ""), ItemF(113, 1000, ""), ItemF(114, 1200, "")>>,
  <<Item(-5, 500, ""), Item(45, 900, "")>>,
  <<Item(40, 900, ""), Item(20, 60, "%"), Item(20, 5000, "")>>}

Pair(r, p) == [rpm |-> r, pwm |-> p]
\* Measured ones, one that is cut off and begins above PWM 0, one out of order.
SomeMappings == {
  <<>>, <<Pair(0, 0), Pair(600, 60), Pair(1500, 140), Pair(2900, 255)>>,
  <<Pair(700, 50), Pair(1600, 300)>>, <<Pair(5000, 3), Pair(0, 90), Pair(800, 20)>>}

SomeTests == {
  [mapping |-> 0 :> 0 @@ 500 :> 40 @@ 1200 :> 100 @@ 2400 :> 255, start |-> 46],
  [mapping |-> 650 :> 30 @@ 1900 :> 255, start |-> 0]}
=============================================================================
