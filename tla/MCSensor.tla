------------------------------- MODULE MCSensor -------------------------------
(* Instances of Sensor for TLC.                                               *)
EXTENDS Sensor

Warm == {30, 31, 60}
=============================================================================
