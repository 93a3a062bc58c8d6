---------------------------- MODULE MCController ----------------------------
(* Instances of Controller for TLC. Callers and worker threads are alike; the *)
(* fans are when they have the same hardware.                                 *)
EXTENDS ControllerClaims, TLC

CONSTANTS f1, f2, f3, c1, c2, w1, w2, w3, w4, w5

TwoCallers == {c1, c2}
FiveWorkers == {w1, w2, w3, w4, w5}
FourWorkers == {w1, w2, w3, w4}
TwoWorkers == {w1, w2}

ThreadSymmetry == Permutations(Callers) \cup Permutations(Workers)
TableSymmetry == ThreadSymmetry \cup Permutations(Fans)
=============================================================================
