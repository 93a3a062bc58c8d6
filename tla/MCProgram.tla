----------------------------- MODULE MCProgram -----------------------------
(* Instances of Program for TLC.                                              *)
EXTENDS Program

CONSTANTS p1, p2
TwoProcesses == {p1, p2}

Hw(driver, auto, method, number) ==
  [driver |-> driver, auto |-> auto, method |-> method, flag |-> number, configured |-> TRUE]
NoCurve(f) == [f EXCEPT !.configured = FALSE]
\* A chip whose mode is not the default; a Dell fan without a curve; a fan
\* without an enable file; a Dell fan that knows the other pair of commands only.
SomeFans == {Hw("sysfs", 5, 0, 2), NoCurve(Hw("dell", 2, 2, 2)), Hw("bare", 0, 0, 2),
             Hw("dell", 2, 1, 2)}
=============================================================================
