---------------------------- MODULE FanLifecycle ----------------------------
(* What the Controller promises for one fan, whatever locks, joins and        *)
(* threads it takes: status() follows DISABLED, ENABLED and TESTING, and the  *)
(* fan has no driver, one control loop, or one test. A driver starts on a     *)
(* disabled fan only and has stopped before the fan is disabled again; a test *)
(* that was begun is ended, never abandoned: TESTING leads to ENABLED only.   *)
CONSTANT Fans
VARIABLES status, driver

Init == /\ status = [f \in Fans |-> "DISABLED"]
        /\ driver = [f \in Fans |-> "none"]

Move(f, from, to, before, after) ==
  /\ status[f] = from /\ driver[f] = before
  /\ status' = [status EXCEPT ![f] = to]
  /\ driver' = [driver EXCEPT ![f] = after]

Enable(f)    == Move(f, "DISABLED", "ENABLED", "none", "loop")
BeginTest(f) == Move(f, "DISABLED", "TESTING", "none", "test")
StopLoop(f)  == Move(f, "ENABLED", "ENABLED", "loop", "none")
Measured(f)  == Move(f, "TESTING", "TESTING", "test", "none")
EndTest(f)   == Move(f, "TESTING", "ENABLED", "none", "none")
Disable(f)   == Move(f, "ENABLED", "DISABLED", "none", "none")

Next == \E f \in Fans : Enable(f) \/ BeginTest(f) \/ StopLoop(f)
                        \/ Measured(f) \/ EndTest(f) \/ Disable(f)
Spec == Init /\ [][Next]_<<status, driver>>
=============================================================================
