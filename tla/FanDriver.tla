------------------------------ MODULE FanDriver ------------------------------
(* How a fan is taken from its driver and given back: FanSysfs, FanDell and   *)
(* FanNV. An operation on a device gives the set of its outcomes; ok is what  *)
(* it returns. A fan is [driver, auto, method]: the class of the fan, the     *)
(* mode its chip starts in, and for Dell the command pair its BIOS knows.     *)
EXTENDS Integers, FiniteSets

CONSTANT MaxFaults   \* bound: writes to the hardware that fail

Manual == 1          \* manual_flag, NV_CTRL_GPU_COOLER_MANUAL_CONTROL_TRUE
Automatic == 2       \* the first driver_flag, and the driver's control elsewhere

\* A device: the chip's mode, enabled and driver_flag of the Fan object.
Device(chip, enabled, flag, faults) ==
  [chip |-> chip, enabled |-> enabled, flag |-> flag, faults |-> faults, ok |-> TRUE]

Done(d) == {[d EXCEPT !.ok = TRUE]}
Failed(d) == IF d.faults < MaxFaults THEN {[d EXCEPT !.faults = @ + 1, !.ok = FALSE]} ELSE {}
Write(d, mode) == Done([d EXCEPT !.chip = mode]) \cup Failed(d)

-----------------------------------------------------------------------------
(* Dell: smm_send, mode. A command that the BIOS does not know leaves the     *)
(* registers as they were and counts as failed.                               *)

Method(flag) == IF flag \in {1, 3} THEN flag ELSE 2
smm_send(fan, d, method, mode) ==
  IF method = fan.method THEN Write(d, mode) ELSE {[d EXCEPT !.ok = FALSE]}

-----------------------------------------------------------------------------
(* enable_control, disable_control                                            *)

\* A fan without an enable file ("bare") is always under control.
enable_control(fan, d) ==
  LET tried == CASE fan.driver = "bare" -> Done(d)
                 [] fan.driver = "dell" -> smm_send(fan, d, Method(d.flag), Manual)
                 [] OTHER -> Write(d, Manual)
  IN {[r EXCEPT !.enabled = @ \/ r.ok] : r \in tried}

\* A write that fails leaves the fan enabled, though FanSysfs returns true.
disable_control(fan, d) ==
  LET tried == CASE fan.driver = "bare" -> Done(d)
                 [] fan.driver = "dell" -> smm_send(fan, d, Method(d.flag), Automatic)
                 [] fan.driver = "sysfs" -> Write(d, d.flag)
                 [] OTHER -> Write(d, Automatic)
  IN {[r EXCEPT !.enabled = @ /\ ~r.ok] : r \in tried}

\* Faulty variant of Destroyed: the destructor asks nothing.
DestroyedAlways(fan, d) == disable_control(fan, d)
\* The destructors.
Destroyed(fan, d) == IF d.enabled THEN disable_control(fan, d) ELSE Done(d)

try_enable(fan, d) ==
  UNION {IF r.ok THEN {r} ELSE {[x EXCEPT !.ok = FALSE] : x \in disable_control(fan, r)}
         : r \in enable_control(fan, d)}

\* recover_control: five tries. set_pwm recovers when the write of a PWM fails.
Again(fan, rs) == UNION {IF r.ok THEN {r} ELSE enable_control(fan, r) : r \in rs}
recover_control(fan, d) ==
  Again(fan, Again(fan, Again(fan, Again(fan, enable_control(fan, d)))))
set_pwm(fan, d) == Done(d) \cup UNION {recover_control(fan, r) : r \in Failed(d)}

-----------------------------------------------------------------------------
(* test_driver_enable_flag                                                    *)

\* What is kept of a command that worked is its code, which is none of 1 to 3.
Code(method) == 100 + method
Probe(fan, rs, method) == UNION {
  IF r.ok THEN {r}
  ELSE LET sent == smm_send(fan, r, method, Manual) IN
       {IF x.ok THEN [x EXCEPT !.flag = Code(method)] ELSE x : x \in sent}
       \cup {[x EXCEPT !.ok = FALSE] : x \in sent}   \* the PWM did not follow
  : r \in rs}

\* Faulty variant: the mode is taken for the driver's whatever it is.
test_any_flag(fan, d) == Done([d EXCEPT !.flag = d.chip])

test_driver_enable_flag(fan, d) ==
  CASE fan.driver = "sysfs" ->
         Done(d) \cup (IF d.chip \in {0, Manual} THEN {} ELSE Done([d EXCEPT !.flag = d.chip]))
    [] fan.driver = "dell" /\ d.flag \notin 1 .. 3 ->
         {IF r.ok THEN r ELSE [r EXCEPT !.flag = 2] : r \in
            Probe(fan, Probe(fan, Probe(fan, {[d EXCEPT !.ok = FALSE]}, 2), 1), 3)}
    [] OTHER -> Done(d)

\* Fan::test up to the first measurement: the fan is taken and its PWM follows,
\* or it is given back.
BeginTest(fan, d) ==
  UNION {IF r.ok THEN {r} \cup {[x EXCEPT !.ok = FALSE] : x \in disable_control(fan, r)}
         ELSE {[x EXCEPT !.ok = FALSE] : x \in disable_control(fan, r)}
         : r \in UNION {enable_control(fan, x) : x \in test_driver_enable_flag(fan, d)}}
=============================================================================
