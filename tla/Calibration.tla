----------------------------- MODULE Calibration -----------------------------
(* The test of one fan (Fan::test, src/fan/Fan.cpp): it takes control, finds  *)
(* the speed at rest, the PWM that starts the fan, the PWMs that keep it      *)
(* running, and the speeds up to full, and makes rpm_to_pwm of them.          *)
(* set_stabilised_pwm is one step. PWMs are unsigned and wrap; the fan and    *)
(* its driver are outside the program.                                        *)
EXTENDS Integers, Sequences, FiniteSets, FiniteSetsExt, Functions

CONSTANTS
  Hardware,  \* fans: [kick, stall |-> PWMs, levels |-> PWMs the driver keeps,
             \* percent |-> it is FanNV, whose driver keeps a percentage]
  PwmMax,    \* PWM_MAX
  UintMod,   \* 2^w for a w-bit unsigned
  None,      \* an empty optional
  Noises,    \* what a reading may be off by
  MaxNoise,  \* bound: readings that are off
  MaxFaults  \* bound: writes that fail, with no recovery

ASSUME CalibrationAssumption ==
  /\ PwmMax \in Nat \ {0} /\ UintMod \in Nat /\ UintMod > PwmMax + 7
  /\ None \notin Int /\ Noises \subseteq Nat
  /\ MaxNoise \in Nat /\ MaxFaults \in Nat

\* A fan that turns needs less to go on than to start; a driver keeps both ends.
ASSUME HardwareAssumption == \A h \in Hardware :
  /\ {h.kick, h.stall} \subseteq Nat /\ h.stall <= h.kick /\ h.percent \in BOOLEAN
  /\ {0, PwmMax} \subseteq h.levels /\ h.levels \subseteq 0 .. PwmMax

VARIABLES
  hw,
  pwm, spinning,    \* the driver's PWM, and whether the fan turns
  phase,            \* the part of the test that runs
  target,           \* target_pwm
  cur_rpm,          \* the last result of set_stabilised_pwm
  pwm_to_rpm,
  results, older,   \* the running speeds found on the way down: the last three
                    \* with their PWMs, and what the earlier ones map
  start_pwm, rpm_to_pwm,
  status,           \* the progress that is observed
  pre_pwm,
  noise, faults,
  first             \* history variable: the PWM the fan was seen to start at

plant == <<pwm, spinning, noise, faults>>
found == <<pwm_to_rpm, results, older, start_pwm, rpm_to_pwm>>
vars == <<hw, plant, phase, target, cur_rpm, found, status, pre_pwm, first>>

\* FanNV: both conversions cut, so that only every fifth of the range is kept.
pwm_to_percent(p) == (p * 100) \div PwmMax
percent_to_pwm(c) == (c * PwmMax) \div 100

Init ==
  /\ hw \in Hardware
  /\ pwm \in (IF hw.percent THEN {percent_to_pwm(c) : c \in 0 .. 100} ELSE hw.levels)
  /\ spinning = (pwm >= hw.kick)
  /\ phase = "take" /\ target = 0 /\ cur_rpm = 0
  /\ pwm_to_rpm = <<>> /\ results = <<>> /\ older = <<>> /\ start_pwm = 0 /\ rpm_to_pwm = <<>>
  /\ status = -1 /\ pre_pwm = 0
  /\ noise = 0 /\ faults = 0 /\ first = None

-----------------------------------------------------------------------------
(* The fan, and set_stabilised_pwm                                            *)

\* The driver keeps a level next to what is written, or a percentage.
Levels(p) ==
  IF hw.percent THEN {percent_to_pwm(pwm_to_percent(p))}
  ELSE {Max({l \in hw.levels : l <= p}), Min({l \in hw.levels : l >= p})}
Turns(p) == p >= hw.kick \/ (spinning /\ p >= hw.stall)
Speed(p, turning) == IF turning THEN 10 * p + 30 ELSE 0

\* A write of more than the largest PWM is refused; set_pwm then recovers control
\* and says that it went well. A write may also fail for good.
Outcome(p, turning, rpm, n, f) ==
  [pwm |-> p, spinning |-> turning, rpm |-> rpm, noise |-> n, fault |-> f]
Refused == {Outcome(pwm, spinning, None, 0, 0)}
Failed == {Outcome(pwm, spinning, None, 0, 1)}
Written(p) == UNION {LET t == Turns(l) IN
    IF l # p THEN {Outcome(l, t, None, 0, 0)}
    ELSE {Outcome(l, t, Speed(l, t), 0, 0)} \cup
         {Outcome(l, t, Speed(l, t) + d, 1, 0) : d \in IF t THEN Noises ELSE {}}
  : l \in Levels(p)}

\* The driver gives back another PWM than was written: no result.
Stabilise(p) ==
  LET all == IF p > PwmMax THEN Refused ELSE Written(p) \cup Failed IN
  {o \in all : noise + o.noise <= MaxNoise /\ faults + o.fault <= MaxFaults}

Settle(p) == {o \in Stabilise(p) : o.noise = 0}

Drive(o) ==
  /\ pwm' = o.pwm /\ spinning' = o.spinning
  /\ noise' = noise + o.noise /\ faults' = faults + o.fault
  /\ UNCHANGED hw

\* A map with other entries put over its own.
Over(new, m) == [p \in DOMAIN new \cup DOMAIN m |-> IF p \in DOMAIN new THEN new[p] ELSE m[p]]
Entry(p, rpm) == [q \in {p} |-> rpm]

Put(p, rpm) == pwm_to_rpm' = Over(Entry(p, rpm), pwm_to_rpm)
\* Faulty variant: as if signed.
Minus2Signed(p) == p - 2
Minus2(p) == (p - 2) % UintMod

-----------------------------------------------------------------------------
(* test, set_pwm_test                                                         *)

\* The PWM is written to the other end: a driver that does not keep it, or a
\* write or mode that fails, ends the test.
TakeControl ==
  /\ phase = "take"
  /\ LET p == IF pwm # 0 THEN 0 ELSE PwmMax IN
     \E o \in Settle(p) :
       /\ Drive(o)
       /\ pre_pwm' = pwm
       /\ IF o.pwm = p
          THEN phase' = "stopped" /\ status' = 0
          ELSE phase' = "failed" /\ status' = -1
  /\ UNCHANGED <<target, cur_rpm, found, first>>

TestStopped ==
  /\ phase = "stopped"
  /\ \E o \in Settle(0) :
       Drive(o) /\ Put(o.pwm, Speed(o.pwm, o.spinning))
  /\ phase' = "start" /\ status' = status + 20
  /\ target' = 0 /\ cur_rpm' = 0
  /\ UNCHANGED <<results, older, start_pwm, rpm_to_pwm, pre_pwm, first>>

TestStart ==
  /\ phase = "start"
  /\ cur_rpm \in {None, 0} /\ target <= PwmMax
  /\ \E o \in Stabilise(target) :
       /\ Drive(o) /\ cur_rpm' = o.rpm
       /\ first' = IF o.rpm \in {None, 0} THEN first ELSE target
  /\ target' = target + 2
  /\ UNCHANGED <<phase, found, status, pre_pwm>>

\* Faulty variant: the PWM of the loop's last but one pass.
TestStartedBefore ==
  /\ phase = "start"
  /\ cur_rpm \notin {None, 0} \/ target > PwmMax
  /\ start_pwm' = Max({pwm - 2, 0})
  /\ \E rpm \in IF cur_rpm = None THEN {0} ELSE {cur_rpm} : Put(start_pwm', rpm)
  /\ target' = start_pwm'
  /\ phase' = "min" /\ status' = status + 30
  /\ UNCHANGED <<hw, plant, cur_rpm, results, older, rpm_to_pwm, pre_pwm, first>>

\* The sum with 6 is stored and not used: the driver's PWM counts. An empty
\* optional is read when no PWM gave a result; its value is anything.
TestStarted ==
  /\ phase = "start"
  /\ cur_rpm \notin {None, 0} \/ target > PwmMax
  /\ start_pwm' = pwm
  /\ \E rpm \in IF cur_rpm = None THEN {0, 10 * PwmMax} ELSE {cur_rpm} : Put(pwm, rpm)
  /\ target' = pwm
  /\ phase' = "min" /\ status' = status + 30
  /\ UNCHANGED <<hw, plant, cur_rpm, results, older, rpm_to_pwm, pre_pwm, first>>

-----------------------------------------------------------------------------
(* test_running_min: from start_pwm down until the fan stands                 *)

Take(p, rpm) ==
  /\ results' = IF Len(results) = 3 THEN Append(Tail(results), <<p, rpm>>)
                                    ELSE Append(results, <<p, rpm>>)
  /\ older' = IF Len(results) = 3 THEN Over(Entry(results[1][1], results[1][2]), older) ELSE older

\* Faulty variant: the fan need not stand for the loop to end.
RunningMinTo0 ==
  /\ phase = "min"
  /\ \E o \in Stabilise(target) :
       /\ Drive(o) /\ cur_rpm' = o.rpm
       /\ IF o.rpm \in {None, 0} THEN UNCHANGED <<results, older>> ELSE Take(target, o.rpm)
       /\ target' = Minus2(target) /\ UNCHANGED phase
  /\ UNCHANGED <<pwm_to_rpm, start_pwm, rpm_to_pwm, status, pre_pwm, first>>

\* target_pwm >= PWM_MIN holds of every unsigned: only a fan that stands ends it.
RunningMin ==
  /\ phase = "min"
  /\ \E o \in Stabilise(target) :
       /\ Drive(o) /\ cur_rpm' = o.rpm
       /\ IF o.rpm \in {None, 0} THEN UNCHANGED <<results, older>> ELSE Take(target, o.rpm)
       /\ IF o.rpm = 0 THEN phase' = "keep" /\ UNCHANGED target
                       ELSE target' = Minus2(target) /\ UNCHANGED phase
  /\ UNCHANGED <<pwm_to_rpm, start_pwm, rpm_to_pwm, status, pre_pwm, first>>

\* All but the last two results are kept.
KeepRunning ==
  /\ phase = "keep"
  /\ pwm_to_rpm' =
       LET kept == Over(older, pwm_to_rpm) IN
       IF Len(results) = 3 THEN Over(Entry(results[1][1], results[1][2]), kept) ELSE kept
  /\ target' = Min({start_pwm + (IF start_pwm % 2 # 0 THEN 1 ELSE 2), PwmMax})
  /\ phase' = "mapping" /\ status' = status + 25
  /\ UNCHANGED <<hw, plant, cur_rpm, results, older, start_pwm, rpm_to_pwm, pre_pwm, first>>

TestMapping ==
  /\ phase = "mapping" /\ target <= PwmMax
  /\ \E o \in Stabilise(target) :
       /\ Drive(o)
       /\ IF o.rpm = None THEN UNCHANGED pwm_to_rpm ELSE Put(target, o.rpm)
  /\ target' = target + (IF target < PwmMax - 1 THEN 2 ELSE 1)
  /\ UNCHANGED <<phase, cur_rpm, results, older, start_pwm, rpm_to_pwm, status, pre_pwm, first>>

TestMapped ==
  /\ phase = "mapping" /\ target > PwmMax
  /\ phase' = "store" /\ status' = 100
  /\ UNCHANGED <<hw, plant, target, cur_rpm, found, pre_pwm, first>>

-----------------------------------------------------------------------------
\* The k-th lowest PWM.
Nth(m, k) == CHOOSE p \in DOMAIN m : Cardinality({q \in DOMAIN m : q <= p}) = k

\* Faulty variants: the speeds are taken as they were measured; the speed 0 is
\* left out of the speeds and not of the PWMs.
StoreUnsorted(m) == [rpm \in Range(m) |-> Max({p \in DOMAIN m : m[p] = rpm})]
StoreRunning(m) == [rpm \in Range(m) \ {0} |->
  Nth(m, Cardinality({p \in DOMAIN m : 0 < m[p] /\ m[p] <= rpm}))]

\* rpm_to_pwm_from: the sorted speeds are given the PWMs in their order; of equal
\* speeds the last one counts.
Store(m) == [rpm \in Range(m) |-> Nth(m, Cardinality({p \in DOMAIN m : m[p] <= rpm}))]

\* rpm_to_pwm is made, and the PWM of before the test is written.
StoreResults ==
  /\ phase = "store"
  /\ rpm_to_pwm' = Store(pwm_to_rpm)
  /\ \E o \in Settle(pre_pwm) : Drive(o)
  /\ phase' = "done"
  /\ UNCHANGED <<target, cur_rpm, pwm_to_rpm, results, older, start_pwm, status, pre_pwm, first>>

Next ==
  \/ TakeControl \/ TestStopped \/ TestStart \/ TestStarted
  \/ RunningMin \/ KeepRunning \/ TestMapping \/ TestMapped \/ StoreResults

Spec == Init /\ [][Next]_vars
\* The test's thread runs.
FairSpec == Spec /\ WF_vars(Next)

-----------------------------------------------------------------------------
CalibrationTypeOK ==
  /\ pwm \in 0 .. PwmMax /\ spinning \in BOOLEAN
  /\ target \in 0 .. UintMod - 1 /\ cur_rpm \in Nat \cup {None}
  /\ DOMAIN pwm_to_rpm \subseteq 0 .. PwmMax /\ DOMAIN older \subseteq 0 .. PwmMax
  /\ Len(results) <= 3 /\ start_pwm \in 0 .. PwmMax
  /\ status \in {-1, 0, 20, 50, 75, 100}

Stops(h) == h.stall > 0
Started == first # None

\* The speed only rises with the PWM, whatever was read off (Fan.cpp:446-460).
RpmIncreasesWithPwm == phase = "done" =>
  \A a, b \in DOMAIN rpm_to_pwm : a < b => rpm_to_pwm[a] < rpm_to_pwm[b]

\* "PWM at which the fan starts" (README.md:84): what a test that found a start
\* calls start_pwm does start a standing fan, though a write fails and the driver
\* alters PWMs (Fan.cpp:235-247). Not so when two fail: a fan that still turns, as
\* the two writes of 0 failed, is taken for started by the next PWM.
StartPwmStarts ==
  phase = "done" /\ Started /\ Stops(hw) => start_pwm >= hw.kick

\* The loop never lets a fan stop that should turn: at the PWM a test maps to a
\* speed the fan keeps running (Fan.cpp:289-294, 446-460).
MappedKeepsRunning == phase = "done" /\ Started =>
  \A rpm \in DOMAIN rpm_to_pwm : rpm > 0 => rpm_to_pwm[rpm] >= hw.stall

\* "Slowly drop PWM until fan is no longer running" (Fan.cpp:273): the test of a
\* fan ends, whatever fails or is misread, when the driver keeps every PWM and
\* the fan stops at one that is not the last to be tried before the PWM wraps.
Tame == hw.levels = 0 .. PwmMax /\ ~hw.percent /\ hw.stall > 2 * MaxFaults
TestEnds == Tame => <>(phase \in {"done", "failed"})
=============================================================================
