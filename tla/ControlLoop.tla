----------------------------- MODULE ControlLoop -----------------------------
(* One pass of a fan's control loop (Fan::update, src/fan/Fan.cpp): the speed *)
(* its curve asks for at the sensor's temperature, smoothing, the PWM of the  *)
(* closest known speed, and a kick when the fan stands. Rpm and Pwm are       *)
(* unsigned and wrap; the fan itself is outside the program.                  *)
EXTENDS Integers, FiniteSetsExt

CONSTANTS
  Curves,     \* temp_to_rpm: functions from temperatures to speeds
  Mappings,   \* rpm_to_pwm: functions from speeds to PWMs, increasing
  Temps,      \* temperatures the sensor may give
  StartPwm,   \* start_pwm
  Kick,       \* a standing fan starts from this PWM up
  Stall,      \* a running one stops below this
  Smoothings, \* values of smoothing_intervals
  Stickiness, \* top_stickiness_intervals
  Dynamic,    \* dynamic
  UintMod     \* 2^w for a w-bit unsigned

ASSUME LoopAssumption ==
  /\ Temps \subseteq Int /\ Smoothings \subseteq Nat /\ Stickiness \in Nat
  /\ UintMod \in Nat \ {0} /\ StartPwm \in Nat /\ Kick \in Nat /\ Stall \in Nat
  /\ Dynamic \in BOOLEAN

\* A curve and a mapping have a point; temperatures have no sign when they are
\* read (Fan.cpp:388), and no speed reaches half of the unsigned range.
ASSUME PointsAssumption ==
  /\ \A c \in Curves : /\ DOMAIN c # {} /\ DOMAIN c \subseteq 0 .. UintMod - 1
                       /\ \A t \in DOMAIN c : c[t] \in Nat /\ 2 * c[t] < UintMod
  /\ \A m \in Mappings : /\ DOMAIN m # {} /\ DOMAIN m \subseteq 0 .. UintMod - 1
                         /\ \A p \in DOMAIN m : m[p] \in Nat

\* What a fan's test is to find: start_pwm starts it, the mapping rises, a mapped
\* PWM keeps the fan running, and the PWM of its lowest speed, before which nobody
\* asks whether it stands, is 0 or starts it.
ASSUME TestedAssumption ==
  /\ StartPwm >= Kick /\ Kick >= Stall
  /\ \A m \in Mappings : \A p \in DOMAIN m :
       /\ \A q \in DOMAIN m : p <= q => m[p] <= m[q]
       /\ m[p] = 0 \/ m[p] >= Stall
       /\ (\A q \in DOMAIN m : p <= q) => m[p] = 0 \/ m[p] >= Kick

VARIABLES
  temp_to_rpm, rpm_to_pwm, smoothing_intervals,
  temp,       \* the sensor's average temperature
  just_started, targeted_rpm, top_stickiness_rem_intervals,  \* smoothing
  pwm,        \* what the fan was set to
  spinning,
  written,    \* the last pass's write of the PWM went through
  loop,       \* "off", "new" (enabled, no pass yet), "on", or "crashed"
  since       \* history variable: passes that asked for less since the speed was raised

config == <<temp_to_rpm, rpm_to_pwm, smoothing_intervals>>
smoothing == <<just_started, targeted_rpm, top_stickiness_rem_intervals>>
fan == <<pwm, spinning, written>>
vars == <<config, temp, smoothing, fan, loop, since>>

Init ==
  /\ temp_to_rpm \in Curves /\ rpm_to_pwm \in Mappings /\ smoothing_intervals \in Smoothings
  /\ temp \in Temps
  /\ just_started = TRUE /\ targeted_rpm = 0 /\ top_stickiness_rem_intervals = 0
  /\ pwm = 0 /\ spinning \in BOOLEAN /\ written = FALSE
  /\ loop = "off"
  /\ since = 0

Points == DOMAIN rpm_to_pwm
Uint(x) == x % UintMod
\* The conversion of an unsigned to int.
Int_(x) == IF 2 * x >= UintMod THEN x - UintMod ELSE x
\* C++ divides towards zero.
Quot(a, b) == IF a >= 0 THEN a \div b ELSE -((-a) \div b)

-----------------------------------------------------------------------------
(* The curve                                                                  *)

\* Faulty variant: the weight is the share of the floor.
InterpolateFrom(low, high, t) ==
  LET range == Uint(temp_to_rpm[high] - temp_to_rpm[low]) IN
  Uint(temp_to_rpm[low] + (t * range) \div low)

Interpolate(low, high, t) ==
  LET range == Uint(temp_to_rpm[high] - temp_to_rpm[low]) IN
  Uint(temp_to_rpm[low] + (t * range) \div (low + high))

\* The speed for a temperature (the doubles of the code are exact here).
Demand(t) ==
  LET ge == {x \in DOMAIN temp_to_rpm : x >= t}
      lt == {x \in DOMAIN temp_to_rpm : x < t}
  IN IF ge = {} THEN temp_to_rpm[Max(lt)]
     ELSE IF lt = {} \/ t \in ge THEN temp_to_rpm[Min(ge)]
     ELSE IF ~Dynamic THEN temp_to_rpm[Max(lt)]
     ELSE Interpolate(Max(lt), Min(ge), t)

-----------------------------------------------------------------------------
(* smooth_rpm: the speed to set, and what remains of it                       *)

Kept(started, target, sticky) ==
  [just_started |-> started, targeted |-> target, sticky |-> sticky]

Delta(rpm) == Int_(Uint(rpm - targeted_rpm))
Minor(rpm) == 10 * Delta(rpm) < Max(Points)

\* A decrease waits for the stickiness, a minor change is made at once, and of
\* any other a part.
SmoothBy(rpm, part, sticky, minor) ==
  IF Delta(rpm) = 0 THEN Kept(just_started, targeted_rpm, top_stickiness_rem_intervals)
  ELSE IF just_started THEN Kept(FALSE, rpm, Stickiness)
  ELSE IF Delta(rpm) < 0 /\ top_stickiness_rem_intervals > 0
       THEN Kept(FALSE, targeted_rpm, top_stickiness_rem_intervals - 1)
  ELSE IF minor THEN Kept(FALSE, rpm, sticky)
  ELSE Kept(FALSE, Uint(targeted_rpm + part), sticky)

Sticky(rpm) == IF Delta(rpm) < 0 THEN top_stickiness_rem_intervals ELSE Stickiness

\* Faulty variants: the stickiness is not reset; it is added to; the part is of
\* the whole speed; a minor change is smoothed too.
SmoothUnsticky(rpm) ==
  SmoothBy(rpm, Quot(Delta(rpm), smoothing_intervals), top_stickiness_rem_intervals, Minor(rpm))
SmoothStickier(rpm) ==
  SmoothBy(rpm, Quot(Delta(rpm), smoothing_intervals), top_stickiness_rem_intervals + Sticky(rpm), Minor(rpm))
SmoothWhole(rpm) == SmoothBy(rpm, Quot(rpm, smoothing_intervals), Sticky(rpm), Minor(rpm))
SmoothMinor(rpm) ==
  SmoothBy(rpm, Quot(Delta(rpm), smoothing_intervals), Sticky(rpm), Delta(rpm) < 0)

\* The remaining intervals are set anew whenever the target differs, so the
\* part is always that of smoothing_intervals.
Smooth(rpm) == SmoothBy(rpm, Quot(Delta(rpm), smoothing_intervals), Sticky(rpm), Minor(rpm))

\* The division by no intervals ends the process.
Divides0(rpm) ==
  /\ smoothing_intervals = 0 /\ ~just_started
  /\ Delta(rpm) # 0 /\ ~Minor(rpm)

-----------------------------------------------------------------------------
(* find_closest_pwm                                                           *)

ClosestPoint(rpm) ==
  LET ge == {p \in Points : p >= rpm}
      lt == {p \in Points : p < rpm}
  IN IF lt = {} THEN Min(ge)
     ELSE IF ge = {} THEN Max(lt)
     ELSE IF rpm - Max(lt) <= Min(ge) - rpm THEN Max(lt) ELSE Min(ge)

\* Faulty variant: a fan that stands is not started.
ClosestPwmOnly(rpm, running) == rpm_to_pwm[ClosestPoint(rpm)]

\* At or below the lowest speed the fan's state is not asked for.
ClosestPwm(rpm, running) ==
  LET p == rpm_to_pwm[ClosestPoint(rpm)]
      lowest == \A q \in Points : q >= rpm
  IN IF ~lowest /\ p > 0 /\ p < StartPwm /\ ~running THEN StartPwm ELSE p

\* The fan: it starts with a kick, coasts, and stops below its stall PWM.
Spin(p) ==
  IF p >= Kick THEN {TRUE} ELSE IF p >= Stall THEN {spinning} ELSE {spinning, FALSE}

-----------------------------------------------------------------------------
Count(rpm) ==
  LET delta == Delta(rpm) IN
  since' = IF delta > 0 THEN 0
           ELSE IF delta < 0 THEN Min({since + 1, Stickiness + 1}) ELSE since

\* A read of the speed that fails gives 0. A write that fails leaves the PWM.
Update ==
  /\ loop \in {"new", "on"}
  /\ LET rpm == Demand(temp)
         s == Smooth(rpm)
     IN /\ ~Divides0(rpm)
        /\ just_started' = s.just_started /\ targeted_rpm' = s.targeted
        /\ top_stickiness_rem_intervals' = s.sticky
        /\ written' \in BOOLEAN
        /\ \E running \in {spinning, FALSE} :
             pwm' = IF written' THEN ClosestPwm(s.targeted, running) ELSE pwm
        /\ Count(rpm)
  /\ spinning' \in Spin(pwm')
  /\ loop' = "on"
  /\ UNCHANGED <<config, temp>>

Crash ==
  /\ loop \in {"new", "on"} /\ Divides0(Demand(temp))
  /\ loop' = "crashed"
  /\ UNCHANGED <<config, temp, smoothing, fan, since>>

\* The temperature changes between two passes.
Heat(t) ==
  /\ t # temp /\ temp' = t
  /\ UNCHANGED <<config, smoothing, fan, loop, since>>

\* The fan's loop is ended and started anew; the Fan and its smoothing stay, the
\* hardware drives the fan as it likes.
Enable ==
  /\ loop = "off" /\ loop' = "new"
  /\ UNCHANGED <<config, temp, smoothing, fan, since>>
Disable ==
  /\ loop \in {"new", "on"} /\ loop' = "off"
  /\ spinning' \in BOOLEAN /\ written' = FALSE
  /\ UNCHANGED <<config, temp, smoothing, pwm, since>>

Next == Update \/ Crash \/ Enable \/ Disable \/ \E t \in Temps : Heat(t)

Spec == Init /\ [][Next]_vars

\* The loop runs while it is enabled.
FairSpec == Spec /\ WF_vars(Update \/ Crash)

-----------------------------------------------------------------------------
LoopTypeOK ==
  /\ temp \in Temps /\ just_started \in BOOLEAN
  /\ targeted_rpm \in 0 .. UintMod - 1
  /\ top_stickiness_rem_intervals \in 0 .. Stickiness
  /\ pwm \in {0, StartPwm} \cup {rpm_to_pwm[p] : p \in Points}
  /\ spinning \in BOOLEAN /\ written \in BOOLEAN
  /\ loop \in {"off", "new", "on", "crashed"}
  /\ since \in 0 .. Stickiness + 1

Rising == \A a, b \in DOMAIN temp_to_rpm : a <= b => temp_to_rpm[a] <= temp_to_rpm[b]

\* A driven fan runs: whatever it did before (stood, coasted, was driven by the
\* hardware, failed to report or to be written), after a pass that set a PWM
\* above 0 it turns (Fan.cpp:106).
DrivenSpins == written /\ pwm > 0 => spinning

\* Hotter is never slower, over all segments of a rising curve, their ends and
\* the steps of the mapping (Fan.cpp:23-51, 92-104).
HotterNotSlower == Rising =>
  \A a, b \in Temps : a <= b => ClosestPwm(Demand(a), TRUE) <= ClosestPwm(Demand(b), TRUE)

\* After the speed was raised it is not lowered before top_stickiness_intervals
\* passes asked for less (Fan.cpp:136-143).
RaisedStays == [][Rising /\ targeted_rpm' < targeted_rpm => since >= Stickiness]_vars

\* Smoothing never goes past what is asked for (Fan.cpp:145-155).
NoOvershoot ==
  [][Update /\ targeted_rpm' # targeted_rpm /\ Rising =>
       \/ targeted_rpm < targeted_rpm' /\ targeted_rpm' <= Demand(temp)
       \/ targeted_rpm' = Demand(temp)]_vars

\* A loop that stays at one temperature gets to the speed asked for.
ReachesDemand == \A t \in Temps :
  <>[](temp = t /\ loop \in {"new", "on"}) => <>(targeted_rpm = Demand(t))
=============================================================================
