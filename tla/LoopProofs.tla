----------------------------- MODULE LoopProofs -----------------------------
(* What the control loop is given and what it does with it: the average of a  *)
(* sensor's readings, for every set of temperatures and intervals and every   *)
(* width of an int; and the loop itself, for every curve, mapping, smoothing  *)
(* and width: the fan turns after each pass that set a PWM, a speed that was  *)
(* raised stays for the stickiness, smoothing does not go past what is asked  *)
(* for, and hotter is never slower.                                           *)
EXTENDS ControlLoop, Sensor, WellFoundedInduction, NaturalsInduction,
        SequenceTheorems, TLAPS

\* The speed is one of the unsigned ones, and below half of them while the curve
\* rises; the passes that asked for less and those that may still be refused
\* make the stickiness.
TypeInv ==
  /\ temp_to_rpm \in Curves /\ rpm_to_pwm \in Mappings /\ smoothing_intervals \in Smoothings
  /\ LoopTypeOK
TargetInv ==
  /\ just_started => targeted_rpm = 0
  /\ Rising => 2 * targeted_rpm < UintMod
StickyInv == ~just_started => since + top_stickiness_rem_intervals >= Stickiness
LInv == TypeInv /\ TargetInv /\ StickyInv

-----------------------------------------------------------------------------
(* Numbers                                                                    *)

LEMMA MinExists ==
  ASSUME NEW S, S # {}, S \subseteq Nat
  PROVE  \E m \in S : \A n \in S : m <= n
<1>1. PICK m \in S : \A n \in S : ~(<<n, m>> \in OpToRel(<, Nat))
  BY WFMin, NatLessThanWellFounded, Zenon
<1>2. \A n \in S : ~(n < m)
  BY <1>1, Zenon DEF OpToRel
<1> QED
  BY <1>2

LEMMA MaxExists ==
  ASSUME NEW S, S # {}, NEW b \in Nat, S \subseteq 0 .. b
  PROVE  \E m \in S : \A n \in S : n <= m
<1> DEFINE T == {b - n : n \in S}
<1>1. T # {} /\ T \subseteq Nat
  <2>1. \A n \in S : b - n \in Nat
    OBVIOUS
  <2> QED
    BY <2>1
<1>2. PICK m \in T : \A n \in T : m <= n
  BY <1>1, MinExists
<1>3. PICK k \in S : m = b - k
  OBVIOUS
<1>4. \A n \in S : b - k <= b - n
  BY <1>2, <1>3
<1> QED
  BY <1>4

LEMMA MinIs ==
  ASSUME NEW S, S # {}, S \subseteq Nat
  PROVE  Min(S) \in S /\ \A n \in S : Min(S) <= n
  BY MinExists DEF Min

LEMMA MaxIs ==
  ASSUME NEW S, S # {}, NEW b \in Nat, S \subseteq 0 .. b
  PROVE  Max(S) \in S /\ \A n \in S : n <= Max(S)
  BY MaxExists DEF Max

LEMMA UintIs ==
  ASSUME NEW x \in Int
  PROVE  /\ Uint(x) \in 0 .. UintMod - 1
         /\ 0 <= x /\ x < UintMod => Uint(x) = x
         /\ x < 0 /\ -UintMod <= x => Uint(x) = x + UintMod
  BY LoopAssumption DEF Uint

LEMMA DivBound ==
  ASSUME NEW a \in Nat, NEW n \in Nat \ {0}
  PROVE  a \div n \in 0 .. a
  OBVIOUS

\* A part of a rise, by a weight that is at most 1.
LEMMA WeightBound ==
  ASSUME NEW a \in Nat, NEW t \in Nat, NEW n \in Nat \ {0}, t <= n
  PROVE  (t * a) \div n \in 0 .. a
<1>1. t * a <= n * a /\ t * a \in Nat
  OBVIOUS
<1> DEFINE q == (t * a) \div n
<1>2. q \in Nat /\ q * n <= t * a
  BY <1>1
<1>3. q <= a
  <2> SUFFICES ASSUME q >= a + 1 PROVE FALSE
    BY <1>2
  <2>1. q * n >= (a + 1) * n
    BY <1>2
  <2> QED
    BY <1>1, <1>2, <2>1
<1> QED
  BY <1>2, <1>3
-----------------------------------------------------------------------------
(* The speed that the curve asks for                                          *)

LEMMA Curve ==
  ASSUME TypeInv
  PROVE  /\ DOMAIN temp_to_rpm # {} /\ DOMAIN temp_to_rpm \subseteq 0 .. UintMod - 1
         /\ \A t \in DOMAIN temp_to_rpm : temp_to_rpm[t] \in Nat /\ 2 * temp_to_rpm[t] < UintMod
  BY PointsAssumption DEF TypeInv

LEMMA DemandBound ==
  ASSUME TypeInv, NEW t \in Temps
  PROVE  /\ Demand(t) \in 0 .. UintMod - 1
         /\ Rising => 2 * Demand(t) < UintMod
<1> DEFINE ge == {x \in DOMAIN temp_to_rpm : x >= t}
           lt == {x \in DOMAIN temp_to_rpm : x < t}
<1>1. t \in Int /\ UintMod \in Nat \ {0} /\ UintMod - 1 \in Nat
  BY LoopAssumption
<1>2. ge \cup lt = DOMAIN temp_to_rpm /\ ge \subseteq Nat /\ lt \subseteq 0 .. UintMod - 1
  <2>1. \A x \in DOMAIN temp_to_rpm : x \in 0 .. UintMod - 1
    BY Curve
  <2>2. \A x \in 0 .. UintMod - 1 : x \in Nat /\ (x >= t \/ x < t)
    BY <1>1
  <2> QED
    BY <2>1, <2>2
<1>3. ge # {} => Min(ge) \in DOMAIN temp_to_rpm /\ Min(ge) \in ge
  BY <1>2, MinIs
<1>4. lt # {} => Max(lt) \in DOMAIN temp_to_rpm /\ Max(lt) \in lt
  BY <1>1, <1>2, MaxIs
<1>5. \A x \in DOMAIN temp_to_rpm : temp_to_rpm[x] \in 0 .. UintMod - 1 /\ 2 * temp_to_rpm[x] < UintMod
  <2> TAKE x \in DOMAIN temp_to_rpm
  <2>1. temp_to_rpm[x] \in Nat /\ 2 * temp_to_rpm[x] < UintMod
    BY Curve
  <2> QED
    BY <1>1, <2>1
<1>6. CASE ge = {}
  <2>1. lt # {} /\ Demand(t) = temp_to_rpm[Max(lt)]
    BY <1>2, <1>6, Curve DEF Demand
  <2> QED
    BY <1>4, <1>5, <2>1
<1>7. CASE ge # {} /\ (lt = {} \/ t \in ge)
  BY <1>3, <1>5, <1>7 DEF Demand
<1>8. CASE ge # {} /\ lt # {} /\ t \notin ge /\ ~Dynamic
  BY <1>4, <1>5, <1>8 DEF Demand
<1>9. CASE ge # {} /\ lt # {} /\ t \notin ge /\ Dynamic
  <2> DEFINE low == Max(lt)
             high == Min(ge)
             range == Uint(temp_to_rpm[high] - temp_to_rpm[low])
  <2>1. Demand(t) = Interpolate(low, high, t)
    BY <1>9 DEF Demand
  <2>2. /\ low \in DOMAIN temp_to_rpm /\ high \in DOMAIN temp_to_rpm
        /\ low \in Nat /\ high \in Nat /\ low < t /\ t <= high
    BY <1>1, <1>2, <1>3, <1>4, <1>9
  <2> HIDE DEF low, high
  <2>3. temp_to_rpm[low] \in Nat /\ temp_to_rpm[high] \in Nat
        /\ 2 * temp_to_rpm[low] < UintMod /\ 2 * temp_to_rpm[high] < UintMod
    BY <2>2, <1>5
  <2>4. range \in Nat
    BY <1>1, <2>3, UintIs
  <2>5. (t * range) \div (low + high) \in 0 .. range
    BY <2>2, <2>4, <1>1, WeightBound
  <2>6. Demand(t) = Uint(temp_to_rpm[low] + (t * range) \div (low + high))
    BY <2>1 DEF Interpolate
  <2>7. Demand(t) \in 0 .. UintMod - 1
    BY <2>3, <2>4, <2>5, <2>6, UintIs
  <2>8. ASSUME Rising PROVE 2 * Demand(t) < UintMod
    <3>1. temp_to_rpm[low] <= temp_to_rpm[high]
      <4>1. low <= high
        BY <1>1, <2>2
      <4> QED
        BY <2>2, <2>8, <4>1 DEF Rising
    <3>2. range = temp_to_rpm[high] - temp_to_rpm[low]
      BY <1>1, <2>3, <3>1, UintIs
    <3> DEFINE part == (t * range) \div (low + high)
    <3>3. part \in Nat /\ part <= temp_to_rpm[high] - temp_to_rpm[low]
      BY <2>3, <2>5, <3>1, <3>2
    <3> HIDE DEF part
    <3>4. temp_to_rpm[low] + part \in Nat /\ temp_to_rpm[low] + part <= temp_to_rpm[high]
      BY <2>3, <3>3
    <3>5. Uint(temp_to_rpm[low] + part) = temp_to_rpm[low] + part
      BY <1>1, <2>3, <3>4, UintIs
    <3> QED
      BY <1>1, <2>3, <2>6, <3>4, <3>5 DEF part
  <2> QED
    BY <2>7, <2>8
<1> QED
  BY <1>6, <1>7, <1>8, <1>9

-----------------------------------------------------------------------------
(* smooth_rpm                                                                 *)

LEMMA DeltaIs ==
  ASSUME NEW rpm \in 0 .. UintMod - 1, targeted_rpm \in 0 .. UintMod - 1
  PROVE  /\ Delta(rpm) \in Int
         /\ 2 * rpm < UintMod /\ 2 * targeted_rpm < UintMod => Delta(rpm) = rpm - targeted_rpm
<1>1. UintMod \in Nat \ {0} /\ rpm - targeted_rpm \in Int
  BY LoopAssumption
<1>2. Uint(rpm - targeted_rpm) \in 0 .. UintMod - 1
  BY <1>1, UintIs
<1>3. Delta(rpm) \in Int
  BY <1>1, <1>2 DEF Delta, Int_
<1>4. ASSUME 2 * rpm < UintMod, 2 * targeted_rpm < UintMod
      PROVE  Delta(rpm) = rpm - targeted_rpm
  <2>1. CASE rpm >= targeted_rpm
    <3>1. Uint(rpm - targeted_rpm) = rpm - targeted_rpm
      BY <1>1, <2>1, UintIs
    <3> QED
      BY <1>1, <1>4, <2>1, <3>1 DEF Delta, Int_
  <2>2. CASE rpm < targeted_rpm
    <3>1. Uint(rpm - targeted_rpm) = rpm - targeted_rpm + UintMod
      BY <1>1, <2>2, UintIs
    <3> QED
      BY <1>1, <1>4, <2>2, <3>1 DEF Delta, Int_
  <2> QED
    BY <2>1, <2>2
<1> QED
  BY <1>3, <1>4

\* What a pass may do to the speed, if it does not divide by 0.
SmoothCases(rpm, s) ==
  LET d == Delta(rpm) IN
  \/ d = 0 /\ s = Kept(just_started, targeted_rpm, top_stickiness_rem_intervals)
  \/ d # 0 /\ just_started /\ s = Kept(FALSE, rpm, Stickiness)
  \/ /\ d < 0 /\ ~just_started /\ top_stickiness_rem_intervals > 0
     /\ s = Kept(FALSE, targeted_rpm, top_stickiness_rem_intervals - 1)
  \/ /\ d < 0 /\ ~just_started /\ ~(top_stickiness_rem_intervals > 0)
     /\ s = Kept(FALSE, rpm, top_stickiness_rem_intervals)
  \/ d > 0 /\ ~just_started /\ s = Kept(FALSE, rpm, Stickiness)
  \/ d > 0 /\ ~just_started /\
       \E part \in 0 .. d : s = Kept(FALSE, Uint(targeted_rpm + part), Stickiness)

LEMMA SmoothIs ==
  ASSUME TypeInv, NEW rpm \in 0 .. UintMod - 1, ~Divides0(rpm)
  PROVE  SmoothCases(rpm, Smooth(rpm))
<1> DEFINE d == Delta(rpm)
<1>1. d \in Int
  BY DeltaIs DEF TypeInv, LoopTypeOK
<1>2. Max(Points) \in Nat
  <2>1. Points # {} /\ Points \subseteq 0 .. UintMod - 1 /\ UintMod - 1 \in Nat
    BY PointsAssumption, LoopAssumption DEF TypeInv, Points
  <2>2. Max(Points) \in Points
    BY <2>1, MaxIs
  <2>3. Max(Points) \in 0 .. UintMod - 1
    BY <2>1, <2>2
  <2> QED
    BY <2>1, <2>3
<1>3. d < 0 => Minor(rpm)
  BY <1>1, <1>2 DEF Minor
<1>4. CASE d = 0
  BY <1>4 DEF Smooth, SmoothBy, SmoothCases
<1>5. CASE d # 0 /\ just_started
  BY <1>5 DEF Smooth, SmoothBy, SmoothCases
<1>6. CASE d < 0 /\ ~just_started
  BY <1>3, <1>6 DEF Smooth, SmoothBy, SmoothCases, Sticky
<1>7. CASE d > 0 /\ ~just_started /\ Minor(rpm)
  BY <1>1, <1>7 DEF Smooth, SmoothBy, SmoothCases, Sticky
<1>8. CASE d > 0 /\ ~just_started /\ ~Minor(rpm)
  <2> DEFINE part == Quot(d, smoothing_intervals)
  <2>1. smoothing_intervals \in Nat \ {0}
    BY <1>8, LoopAssumption DEF Divides0, TypeInv
  <2>2. part \in 0 .. d
    BY <1>1, <1>8, <2>1, DivBound DEF Quot
  <2>3. Delta(rpm) # 0 /\ ~(Delta(rpm) < 0) /\ Sticky(rpm) = Stickiness
    BY <1>1, <1>8 DEF Sticky
  <2>4. Smooth(rpm) = Kept(FALSE, Uint(targeted_rpm + part), Stickiness)
    BY <1>8, <2>3 DEF Smooth, SmoothBy
  <2> QED
    BY <1>8, <2>2, <2>4 DEF SmoothCases
<1> QED
  BY <1>1, <1>4, <1>5, <1>6, <1>7, <1>8
-----------------------------------------------------------------------------
(* A pass                                                                     *)

LEMMA DemandNow ==
  ASSUME TypeInv
  PROVE  Demand(temp) \in 0 .. UintMod - 1 /\ (Rising => 2 * Demand(temp) < UintMod)
  BY DemandBound DEF TypeInv, LoopTypeOK

LEMMA PassIs ==
  ASSUME TypeInv, Update
  PROVE  /\ SmoothCases(Demand(temp), [just_started |-> just_started',
              targeted |-> targeted_rpm', sticky |-> top_stickiness_rem_intervals'])
         /\ Delta(Demand(temp)) \in Int
<1> DEFINE s == Smooth(Demand(temp))
<1>1. ~Divides0(Demand(temp)) /\ SmoothCases(Demand(temp), s)
  BY DemandNow, SmoothIs DEF Update
<1>2. \E a, b, c : s = Kept(a, b, c)
  BY <1>1 DEF SmoothCases
<1>3. just_started' = s.just_started /\ targeted_rpm' = s.targeted
      /\ top_stickiness_rem_intervals' = s.sticky
  BY DEF Update
<1>4. s = [just_started |-> just_started', targeted |-> targeted_rpm',
           sticky |-> top_stickiness_rem_intervals']
  BY <1>2, <1>3 DEF Kept
<1> QED
  BY <1>1, <1>4, DemandNow, DeltaIs DEF TypeInv, LoopTypeOK

LEMMA CountIs ==
  ASSUME TypeInv, Update
  PROVE  LET d == Delta(Demand(temp)) IN
         /\ d > 0 => since' = 0
         /\ d = 0 => since' = since
         /\ d < 0 => since' = IF since + 1 <= Stickiness + 1 THEN since + 1 ELSE Stickiness + 1
<1>1. Delta(Demand(temp)) \in Int /\ since \in Nat /\ Stickiness \in Nat
  BY PassIs, LoopAssumption DEF TypeInv, LoopTypeOK
<1>2. ASSUME NEW a \in Nat, NEW b \in Nat PROVE Min({a, b}) = IF a <= b THEN a ELSE b
  <2>1. Min({a, b}) \in {a, b} /\ \A n \in {a, b} : Min({a, b}) <= n
    BY MinIs
  <2> QED
    BY <2>1
<1>3. Min({since + 1, Stickiness + 1})
      = IF since + 1 <= Stickiness + 1 THEN since + 1 ELSE Stickiness + 1
  BY <1>1, <1>2
<1> QED
  BY <1>1, <1>3 DEF Update, Count

\* The speed, the stickiness and what remains of it after a pass.
LEMMA PassSmooths ==
  ASSUME LInv, Update
  PROVE  /\ targeted_rpm' \in 0 .. UintMod - 1 /\ just_started' \in BOOLEAN
         /\ top_stickiness_rem_intervals' \in 0 .. Stickiness
         /\ since' \in 0 .. Stickiness + 1
         /\ TargetInv' /\ StickyInv'
<1> DEFINE rpm == Demand(temp)
           d == Delta(rpm)
<1>1. /\ targeted_rpm \in 0 .. UintMod - 1 /\ top_stickiness_rem_intervals \in 0 .. Stickiness
      /\ since \in 0 .. Stickiness + 1 /\ just_started \in BOOLEAN
      /\ Stickiness \in Nat /\ UintMod \in Nat \ {0}
  BY LoopAssumption DEF LInv, TypeInv, LoopTypeOK
<1>2. rpm \in 0 .. UintMod - 1 /\ (Rising => 2 * rpm < UintMod)
  BY DemandNow DEF LInv
<1>3. d \in Int /\ (2 * rpm < UintMod /\ 2 * targeted_rpm < UintMod => d = rpm - targeted_rpm)
  BY <1>1, <1>2, DeltaIs
<1>4. Rising' = Rising
  BY DEF Update, Rising, config
<1>5. SmoothCases(rpm, [just_started |-> just_started', targeted |-> targeted_rpm',
                        sticky |-> top_stickiness_rem_intervals'])
  BY PassIs DEF LInv
<1>6. /\ d > 0 => since' = 0
      /\ d = 0 => since' = since
      /\ d < 0 => since' = IF since + 1 <= Stickiness + 1 THEN since + 1 ELSE Stickiness + 1
  BY CountIs DEF LInv
<1> HIDE DEF rpm, d
<1>7. /\ d = 0 /\ UNCHANGED smoothing
      \/ /\ d # 0 /\ just_started /\ just_started' = FALSE
         /\ targeted_rpm' = rpm /\ top_stickiness_rem_intervals' = Stickiness
      \/ /\ d < 0 /\ ~just_started /\ just_started' = FALSE /\ top_stickiness_rem_intervals > 0
         /\ targeted_rpm' = targeted_rpm
         /\ top_stickiness_rem_intervals' = top_stickiness_rem_intervals - 1
      \/ /\ d < 0 /\ ~just_started /\ just_started' = FALSE /\ ~(top_stickiness_rem_intervals > 0)
         /\ targeted_rpm' = rpm
         /\ top_stickiness_rem_intervals' = top_stickiness_rem_intervals
      \/ /\ d > 0 /\ ~just_started /\ just_started' = FALSE
         /\ targeted_rpm' = rpm \/ \E part \in 0 .. d : targeted_rpm' = Uint(targeted_rpm + part)
         /\ top_stickiness_rem_intervals' = Stickiness
  BY <1>5 DEF SmoothCases, Kept, d, smoothing
<1>8. StickyInv'
  BY <1>1, <1>3, <1>6, <1>7 DEF LInv, StickyInv, smoothing
<1>9. targeted_rpm' \in 0 .. UintMod - 1 /\ (Rising' => 2 * targeted_rpm' < UintMod)
  <2>1. CASE targeted_rpm' \in {rpm, targeted_rpm}
    BY <1>1, <1>2, <1>4, <2>1 DEF LInv, TargetInv
  <2>2. ASSUME d > 0, NEW part \in 0 .. d, targeted_rpm' = Uint(targeted_rpm + part)
        PROVE  targeted_rpm' \in 0 .. UintMod - 1 /\ (Rising' => 2 * targeted_rpm' < UintMod)
    <3>1. targeted_rpm + part \in Int
      BY <1>1, <1>3, <2>2
    <3>2. targeted_rpm' \in 0 .. UintMod - 1
      BY <2>2, <3>1, UintIs
    <3>3. ASSUME Rising PROVE 2 * targeted_rpm' < UintMod
      <4>1. d = rpm - targeted_rpm /\ 2 * rpm < UintMod
        BY <1>2, <1>3, <3>3 DEF LInv, TargetInv
      <4>2. targeted_rpm + part \in Nat /\ targeted_rpm + part <= rpm
        BY <1>1, <1>2, <4>1
      <4>3. targeted_rpm' = targeted_rpm + part
        <5>1. targeted_rpm + part < UintMod /\ targeted_rpm + part \in Int
          BY <1>1, <1>2, <4>2
        <5> QED
          BY <2>2, <4>2, <5>1, UintIs
      <4> QED
        BY <1>1, <1>2, <4>1, <4>2, <4>3
    <3> QED
      BY <1>4, <3>2, <3>3
  <2> QED
    BY <1>7, <2>1, <2>2 DEF smoothing
<1>10. /\ just_started' \in BOOLEAN /\ top_stickiness_rem_intervals' \in 0 .. Stickiness
       /\ just_started' => targeted_rpm' = 0
  <2>1. CASE UNCHANGED smoothing
    BY <1>1, <2>1 DEF smoothing, LInv, TargetInv
  <2>2. CASE just_started' = FALSE
    <3>1. top_stickiness_rem_intervals' \in 0 .. Stickiness
      BY <1>1, <1>7 DEF smoothing
    <3> QED
      BY <2>2, <3>1
  <2> QED
    BY <1>7, <2>1, <2>2
<1>11. since' \in 0 .. Stickiness + 1
  BY <1>1, <1>3, <1>6
<1> QED
  BY <1>8, <1>9, <1>10, <1>11 DEF TargetInv

\* Where a pass takes the speed while the curve rises.
LEMMA PassMoves ==
  ASSUME LInv, Update, Rising
  PROVE  /\ since >= Stickiness \/ targeted_rpm' >= targeted_rpm
         /\ \/ targeted_rpm' = targeted_rpm \/ targeted_rpm' = Demand(temp)
            \/ targeted_rpm < targeted_rpm' /\ targeted_rpm' <= Demand(temp)
<1> DEFINE rpm == Demand(temp)
           d == Delta(rpm)
<1>1. /\ targeted_rpm \in 0 .. UintMod - 1 /\ top_stickiness_rem_intervals \in 0 .. Stickiness
      /\ since \in 0 .. Stickiness + 1 /\ Stickiness \in Nat /\ UintMod \in Nat \ {0}
      /\ just_started => targeted_rpm = 0
      /\ ~just_started => since + top_stickiness_rem_intervals >= Stickiness
  BY LoopAssumption DEF LInv, TypeInv, LoopTypeOK, TargetInv, StickyInv
<1>2. rpm \in 0 .. UintMod - 1 /\ 2 * rpm < UintMod
  BY DemandNow DEF LInv
<1>3. d \in Int /\ d = rpm - targeted_rpm
  BY <1>1, <1>2, DeltaIs DEF LInv, TargetInv
<1>4. SmoothCases(rpm, [just_started |-> just_started', targeted |-> targeted_rpm',
                        sticky |-> top_stickiness_rem_intervals'])
  BY PassIs DEF LInv
<1> HIDE DEF rpm, d
<1>5. \/ targeted_rpm' = targeted_rpm
      \/ targeted_rpm' = rpm /\ (d > 0 \/ just_started \/ ~(top_stickiness_rem_intervals > 0))
      \/ d > 0 /\ \E part \in 0 .. d : targeted_rpm' = Uint(targeted_rpm + part)
  BY <1>4 DEF SmoothCases, Kept, d
<1>6. CASE targeted_rpm' = targeted_rpm
  BY <1>1, <1>6
<1>7. CASE targeted_rpm' = rpm /\ (d > 0 \/ just_started \/ ~(top_stickiness_rem_intervals > 0))
  <2>1. since >= Stickiness \/ rpm >= targeted_rpm
    BY <1>1, <1>2, <1>3, <1>7
  <2> QED
    BY <1>7, <2>1 DEF rpm
<1>8. ASSUME d > 0, NEW part \in 0 .. d, targeted_rpm' = Uint(targeted_rpm + part)
      PROVE  targeted_rpm' >= targeted_rpm /\ targeted_rpm' <= rpm
  <2>1. targeted_rpm + part \in Nat /\ targeted_rpm + part <= rpm /\ targeted_rpm + part < UintMod
    BY <1>1, <1>2, <1>3, <1>8
  <2>2. targeted_rpm' = targeted_rpm + part
    BY <1>8, <2>1, UintIs
  <2> QED
    BY <1>1, <1>2, <1>3, <1>8, <2>1, <2>2
<1>9. CASE d > 0 /\ \E part \in 0 .. d : targeted_rpm' = Uint(targeted_rpm + part)
  <2>1. targeted_rpm' >= targeted_rpm /\ targeted_rpm' <= rpm
    BY <1>8, <1>9
  <2>2. targeted_rpm' \in Nat
    BY PassSmooths, <1>1
  <2> QED
    BY <1>1, <2>1, <2>2 DEF rpm
<1> QED
  BY <1>5, <1>6, <1>7, <1>9

-----------------------------------------------------------------------------
(* find_closest_pwm                                                           *)

LEMMA MappingIs ==
  ASSUME TypeInv
  PROVE  /\ Points # {} /\ Points \subseteq Nat /\ UintMod - 1 \in Nat
         /\ Points \subseteq 0 .. UintMod - 1
         /\ \A p \in Points : rpm_to_pwm[p] \in Nat /\ (rpm_to_pwm[p] = 0 \/ rpm_to_pwm[p] >= Stall)
         /\ \A p \in Points : (\A q \in Points : p <= q) => rpm_to_pwm[p] = 0 \/ rpm_to_pwm[p] >= Kick
<1>1. rpm_to_pwm \in Mappings /\ Points = DOMAIN rpm_to_pwm
  BY DEF TypeInv, Points
<1>2. Points # {} /\ Points \subseteq 0 .. UintMod - 1 /\ \A p \in Points : rpm_to_pwm[p] \in Nat
  BY <1>1, PointsAssumption
<1>3. Points \subseteq Nat /\ UintMod - 1 \in Nat
  BY <1>2, LoopAssumption
<1> QED
  BY <1>1, <1>2, <1>3, TestedAssumption

LEMMA ClosestIs ==
  ASSUME TypeInv, NEW rpm \in Nat
  PROVE  /\ ClosestPoint(rpm) \in Points
         /\ (\A q \in Points : q >= rpm) => \A q \in Points : ClosestPoint(rpm) <= q
<1> DEFINE ge == {p \in Points : p >= rpm}
           lt == {p \in Points : p < rpm}
<1>1. Points = ge \cup lt /\ ge \subseteq Nat /\ lt \subseteq 0 .. UintMod - 1
  <2>1. \A p \in Points : p \in Nat /\ p \in 0 .. UintMod - 1 /\ (p >= rpm \/ p < rpm)
    BY MappingIs
  <2> QED
    BY <2>1
<1>2. ge # {} => Min(ge) \in ge /\ \A q \in ge : Min(ge) <= q
  BY <1>1, MinIs
<1>3. lt # {} => Max(lt) \in lt
  BY <1>1, MappingIs, MaxIs
<1>4. ge # {} \/ lt # {}
  BY <1>1, MappingIs
<1>5. (\A q \in Points : q >= rpm) => lt = {} /\ ge = Points
  BY <1>1
<1>6. ClosestPoint(rpm) = IF lt = {} THEN Min(ge)
                          ELSE IF ge = {} THEN Max(lt)
                          ELSE IF rpm - Max(lt) <= Min(ge) - rpm THEN Max(lt) ELSE Min(ge)
  BY DEF ClosestPoint
<1> HIDE DEF ge, lt
<1>7. ClosestPoint(rpm) \in ge \cup lt
  BY <1>2, <1>3, <1>4, <1>6
<1>8. lt = {} => ClosestPoint(rpm) = Min(ge)
  BY <1>6
<1> QED
  BY <1>1, <1>2, <1>4, <1>5, <1>7, <1>8

Turns == written /\ pwm > 0 => spinning

LEMMA PassTurns ==
  ASSUME LInv, Update, targeted_rpm' \in Nat
  PROVE  /\ pwm' \in {0, StartPwm} \cup {rpm_to_pwm[p] : p \in Points}
         /\ spinning' \in BOOLEAN /\ written' \in BOOLEAN
         /\ Turns'
<1>1. /\ written' \in BOOLEAN /\ spinning' \in Spin(pwm')
      /\ \E running \in {spinning, FALSE} :
           pwm' = IF written' THEN ClosestPwm(targeted_rpm', running) ELSE pwm
  <2>1. \E running \in {spinning, FALSE} :
          pwm' = IF written' THEN ClosestPwm(Smooth(Demand(temp)).targeted, running) ELSE pwm
    BY DEF Update
  <2>2. targeted_rpm' = Smooth(Demand(temp)).targeted
    BY DEF Update
  <2> QED
    BY <2>1, <2>2 DEF Update
<1>2. /\ spinning \in BOOLEAN /\ StartPwm \in Nat /\ Kick \in Nat /\ Stall \in Nat
      /\ StartPwm >= Kick /\ Kick >= Stall
      /\ pwm \in {0, StartPwm} \cup {rpm_to_pwm[p] : p \in Points}
  BY LoopAssumption, TestedAssumption DEF LInv, TypeInv, LoopTypeOK
<1>3. spinning' \in BOOLEAN
  BY <1>1, <1>2 DEF Spin
<1>4. CASE ~written'
  BY <1>1, <1>2, <1>3, <1>4 DEF Turns
<1>5. CASE written'
  <2> DEFINE c == ClosestPoint(targeted_rpm')
             p == rpm_to_pwm[c]
             lowest == \A q \in Points : q >= targeted_rpm'
  <2>1. c \in Points /\ (lowest => \A q \in Points : c <= q)
    BY ClosestIs DEF LInv
  <2>2. p \in Nat /\ (p = 0 \/ p >= Stall) /\ (lowest => p = 0 \/ p >= Kick)
    BY <2>1, MappingIs DEF LInv
  <2>3. PICK running \in {spinning, FALSE} :
          pwm' = IF ~lowest /\ p > 0 /\ p < StartPwm /\ ~running THEN StartPwm ELSE p
    BY <1>1, <1>5 DEF ClosestPwm
  <2>4. pwm' \in {0, StartPwm} \cup {rpm_to_pwm[q] : q \in Points}
    BY <2>1, <2>3
  <2> HIDE DEF p, lowest, c
  <2>5. Turns'
    <3>1. CASE pwm' = 0
      BY <3>1 DEF Turns
    <3>2. CASE pwm' \in Nat /\ pwm' >= Kick
      BY <1>1, <3>2 DEF Spin, Turns
    <3>3. CASE spinning /\ pwm' \in Nat /\ pwm' >= Stall
      BY <1>1, <3>3 DEF Spin, Turns
    <3>4. pwm' \in Nat /\ (pwm' = 0 \/ pwm' >= Kick \/ (spinning /\ pwm' >= Stall))
      <4>1. running \in BOOLEAN /\ (running => spinning)
        <5>1. running = spinning \/ running = FALSE
          OBVIOUS
        <5>2. CASE spinning = TRUE
          BY <5>1, <5>2
        <5>3. CASE spinning = FALSE
          BY <5>1, <5>3
        <5> QED
          BY <1>2, <5>2, <5>3
      <4>2. pwm' = StartPwm \/ (pwm' = p /\ (lowest \/ p = 0 \/ p >= StartPwm \/ running))
        BY <1>2, <2>2, <2>3, <4>1
      <4> QED
        BY <1>2, <2>2, <4>1, <4>2
    <3> QED
      BY <3>1, <3>2, <3>3, <3>4
  <2> QED
    BY <1>1, <1>3, <2>4, <2>5
<1> QED
  BY <1>1, <1>4, <1>5

-----------------------------------------------------------------------------
(* Hotter is never slower                                                     *)

LEMMA DivRises ==
  ASSUME NEW a \in Nat, NEW b \in Nat, NEW n \in Nat \ {0}, a <= b
  PROVE  a \div n <= b \div n
<1> DEFINE qa == a \div n
           qb == b \div n
<1>1. /\ qa \in Nat /\ qb \in Nat
      /\ qa * n <= a /\ b < (qb + 1) * n
  OBVIOUS
<1> HIDE DEF qa, qb
<1>2. qa <= qb
  <2> SUFFICES ASSUME qa >= qb + 1 PROVE FALSE
    BY <1>1
  <2>1. qa * n >= (qb + 1) * n
    BY <1>1
  <2> QED
    BY <1>1, <2>1
<1> QED
  BY <1>2 DEF qa, qb

\* Between two points a rising curve gives a part of the rise, which grows with
\* the temperature.
LEMMA InterpolateIs ==
  ASSUME TypeInv, Rising, NEW low \in DOMAIN temp_to_rpm, NEW high \in DOMAIN temp_to_rpm,
         NEW t \in Int, low < t, t <= high
  PROVE  /\ Interpolate(low, high, t) =
              temp_to_rpm[low] + (t * (temp_to_rpm[high] - temp_to_rpm[low])) \div (low + high)
         /\ temp_to_rpm[low] <= Interpolate(low, high, t)
         /\ Interpolate(low, high, t) <= temp_to_rpm[high]
         /\ low \in Nat /\ high \in Nat /\ t \in Nat /\ low + high \in Nat \ {0}
         /\ temp_to_rpm[high] - temp_to_rpm[low] \in Nat /\ temp_to_rpm[low] \in Nat
<1> DEFINE range == temp_to_rpm[high] - temp_to_rpm[low]
           part == (t * range) \div (low + high)
<1>1. low \in Nat /\ high \in Nat /\ UintMod \in Nat \ {0}
  BY Curve, LoopAssumption
<1>2. t \in Nat /\ low + high \in Nat \ {0} /\ t <= low + high /\ low <= high
  BY <1>1
<1>3. /\ temp_to_rpm[low] \in Nat /\ temp_to_rpm[high] \in Nat
      /\ 2 * temp_to_rpm[high] < UintMod /\ temp_to_rpm[low] <= temp_to_rpm[high]
  BY <1>2, Curve DEF Rising
<1>4. range \in Nat /\ range < UintMod
  BY <1>1, <1>3
<1>5. Uint(range) = range
  BY <1>4, UintIs
<1>6. part \in 0 .. range
  BY <1>2, <1>4, WeightBound
<1>7. Interpolate(low, high, t) = Uint(temp_to_rpm[low] + part)
  BY <1>5 DEF Interpolate
<1> HIDE DEF part
<1>8. temp_to_rpm[low] + part \in Nat /\ temp_to_rpm[low] + part <= temp_to_rpm[high]
  BY <1>3, <1>6
<1>9. Interpolate(low, high, t) = temp_to_rpm[low] + part
  BY <1>1, <1>3, <1>7, <1>8, UintIs
<1> QED
  BY <1>1, <1>2, <1>3, <1>4, <1>6, <1>8, <1>9 DEF part

LEMMA SidesAre ==
  ASSUME NEW S, S # {}, NEW b \in Nat, S \subseteq 0 .. b, NEW t \in Int
  PROVE  LET ge == {x \in S : x >= t}
             lt == {x \in S : x < t}
         IN  /\ S = ge \cup lt /\ S \subseteq Nat
             /\ ge # {} => Min(ge) \in ge /\ \A x \in ge : Min(ge) <= x
             /\ lt # {} => Max(lt) \in lt /\ \A x \in lt : x <= Max(lt)
<1> DEFINE ge == {x \in S : x >= t}
           lt == {x \in S : x < t}
<1>0. \A x \in S : x \in Nat /\ x \in 0 .. b /\ (x >= t \/ x < t)
  OBVIOUS
<1>1. S = ge \cup lt /\ S \subseteq Nat /\ ge \subseteq Nat /\ lt \subseteq 0 .. b
  BY <1>0
<1> HIDE DEF ge, lt
<1>2. ge # {} => Min(ge) \in ge /\ \A x \in ge : Min(ge) <= x
  BY <1>1, MinIs
<1>3. lt # {} => Max(lt) \in lt /\ \A x \in lt : x <= Max(lt)
  BY <1>1, MaxIs
<1> QED
  BY <1>1, <1>2, <1>3 DEF ge, lt

\* The speed lies between those of the points on both sides.
LEMMA DemandBetween ==
  ASSUME TypeInv, Rising, NEW t \in Temps, NEW x \in DOMAIN temp_to_rpm
  PROVE  /\ x <= t => temp_to_rpm[x] <= Demand(t)
         /\ t <= x => Demand(t) <= temp_to_rpm[x]
<1> DEFINE D == DOMAIN temp_to_rpm
           c(y) == temp_to_rpm[y]
           ge == {y \in D : y >= t}
           lt == {y \in D : y < t}
<1>0. t \in Int /\ UintMod - 1 \in Nat
  BY LoopAssumption
<1>1. /\ D = ge \cup lt /\ D \subseteq Nat
      /\ ge # {} => Min(ge) \in ge /\ \A y \in ge : Min(ge) <= y
      /\ lt # {} => Max(lt) \in lt /\ \A y \in lt : y <= Max(lt)
  BY <1>0, Curve, SidesAre
<1>2. \A y, z \in D : c(y) \in Nat /\ (y <= z => c(y) <= c(z))
  BY Curve DEF Rising
<1>3. Demand(t) = IF ge = {} THEN c(Max(lt))
                  ELSE IF lt = {} \/ t \in ge THEN c(Min(ge))
                  ELSE IF ~Dynamic THEN c(Max(lt))
                  ELSE Interpolate(Max(lt), Min(ge), t)
  BY DEF Demand
<1>4. \A y \in D : /\ y \in Nat /\ (y \in ge <=> y >= t) /\ (y \in lt <=> y < t)
                   /\ y >= t <=> ~(y < t)
  BY <1>0, <1>1
<1>5. CASE ge = {}
  <2>1. x \in lt /\ Max(lt) \in D /\ x <= Max(lt) /\ ~(t <= x)
    BY <1>0, <1>1, <1>4, <1>5
  <2> QED
    BY <1>2, <1>3, <1>5, <2>1
<1>6. CASE ge # {} /\ (lt = {} \/ t \in ge)
  <2>1. Min(ge) \in D /\ Min(ge) >= t /\ (x >= t => Min(ge) <= x)
    BY <1>1, <1>4, <1>6
  <2>2. x <= t => x <= Min(ge)
    BY <1>0, <1>4, <2>1
  <2> QED
    BY <1>2, <1>3, <1>6, <2>1, <2>2
<1>7. CASE ge # {} /\ lt # {} /\ t \notin ge
  <2> DEFINE low == Max(lt)
             high == Min(ge)
  <2>1. low \in D /\ low < t /\ high \in D /\ high >= t /\ x # t
    BY <1>1, <1>4, <1>7
  <2>2. (x <= t => x <= low) /\ (t <= x => low <= x /\ high <= x)
    <3>1. low \in Nat /\ x \in Nat
      BY <1>1, <2>1
    <3>2. x <= t => x \in lt
      BY <1>0, <1>4, <2>1, <3>1
    <3>3. t <= x => x \in ge /\ low <= x
      BY <1>0, <1>4, <2>1, <3>1
    <3> QED
      BY <1>1, <3>2, <3>3
  <2>3. c(low) <= Demand(t) /\ Demand(t) <= c(high) /\ (~Dynamic => Demand(t) = c(low))
    <3>1. CASE ~Dynamic
      <4>1. Demand(t) = c(low) /\ low <= high
        BY <1>0, <1>1, <1>3, <1>7, <2>1, <3>1
      <4> QED
        BY <1>2, <2>1, <4>1
    <3>2. CASE Dynamic
      <4>1. Demand(t) = Interpolate(low, high, t)
        BY <1>3, <1>7, <3>2
      <4> HIDE DEF low, high
      <4> QED
        BY <1>0, <2>1, <3>2, <4>1, InterpolateIs
    <3> QED
      BY <3>1, <3>2
  <2>4. Demand(t) \in Nat
    BY DemandBound, <1>0
  <2> HIDE DEF low, high
  <2> QED
    BY <1>2, <2>1, <2>2, <2>3, <2>4
<1> QED
  BY <1>5, <1>6, <1>7

LEMMA DemandRises ==
  ASSUME TypeInv, Rising, NEW a \in Temps, NEW b \in Temps, a <= b
  PROVE  Demand(a) <= Demand(b)
<1> DEFINE D == DOMAIN temp_to_rpm
           ge(t) == {y \in D : y >= t}
           lt(t) == {y \in D : y < t}
<1>0. /\ a \in Int /\ b \in Int /\ UintMod - 1 \in Nat
      /\ Demand(a) \in Nat /\ Demand(b) \in Nat
  BY LoopAssumption, DemandBound
<1>1. CASE \E x \in D : a <= x /\ x <= b
  <2>1. PICK x \in D : a <= x /\ x <= b
    BY <1>1
  <2>2. Demand(a) <= temp_to_rpm[x] /\ temp_to_rpm[x] <= Demand(b) /\ temp_to_rpm[x] \in Nat
    BY <2>1, DemandBetween, Curve
  <2> QED
    BY <1>0, <2>2
<1>2. CASE \A x \in D : ~(a <= x /\ x <= b)
  <2>1. D \subseteq Nat
    BY Curve
  <2>2. \A x \in D : (x >= a <=> x >= b) /\ (x < a <=> x < b)
    BY <1>0, <1>2, <2>1
  <2>3. ge(a) = ge(b) /\ lt(a) = lt(b)
    BY <2>2
  <2>4. a \notin ge(b) /\ b \notin ge(b)
    BY <1>0, <1>2, <2>3
  <2>5. CASE ge(b) # {} /\ lt(b) # {} /\ Dynamic
    <3> DEFINE low == Max(lt(b))
               high == Min(ge(b))
               n == low + high
               range == temp_to_rpm[high] - temp_to_rpm[low]
    <3>1. low \in lt(b) /\ high \in ge(b)
      BY <1>0, <2>5, Curve, SidesAre
    <3>2. Demand(a) = Interpolate(low, high, a) /\ Demand(b) = Interpolate(low, high, b)
      BY <2>3, <2>4, <2>5 DEF Demand
    <3>3. low \in D /\ high \in D /\ low < a /\ a <= high /\ low < b /\ b <= high
      <4>1. low \in lt(a) /\ high \in ge(a)
        BY <2>3, <3>1
      <4> QED
        BY <3>1, <4>1
    <3> HIDE DEF low, high
    <3>4. /\ Demand(a) = temp_to_rpm[low] + (a * range) \div n
          /\ Demand(b) = temp_to_rpm[low] + (b * range) \div n
          /\ a \in Nat /\ b \in Nat /\ n \in Nat \ {0} /\ range \in Nat
          /\ temp_to_rpm[low] \in Nat
      BY <1>0, <3>2, <3>3, InterpolateIs
    <3> HIDE DEF n, range
    <3>5. a * range \in Nat /\ b * range \in Nat /\ a * range <= b * range
      BY <3>4
    <3>6. (a * range) \div n <= (b * range) \div n
      BY <3>4, <3>5, DivRises
    <3>7. (a * range) \div n \in Nat /\ (b * range) \div n \in Nat
      BY <3>4, <3>5
    <3> QED
      BY <3>4, <3>6, <3>7
  <2>6. CASE ~(ge(b) # {} /\ lt(b) # {} /\ Dynamic)
    <3>1. Demand(a) = Demand(b)
      BY <2>3, <2>4, <2>6 DEF Demand
    <3> QED
      BY <1>0, <3>1
  <2> QED
    BY <2>5, <2>6
<1> QED
  BY <1>1, <1>2

LEMMA ClosestBetween ==
  ASSUME TypeInv, NEW rpm \in Nat, NEW x \in Points
  PROVE  /\ x <= rpm => x <= ClosestPoint(rpm)
         /\ rpm <= x => ClosestPoint(rpm) <= x
<1> DEFINE ge == {p \in Points : p >= rpm}
           lt == {p \in Points : p < rpm}
<1>0. Points # {} /\ Points \subseteq 0 .. UintMod - 1 /\ UintMod - 1 \in Nat /\ rpm \in Int
  BY MappingIs
<1>1. /\ Points = ge \cup lt /\ Points \subseteq Nat
      /\ ge # {} => Min(ge) \in ge /\ \A y \in ge : Min(ge) <= y
      /\ lt # {} => Max(lt) \in lt /\ \A y \in lt : y <= Max(lt)
  BY <1>0, SidesAre
<1>2. ClosestPoint(rpm) = IF lt = {} THEN Min(ge)
                          ELSE IF ge = {} THEN Max(lt)
                          ELSE IF rpm - Max(lt) <= Min(ge) - rpm THEN Max(lt) ELSE Min(ge)
  BY DEF ClosestPoint
<1>3. x \in Nat /\ (x \in ge <=> x >= rpm) /\ (x \in lt <=> x < rpm)
  BY <1>1
<1>4. ge # {} => Min(ge) \in Nat /\ Min(ge) >= rpm
  BY <1>1
<1>5. lt # {} => Max(lt) \in Nat /\ Max(lt) < rpm
  BY <1>1
<1>6. x >= rpm => ge # {} /\ Min(ge) <= x
  BY <1>1, <1>3
<1>7. x < rpm => lt # {} /\ x <= Max(lt)
  BY <1>1, <1>3
<1>8. ge # {} \/ lt # {}
  BY <1>1
<1> HIDE DEF ge, lt
<1> QED
  BY <1>2, <1>3, <1>4, <1>5, <1>6, <1>7, <1>8

LEMMA ClosestRises ==
  ASSUME TypeInv, NEW r \in Nat, NEW s \in Nat, r <= s
  PROVE  ClosestPoint(r) <= ClosestPoint(s)
<1> DEFINE ge(t) == {p \in Points : p >= t}
           lt(t) == {p \in Points : p < t}
<1>0. Points \subseteq Nat /\ ClosestPoint(r) \in Nat /\ ClosestPoint(s) \in Nat
  BY MappingIs, ClosestIs
<1>1. CASE \E x \in Points : r <= x /\ x <= s
  <2>1. PICK x \in Points : r <= x /\ x <= s
    BY <1>1
  <2> QED
    BY <1>0, <2>1, ClosestBetween
<1>2. CASE \A x \in Points : ~(r <= x /\ x <= s)
  <2>1. \A x \in Points : (x >= r <=> x >= s) /\ (x < r <=> x < s)
    BY <1>0, <1>2
  <2>2. ge(r) = ge(s) /\ lt(r) = lt(s)
    BY <2>1
  <2> DEFINE low == Max(lt(s))
             high == Min(ge(s))
  <2>3. /\ ClosestPoint(r) = IF lt(s) = {} THEN high ELSE IF ge(s) = {} THEN low
                             ELSE IF r - low <= high - r THEN low ELSE high
        /\ ClosestPoint(s) = IF lt(s) = {} THEN high ELSE IF ge(s) = {} THEN low
                             ELSE IF s - low <= high - s THEN low ELSE high
    BY <2>2 DEF ClosestPoint
  <2>4. /\ ge(s) # {} => high \in ge(s)
        /\ lt(s) # {} => low \in lt(s)
    <3>1. Points # {} /\ Points \subseteq 0 .. UintMod - 1 /\ UintMod - 1 \in Nat /\ s \in Int
      BY MappingIs
    <3> QED
      BY <3>1, SidesAre
  <2>5. ge(s) # {} => high \in Nat /\ high >= s
    BY <1>0, <2>4
  <2>6. lt(s) # {} => low \in Nat /\ low < s
    BY <1>0, <2>4
  <2> HIDE DEF low, high
  <2>7. CASE ge(s) # {} /\ lt(s) # {}
    <3> HIDE DEF ge, lt
    <3> QED
      BY <2>3, <2>5, <2>6, <2>7
  <2>8. CASE ~(ge(s) # {} /\ lt(s) # {})
    BY <1>0, <2>3, <2>8
  <2> QED
    BY <2>7, <2>8
<1> QED
  BY <1>1, <1>2

-----------------------------------------------------------------------------
LEMMA InitLoop == Init => LInv /\ Turns
<1> SUFFICES ASSUME Init PROVE LInv /\ Turns
  OBVIOUS
<1>1. UintMod \in Nat \ {0} /\ Stickiness \in Nat
  BY LoopAssumption
<1>2. TypeInv
  <2>1. /\ temp_to_rpm \in Curves /\ rpm_to_pwm \in Mappings /\ smoothing_intervals \in Smoothings
        /\ temp \in Temps /\ just_started \in BOOLEAN /\ spinning \in BOOLEAN /\ written \in BOOLEAN
    BY DEF Init
  <2>2. /\ targeted_rpm \in 0 .. UintMod - 1 /\ top_stickiness_rem_intervals \in 0 .. Stickiness
        /\ since \in 0 .. Stickiness + 1
    BY <1>1 DEF Init
  <2>3. pwm \in {0, StartPwm} \cup {rpm_to_pwm[p] : p \in Points} /\ loop = "off"
    BY DEF Init
  <2> QED
    BY <2>1, <2>2, <2>3 DEF TypeInv, LoopTypeOK
<1>3. TargetInv /\ StickyInv /\ Turns
  BY <1>1 DEF Init, TargetInv, StickyInv, Turns
<1> QED
  BY <1>2, <1>3 DEF LInv

LEMMA NextLoop ==
  ASSUME LInv, Turns, [Next]_vars
  PROVE  LInv' /\ Turns'
<1>1. CASE Update
  <2>1. targeted_rpm' \in Nat
    BY <1>1, PassSmooths, LoopAssumption
  <2>2. UNCHANGED <<config, temp>> /\ loop' = "on" /\ Points' = Points
    BY <1>1 DEF Update, config, Points
  <2>3. TypeInv'
    BY <1>1, <2>1, <2>2, PassSmooths, PassTurns DEF LInv, TypeInv, LoopTypeOK, config
  <2> QED
    BY <1>1, <2>1, <2>3, PassSmooths, PassTurns DEF LInv
<1> USE DEF LInv, TypeInv, LoopTypeOK, TargetInv, StickyInv, Turns, Rising, Points, config, smoothing, fan
<1>2. CASE Crash
  BY <1>2 DEF Crash
<1>3. CASE \E t \in Temps : Heat(t)
  BY <1>3 DEF Heat
<1>4. CASE Enable
  BY <1>4 DEF Enable
<1>5. CASE Disable
  BY <1>5 DEF Disable
<1>6. CASE UNCHANGED vars
  BY <1>6 DEF vars
<1> QED
  BY <1>1, <1>2, <1>3, <1>4, <1>5, <1>6 DEF Next

LEMMA LoopInvariant == Spec => [](LInv /\ Turns)
<1>1. LInv /\ Turns /\ [Next]_vars => (LInv /\ Turns)'
  BY NextLoop
<1> QED
  BY <1>1, InitLoop, PTL DEF Spec

\* The parts of a loop's state have their types (Fan.cpp:86-160).
THEOREM LoopTypeTheorem == Spec => []LoopTypeOK
<1>1. LInv => LoopTypeOK
  BY DEF LInv, TypeInv
<1> QED
  BY <1>1, LoopInvariant, PTL

\* After a pass that set a PWM above 0 the fan turns, for every mapping that a
\* test may have found (Fan.cpp:86-108).
THEOREM SpinsTheorem == Spec => []DrivenSpins
<1>1. Turns => DrivenSpins
  BY DEF Turns, DrivenSpins
<1> QED
  BY <1>1, LoopInvariant, PTL

\* A speed that was raised stays for top_stickiness_intervals passes that ask
\* for less, for every rising curve (Fan.cpp:136-143).
THEOREM RaisedTheorem == Spec => RaisedStays
<1>1. ASSUME LInv, [Next]_vars, Rising, targeted_rpm' < targeted_rpm
      PROVE  since >= Stickiness
  <2>1. Update \/ UNCHANGED targeted_rpm
    BY <1>1 DEF Next, vars, smoothing, Crash, Heat, Enable, Disable
  <2>2. targeted_rpm \in Nat
    BY <1>1, LoopAssumption DEF LInv, TypeInv, LoopTypeOK
  <2>3. CASE Update
    <3>1. \/ since >= Stickiness
          \/ targeted_rpm' >= targeted_rpm
      BY <1>1, <2>3, PassMoves
    <3>2. targeted_rpm' \in Nat
      BY <1>1, <2>3, PassSmooths, LoopAssumption
    <3> QED
      BY <1>1, <2>2, <3>1, <3>2
  <2> QED
    BY <1>1, <2>1, <2>2, <2>3
<1>2. LInv /\ [Next]_vars => [Rising /\ targeted_rpm' < targeted_rpm => since >= Stickiness]_vars
  BY <1>1
<1> QED
  BY <1>2, LoopInvariant, PTL DEF Spec, RaisedStays

\* Smoothing does not go past the speed that is asked for (Fan.cpp:145-155).
THEOREM OvershootTheorem == Spec => NoOvershoot
<1>1. ASSUME LInv, Update, targeted_rpm' # targeted_rpm, Rising
      PROVE  \/ targeted_rpm < targeted_rpm' /\ targeted_rpm' <= Demand(temp)
             \/ targeted_rpm' = Demand(temp)
  BY <1>1, PassMoves
<1>2. LInv /\ [Next]_vars =>
        [Update /\ targeted_rpm' # targeted_rpm /\ Rising =>
           \/ targeted_rpm < targeted_rpm' /\ targeted_rpm' <= Demand(temp)
           \/ targeted_rpm' = Demand(temp)]_vars
  BY <1>1
<1> QED
  BY <1>2, LoopInvariant, PTL DEF Spec, NoOvershoot

\* Hotter is never slower, for every rising curve and mapping: over all segments
\* of the curve, their ends and the steps of the mapping (Fan.cpp:23-51, 92-104).
THEOREM HotterTheorem == Spec => []HotterNotSlower
<1>1. ASSUME TypeInv, Rising, NEW a \in Temps, NEW b \in Temps, a <= b
      PROVE  ClosestPwm(Demand(a), TRUE) <= ClosestPwm(Demand(b), TRUE)
  <2> DEFINE p == ClosestPoint(Demand(a))
             q == ClosestPoint(Demand(b))
  <2>1. Demand(a) \in Nat /\ Demand(b) \in Nat /\ Demand(a) <= Demand(b)
    BY <1>1, DemandRises, DemandBound, LoopAssumption
  <2>2. p \in Points /\ q \in Points /\ p <= q
    BY <1>1, <2>1, ClosestIs, ClosestRises
  <2>3. ClosestPwm(Demand(a), TRUE) = rpm_to_pwm[p] /\ ClosestPwm(Demand(b), TRUE) = rpm_to_pwm[q]
    BY DEF ClosestPwm
  <2> HIDE DEF p, q
  <2>4. rpm_to_pwm[p] <= rpm_to_pwm[q]
    BY <1>1, <2>2, TestedAssumption DEF TypeInv, Points
  <2> QED
    BY <2>3, <2>4
<1>2. LInv => HotterNotSlower
  BY <1>1 DEF LInv, HotterNotSlower
<1> QED
  BY <1>2, LoopInvariant, PTL

-----------------------------------------------------------------------------
(* Sensor: the sum. Which reading a slot of the history holds depends on how  *)
(* far the cursor is ahead of it (Slot); the oldest is Len readings old       *)
(* because the cursor skips a turn. The sum is std::accumulate's, element by  *)
(* element, so what bounds the elements bounds it by induction on their       *)
(* number.                                                                    *)

LEMMA AllNaturals ==
  ASSUME NEW S, 0 \in S, \A n \in Nat : n \in S => n + 1 \in S
  PROVE  Nat \subseteq S
<1>. SUFFICES ASSUME NEW n \in Nat, n \notin S PROVE FALSE OBVIOUS
<1>. DEFINE T == Nat \ S
<1>1. PICK m \in T : \A k \in T : ~(<<k, m>> \in OpToRel(<, Nat))
  BY WFMin, NatLessThanWellFounded, Zenon
<1>2. \A k \in T : ~(k < m) BY <1>1, Zenon DEF OpToRel
<1>3. m \in Nat /\ m \notin S /\ m # 0 BY <1>1
<1>4. m - 1 \in Nat /\ m - 1 < m BY <1>3
<1>5. m - 1 \in S BY <1>2, <1>4
<1>. QED BY <1>3, <1>4, <1>5

Adds(s, n, g) ==
  /\ g \in [0 .. n -> Int] /\ g[0] = 0
  /\ \A k \in 1 .. n : g[k] = g[k - 1] + s[k]

LEMMA SumsExist ==
  ASSUME NEW s \in Seq(Int)
  PROVE  \E g : Adds(s, Len(s), g)
<1>. DEFINE S == {n \in Nat : n <= Len(s) => \E g : Adds(s, n, g)}
<1>1. 0 \in S
  <2>1. Adds(s, 0, [k \in 0 .. 0 |-> 0]) BY DEF Adds
  <2>. QED BY <2>1
<1>2. ASSUME NEW n \in Nat, n \in S PROVE n + 1 \in S
  <2>. SUFFICES ASSUME n + 1 <= Len(s) PROVE \E g : Adds(s, n + 1, g) OBVIOUS
  <2>1. PICK g : Adds(s, n, g) BY <1>2
  <2>. DEFINE h == [k \in 0 .. n + 1 |-> IF k <= n THEN g[k] ELSE g[n] + s[n + 1]]
  <2>2. n + 1 \in 1 .. Len(s) /\ s[n + 1] \in Int BY <2>1
  <2>3. h \in [0 .. n + 1 -> Int] BY <2>1, <2>2 DEF Adds
  <2>4. \A k \in 1 .. n + 1 : h[k] = h[k - 1] + s[k] BY <2>1, <2>2 DEF Adds
  <2>5. h[0] = 0 BY <2>1 DEF Adds
  <2>6. Adds(s, n + 1, h) BY <2>3, <2>4, <2>5 DEF Adds
  <2>. QED BY <2>6
<1>3. Nat \subseteq S BY <1>1, <1>2, AllNaturals
<1>. QED BY <1>3

\* One element more, of what the sum of the elements before it is called.
LEMMA NextSum ==
  ASSUME NEW s \in Seq(Int), NEW f, NEW g,
         f = [k \in 0 .. Len(s) |-> IF k = 0 THEN 0 ELSE g[k - 1] + s[k]]
  PROVE  f[0] = 0 /\ \A k \in 1 .. Len(s) : f[k] = g[k - 1] + s[k]
<1>1. Len(s) \in Nat OBVIOUS
<1>2. 0 \in 0 .. Len(s) BY <1>1
<1>3. f[0] = 0 BY <1>2
<1>4. ASSUME NEW k \in 1 .. Len(s) PROVE f[k] = g[k - 1] + s[k]
  <2>1. k \in 0 .. Len(s) /\ k # 0 BY <1>1
  <2>. QED BY <2>1
<1>. QED BY <1>3, <1>4

LEMMA SumsAre ==
  ASSUME NEW s \in Seq(Int)
  PROVE  Adds(s, Len(s), Sums(s))
<1>. DEFINE Step(f) == [k \in 0 .. Len(s) |-> IF k = 0 THEN 0 ELSE f[k - 1] + s[k]]
            f == Sums(s)
<1>1. PICK g : Adds(s, Len(s), g) BY SumsExist
<1>2. g = Step(g) BY <1>1 DEF Adds
<1>3. f = CHOOSE h : h = Step(h) BY DEF Sums
<1>4. f = Step(f) BY <1>2, <1>3
<1>. HIDE DEF f
<1>. HIDE DEF Step
<1>5. f[0] = 0 /\ \A k \in 1 .. Len(s) : f[k] = f[k - 1] + s[k]
  <2>1. ASSUME NEW e, f = Step(e)
        PROVE  f[0] = 0 /\ \A k \in 1 .. Len(s) : f[k] = e[k - 1] + s[k]
    BY <2>1, NextSum DEF Step
  <2>. QED BY <1>4, <2>1
<1>. DEFINE S == {n \in Nat : n <= Len(s) => f[n] \in Int}
<1>6. 0 \in S BY <1>5
<1>7. ASSUME NEW n \in Nat, n \in S PROVE n + 1 \in S
  <2>. SUFFICES ASSUME n + 1 <= Len(s) PROVE f[n + 1] \in Int OBVIOUS
  <2>1. n + 1 \in 1 .. Len(s) /\ s[n + 1] \in Int OBVIOUS
  <2>2. f[n + 1] = f[n] + s[n + 1] BY <1>5, <2>1
  <2>. QED BY <1>7, <2>1, <2>2
<1>8. Nat \subseteq S BY <1>6, <1>7, AllNaturals
<1>9. f \in [0 .. Len(s) -> Int]
  <2>1. ASSUME NEW e, f = Step(e) PROVE f = [k \in 0 .. Len(s) |-> f[k]] BY <2>1 DEF Step
  <2>2. f = [k \in 0 .. Len(s) |-> f[k]] BY <1>4, <2>1
  <2>3. \A k \in 0 .. Len(s) : f[k] \in Int BY <1>8
  <2>. QED BY <2>2, <2>3
<1>10. Adds(s, Len(s), f) BY <1>5, <1>9 DEF Adds
<1>. QED BY <1>10 DEF f

\* Elements between two numbers have their sum between as many times the two.
LEMMA SumBetween ==
  ASSUME NEW s \in Seq(Int), NEW lo \in Int, NEW hi \in Int,
         \A k \in 1 .. Len(s) : lo <= s[k] /\ s[k] <= hi
  PROVE  Sum(s) \in Int /\ Len(s) * lo <= Sum(s) /\ Sum(s) <= Len(s) * hi
<1>. DEFINE f == Sums(s)
            S == {n \in Nat : n <= Len(s) => n * lo <= f[n] /\ f[n] <= n * hi}
<1>1. Adds(s, Len(s), f) BY SumsAre
<1>. HIDE DEF f
<1>2. 0 \in S BY <1>1 DEF Adds
<1>3. ASSUME NEW n \in Nat, n \in S PROVE n + 1 \in S
  <2>. SUFFICES ASSUME n + 1 <= Len(s) PROVE (n + 1) * lo <= f[n + 1] /\ f[n + 1] <= (n + 1) * hi
    OBVIOUS
  <2>1. n + 1 \in 1 .. Len(s) /\ s[n + 1] \in Int OBVIOUS
  <2>2. f[n + 1] = f[n] + s[n + 1] /\ f[n] \in Int
    <3>1. f[n + 1] = f[(n + 1) - 1] + s[n + 1] BY <1>1, <2>1, Zenon DEF Adds
    <3>2. (n + 1) - 1 = n /\ n \in 0 .. Len(s) BY <2>1
    <3>. QED BY <1>1, <3>1, <3>2 DEF Adds
  <2>3. n * lo <= f[n] /\ f[n] <= n * hi BY <1>3
  <2>4. lo <= s[n + 1] /\ s[n + 1] <= hi BY <2>1
  <2>5. (n + 1) * lo = n * lo + lo /\ (n + 1) * hi = n * hi + hi /\ n * lo \in Int /\ n * hi \in Int
    OBVIOUS
  <2>. QED BY <2>1, <2>2, <2>3, <2>4, <2>5
<1>4. Nat \subseteq S BY <1>2, <1>3, AllNaturals
<1>5. Len(s) \in S /\ f[Len(s)] \in Int BY <1>1, <1>4 DEF Adds
<1>. QED BY <1>5 DEF Sum, f

LEMMA SmallRest == ASSUME NEW x \in Nat, NEW m \in Nat, x < m PROVE x % m = x
OBVIOUS

\* With no overflow of the int, the average of temperatures that are not negative
\* lies between what they lie between (Sensor.cpp:24).
LEMMA AverageBetween ==
  ASSUME NEW s \in Seq(Int), s # <<>>, NEW lo \in Nat, NEW hi \in Nat,
         2 * (Len(s) * hi) < IntMod,
         \A k \in 1 .. Len(s) : lo <= s[k] /\ s[k] <= hi
  PROVE  lo <= Average(s) /\ Average(s) <= hi
<1>. DEFINE L == Len(s)
            total == Sum(s)
            a == total \div L
<1>1. L \in Nat /\ L >= 1 BY EmptySeq, LenProperties
<1>2. total \in Int /\ L * lo <= total /\ total <= L * hi
  <2>1. lo \in Int /\ hi \in Int OBVIOUS
  <2>. QED BY <2>1, SumBetween
<1>3. L * lo \in Nat /\ L * hi \in Nat /\ lo <= L * lo /\ hi <= L * hi BY <1>1
<1>4. total \in Nat /\ 2 * total < IntMod /\ IntMod \in Nat BY <1>2, <1>3, SensorAssumption
<1>5. total % (IntMod * IntMod) = total
  <2>1. IntMod <= IntMod * IntMod /\ IntMod * IntMod \in Nat BY <1>4
  <2>. HIDE DEF total
  <2>. QED BY <1>4, <2>1, SmallRest
<1>. HIDE DEF total, L
<1>6. a \in Int /\ L * a <= total /\ total < L * a + L BY <1>1, <1>4
<1>. HIDE DEF a
<1>7. lo <= a
  <2>. SUFFICES ASSUME a + 1 <= lo PROVE FALSE BY <1>6
  <2>1. L * (a + 1) <= L * lo BY <1>1, <1>6
  <2>2. L * (a + 1) = L * a + L BY <1>1, <1>6
  <2>. QED BY <1>1, <1>2, <1>3, <1>6, <2>1, <2>2
<1>8. a <= hi
  <2>. SUFFICES ASSUME hi + 1 <= a PROVE FALSE BY <1>6
  <2>1. L * (hi + 1) <= L * a BY <1>1, <1>6
  <2>2. L * (hi + 1) = L * hi + L BY <1>1
  <2>. QED BY <1>1, <1>2, <1>3, <1>6, <2>1, <2>2
<1>9. ToInt(a) = a
  <2>1. a \in Nat /\ 2 * a < IntMod
    <3>1. a \in Nat BY <1>6, <1>7
    <3>2. a <= L * hi BY <1>3, <1>8, <3>1
    <3>. QED BY <1>3, <1>4, <3>1, <3>2, SensorAssumption DEF L
  <2>2. a % IntMod = a BY <1>4, <2>1
  <2>. QED BY <1>4, <2>1, <2>2 DEF ToInt
<1>10. Average(s) = ToInt(a) BY <1>5 DEF Average, a, total, L
<1>. QED BY <1>7, <1>8, <1>9, <1>10

LEMMA AverageIs ==
  ASSUME NEW s \in Seq(Int), s # <<>>
  PROVE  Average(s) \in Int
<1>. DEFINE total == Sum(s)
<1>1. total \in Int BY SumsAre DEF Sum, Adds
<1>2. Len(s) \in Nat /\ Len(s) > 0 BY EmptySeq, LenProperties
<1>3. IntMod \in Nat /\ IntMod > 0 /\ IntMod * IntMod \in Nat /\ IntMod * IntMod > 0
  BY SensorAssumption
<1>. HIDE DEF total
<1>. DEFINE m == IntMod * IntMod
<1>4. total % m \in Nat
  <2>. HIDE DEF m
  <2>. QED BY <1>1, <1>3 DEF m
<1>. HIDE DEF m
<1>. DEFINE x == (total % m) \div Len(s)
<1>5. x \in Int BY <1>2, <1>4
<1>. HIDE DEF x
<1>6. ToInt(x) \in Int BY <1>3, <1>5 DEF ToInt
<1>. QED BY <1>6 DEF Average, x, m, total

-----------------------------------------------------------------------------
(* The history                                                                *)

\* The reading that slot k holds: the cursor passed it so many readings ago; a
\* slot it has not reached yet holds the first.
Since(k) == IF k <= temp_history_i THEN temp_history_i - k
            ELSE temp_history_i + Len(temp_history) - k + 1
Past(n) == IF n < Len(readings) THEN readings[Len(readings) - n] ELSE readings[1]
Slot(k) == Past(Since(k))
HistoryInv ==
  /\ temp_history # <<>> => Len(temp_history) \in Intervals /\ readings # <<>>
  /\ up /\ temp_history = <<>> => readings = <<>>
  /\ \A k \in 1 .. Len(temp_history) : temp_history[k] = Slot(k)
AveragedInv == Averaged => last_avg_temp = Average(temp_history)
SInv == SensorTypeOK /\ HistoryInv /\ AveragedInv

LEMMA InitSensor == SensorInit => SInv
<1>. SUFFICES ASSUME SensorInit PROVE SInv OBVIOUS
<1>1. Len(<<>>) = 0 /\ <<>> \in Seq(Temperatures) BY EmptySeq, LenProperties
<1>2. temp_history_i \in 0 .. Len(temp_history) BY <1>1 DEF SensorInit
<1>3. SensorTypeOK
  <2>1. temp_history \in Seq(Temperatures) /\ readings \in Seq(Temperatures) BY <1>1, Zenon DEF SensorInit
  <2>2. last_avg_temp \in Int /\ fresh \in BOOLEAN /\ up \in BOOLEAN
    <3>1. last_avg_temp = 0 BY DEF SensorInit
    <3>2. fresh \in BOOLEAN /\ up \in BOOLEAN BY Zenon DEF SensorInit
    <3>. QED BY <3>1, <3>2
  <2>3. temp_averaging_intervals \in Intervals BY DEF SensorInit
  <2>. QED BY <1>2, <2>1, <2>2, <2>3, Zenon DEF SensorTypeOK
<1>. QED BY <1>1, <1>3 DEF SensorInit, SInv, HistoryInv, AveragedInv, Averaged

\* What a call leaves of the average.
LEMMA SetAverageIs ==
  ASSUME NEW h, h \in Seq(Temperatures), SetAverage(h), up, last_avg_temp \in Int
  PROVE  /\ last_avg_temp' \in Int /\ up' \in BOOLEAN
         /\ up' => h # <<>> /\ last_avg_temp' = Average(h)
<1>1. h \in Seq(Int) BY SensorAssumption, SeqMonotonic
<1>. QED BY <1>1, AverageIs DEF SetAverage

\* One more reading: what was read n readings ago was read n + 1 ago.
LEMMA Older ==
  ASSUME SInv, NEW now \in Temperatures, Reading(now)
  PROVE  /\ readings' \in Seq(Temperatures) /\ readings' # <<>>
         /\ Len(readings') = Len(readings) + 1
         /\ \A j \in 1 .. Len(readings) : readings'[j] = readings[j]
         /\ readings'[Len(readings) + 1] = now
  BY AppendProperties DEF SInv, SensorTypeOK, Reading

LEMMA PastMoves ==
  ASSUME SInv, NEW now \in Temperatures, Reading(now)
  PROVE  /\ Past(0)' = now
         /\ readings # <<>> => \A n \in Nat : Past(n + 1)' = Past(n)
<1>. DEFINE L == Len(readings)
<1>1. L \in Nat /\ (readings # <<>> => L > 0)
  BY EmptySeq, LenProperties DEF SInv, SensorTypeOK
<1>2. /\ Len(readings') = L + 1 /\ readings'[L + 1] = now
      /\ \A j \in 1 .. L : readings'[j] = readings[j]
  BY Older
<1>. HIDE DEF L
<1>3. Past(0)' = now BY <1>1, <1>2 DEF Past
<1>4. ASSUME readings # <<>>, NEW n \in Nat PROVE Past(n + 1)' = Past(n)
  <2>1. Past(n + 1)' = IF n < L THEN readings'[L - n] ELSE readings'[1]
    BY <1>1, <1>2 DEF Past
  <2>2. Past(n) = IF n < L THEN readings[L - n] ELSE readings[1] BY DEF Past, L
  <2>3. readings'[1] = readings[1] /\ (n < L => readings'[L - n] = readings[L - n])
    BY <1>1, <1>2, <1>4
  <2>. QED BY <2>1, <2>2, <2>3
<1>. QED BY <1>3, <1>4

LEMMA FirstReadInv ==
  ASSUME SInv, NEW now \in Temperatures, FirstRead(now)
  PROVE  SInv'
<1>1. /\ temp_history = <<>> /\ up /\ Reading(now) /\ SetAverage(temp_history')
      /\ temp_history' = [k \in 1 .. temp_averaging_intervals |-> now]
      /\ temp_averaging_intervals' = temp_averaging_intervals
      /\ temp_history_i' = temp_history_i /\ fresh' = TRUE
  BY DEF FirstRead, Reading
<1>2. /\ temp_averaging_intervals \in Nat /\ temp_averaging_intervals \in Intervals
      /\ last_avg_temp \in Int
  BY SensorAssumption DEF SInv, SensorTypeOK
<1>3. temp_history' \in Seq(Temperatures) /\ Len(temp_history') = temp_averaging_intervals
  BY <1>1, <1>2
<1>4. temp_history_i' = 0
  <2>1. Len(<<>>) = 0 BY EmptySeq
  <2>. QED BY <1>1, <2>1 DEF SInv, SensorTypeOK
<1>5. /\ last_avg_temp' \in Int /\ up' \in BOOLEAN
      /\ up' => temp_history' # <<>> /\ last_avg_temp' = Average(temp_history')
  BY <1>1, <1>2, <1>3, SetAverageIs
<1>6. readings = <<>> /\ Len(readings) = 0 BY <1>1, EmptySeq DEF SInv, HistoryInv
<1>7. /\ readings' \in Seq(Temperatures) /\ readings' # <<>>
      /\ Len(readings') = 1 /\ readings'[1] = now
  BY <1>1, <1>6, Older
<1>8. SensorTypeOK' BY <1>1, <1>2, <1>3, <1>4, <1>5, <1>7 DEF SensorTypeOK
<1>9. \A k \in 1 .. Len(temp_history') : temp_history'[k] = Slot(k)'
  <2>. SUFFICES ASSUME NEW k \in 1 .. temp_averaging_intervals PROVE now = Slot(k)'
    BY <1>1, <1>3
  <2>1. Since(k)' \in Nat BY <1>2, <1>3, <1>4 DEF Since
  <2>2. \A n \in Nat : Past(n)' = now BY <1>7 DEF Past
  <2>. QED BY <2>1, <2>2 DEF Slot
<1>10. HistoryInv' BY <1>2, <1>3, <1>5, <1>7, <1>9 DEF HistoryInv
<1>. QED BY <1>5, <1>8, <1>10 DEF SInv, AveragedInv, Averaged

LEMMA NextReadInv ==
  ASSUME SInv, NEW now \in Temperatures, NextRead(now)
  PROVE  SInv'
<1>. DEFINE L == Len(temp_history)
            i == temp_history_i
            n == Len(readings)
<1>1. /\ temp_history # <<>> /\ i < L /\ up /\ Reading(now) /\ SetAverage(temp_history')
      /\ temp_history' = [temp_history EXCEPT ![i + 1] = now]
      /\ temp_averaging_intervals' = temp_averaging_intervals
      /\ temp_history_i' = i + 1 /\ fresh' = TRUE
  BY DEF NextRead, Reading
<1>2. /\ temp_history \in Seq(Temperatures) /\ i \in 0 .. L /\ last_avg_temp \in Int
      /\ readings \in Seq(Temperatures) /\ L \in Nat /\ n \in Nat /\ L \in Intervals
      /\ temp_averaging_intervals \in Intervals /\ n >= 1
  BY <1>1, EmptySeq, LenProperties DEF SInv, SensorTypeOK, HistoryInv
<1>3. /\ temp_history' \in Seq(Temperatures) /\ Len(temp_history') = L
      /\ temp_history'[i + 1] = now
      /\ \A k \in 1 .. L : k # i + 1 => temp_history'[k] = temp_history[k]
  <2>1. i + 1 \in 1 .. L BY <1>1, <1>2
  <2>. QED BY <1>1, <1>2, <2>1, ExceptSeq, LenProperties
<1>4. /\ last_avg_temp' \in Int /\ up' \in BOOLEAN
      /\ up' => temp_history' # <<>> /\ last_avg_temp' = Average(temp_history')
  BY <1>1, <1>2, <1>3, SetAverageIs
<1>5. /\ readings' \in Seq(Temperatures) /\ readings' # <<>> /\ Len(readings') = n + 1
      /\ \A j \in 1 .. n : readings'[j] = readings[j]
      /\ readings'[n + 1] = now
  BY <1>1, Older
<1>6. SensorTypeOK' BY <1>1, <1>2, <1>3, <1>4, <1>5 DEF SensorTypeOK
<1>7. ASSUME NEW k \in 1 .. L PROVE temp_history'[k] = Slot(k)'
  <2>1. CASE k = i + 1
    <3>1. Since(k)' = 0 BY <1>1, <1>2, <1>3, <2>1 DEF Since
    <3>. QED BY <1>1, <1>3, <2>1, <3>1, PastMoves DEF Slot
  <2>2. CASE k # i + 1
    <3>1. Since(k) \in Nat /\ Since(k)' = Since(k) + 1
      BY <1>1, <1>2, <1>3, <2>2 DEF Since
    <3>2. PICK d \in Nat : d = Since(k) BY <3>1
    <3>3. temp_history'[k] = Past(d) BY <1>3, <2>2, <3>2 DEF SInv, HistoryInv, Slot
    <3>4. Slot(k)' = Past(d + 1)' BY <3>1, <3>2 DEF Slot, Past
    <3>5. Past(d + 1)' = Past(d) BY <1>1, PastMoves DEF SInv, HistoryInv
    <3>. QED BY <3>3, <3>4, <3>5
  <2>. QED BY <2>1, <2>2
<1>8. HistoryInv'
  <2>1. temp_history' # <<>> BY <1>1, <1>2, <1>3, EmptySeq
  <2>. QED BY <1>2, <1>3, <1>5, <1>7, <2>1 DEF HistoryInv
<1>. QED BY <1>4, <1>6, <1>8 DEF SInv, AveragedInv, Averaged

\* The cursor at the end goes back to the first slot: it is the one that is now
\* Len readings old, and the others are one reading older too.
LEMMA PastEndInv ==
  ASSUME SInv, NEW now \in Temperatures, ReadPastEnd(now)
  PROVE  SInv'
<1>. DEFINE L == Len(temp_history)
            i == temp_history_i
<1>1. /\ temp_history # <<>> /\ i = L /\ up /\ Reading(now)
      /\ temp_history' = temp_history
      /\ temp_averaging_intervals' = temp_averaging_intervals
      /\ temp_history_i' = 0 /\ fresh' = TRUE
  BY DEF ReadPastEnd, Reading
<1>2. /\ temp_history \in Seq(Temperatures) /\ last_avg_temp \in Int
      /\ L \in Nat /\ L \in Intervals /\ temp_averaging_intervals \in Intervals
      /\ readings # <<>>
  BY <1>1, EmptySeq, LenProperties DEF SInv, SensorTypeOK, HistoryInv
<1>3. /\ last_avg_temp' \in Int /\ up' \in BOOLEAN
      /\ up' => last_avg_temp' = Average(temp_history)
  <2>1. CASE SetAverage(temp_history) BY <1>1, <1>2, <2>1, SetAverageIs
  <2>2. CASE up' = FALSE /\ last_avg_temp' = last_avg_temp BY <1>2, <2>2, Zenon
  <2>. QED BY <1>1, <2>1, <2>2 DEF ReadPastEnd
<1>4. SensorTypeOK'
  <2>1. readings' \in Seq(Temperatures) BY <1>1, Older
  <2>. QED BY <1>1, <1>2, <1>3, <2>1 DEF SensorTypeOK
<1>5. ASSUME NEW k \in 1 .. L PROVE temp_history'[k] = Slot(k)'
  <2>1. Since(k) \in Nat /\ Since(k)' = Since(k) + 1 BY <1>1, <1>2 DEF Since
  <2>2. PICK n \in Nat : n = Since(k) BY <2>1
  <2>3. temp_history'[k] = Past(n) BY <1>1, <2>2 DEF SInv, HistoryInv, Slot
  <2>4. Slot(k)' = Past(n + 1)' BY <2>1, <2>2 DEF Slot, Past
  <2>5. Past(n + 1)' = Past(n) BY <1>1, <1>2, PastMoves
  <2>. QED BY <2>3, <2>4, <2>5
<1>6. HistoryInv'
  <2>1. readings' # <<>> BY <1>1, Older
  <2>. QED BY <1>1, <1>2, <1>5, <2>1 DEF HistoryInv
<1>. QED BY <1>1, <1>3, <1>4, <1>6 DEF SInv, AveragedInv, Averaged

\* No reading: the average is that of the same history.
LEMMA OtherInv ==
  ASSUME SInv, ReadFails \/ Age \/ (\E n \in Intervals : Configure(n)) \/ UNCHANGED sensor_vars
  PROVE  SInv'
<1>1. UNCHANGED <<temp_history, temp_history_i, readings>>
  BY DEF ReadFails, Age, Configure, sensor_vars
<1>2. /\ temp_averaging_intervals' \in Intervals /\ fresh' \in BOOLEAN
      /\ temp_history \in Seq(Temperatures) /\ last_avg_temp \in Int /\ up \in BOOLEAN
  BY DEF SInv, SensorTypeOK, ReadFails, Age, Configure, sensor_vars
<1>3. /\ last_avg_temp' \in Int /\ up' \in BOOLEAN
      /\ up' => up
      /\ up' /\ temp_history # <<>> => last_avg_temp' = Average(temp_history)
  <2>1. CASE ReadFails BY <1>2, <2>1, SetAverageIs DEF ReadFails
  <2>2. CASE last_avg_temp' = last_avg_temp /\ up' = up
    BY <1>2, <2>2 DEF SInv, AveragedInv, Averaged
  <2>. QED BY <2>1, <2>2 DEF Age, Configure, sensor_vars
<1>4. SensorTypeOK' BY <1>1, <1>2, <1>3 DEF SInv, SensorTypeOK
<1>5. HistoryInv' BY <1>1, <1>3 DEF SInv, HistoryInv, Slot, Since, Past
<1>. QED BY <1>1, <1>3, <1>4, <1>5 DEF SInv, AveragedInv, Averaged

LEMMA SensorInvariant == SensorSpec => []SInv
<1>1. SInv /\ [SensorNext]_sensor_vars => SInv'
  BY FirstReadInv, NextReadInv, PastEndInv, OtherInv DEF SensorNext
<1>. QED BY <1>1, InitSensor, PTL DEF SensorSpec

-----------------------------------------------------------------------------
\* The cursor stays within one past the history, and an average is a number.
THEOREM SensorTypeTheorem == SensorSpec => []SensorTypeOK
<1>1. SInv => SensorTypeOK BY DEF SInv
<1>. QED BY <1>1, SensorInvariant, PTL

\* The temperatures are not below 0 and the sum of a history is an int.
Measurable == \E top \in Nat :
  Temperatures \subseteq 0 .. top /\ \A n \in Intervals : 2 * (n * top) < IntMod

LEMMA SlotRecent ==
  ASSUME SInv, NEW k \in 1 .. Len(temp_history)
  PROVE  temp_history[k] \in LastReadings(Len(temp_history) + 1)
<1>. DEFINE L == Len(temp_history)
            N == Len(readings)
<1>1. /\ L \in Nat /\ N \in Nat /\ N > 0 /\ temp_history_i \in 0 .. L
      /\ temp_history # <<>>
  BY EmptySeq, LenProperties DEF SInv, SensorTypeOK, HistoryInv
<1>2. Since(k) \in 0 .. L BY <1>1 DEF Since
<1>3. PICK n \in 0 .. L : n = Since(k) BY <1>2
<1>4. temp_history[k] = Past(n) BY <1>3 DEF SInv, HistoryInv, Slot
<1>5. PICK j \in 1 .. N : j + (L + 1) > N /\ Past(n) = readings[j]
  <2>1. CASE n < N
    <3>1. N - n \in 1 .. N /\ (N - n) + (L + 1) > N BY <1>1, <2>1
    <3>. QED BY <2>1, <3>1 DEF Past
  <2>2. CASE ~(n < N)
    <3>1. 1 \in 1 .. N /\ 1 + (L + 1) > N BY <1>1, <2>2
    <3>. QED BY <2>2, <3>1 DEF Past
  <2>. QED BY <2>1, <2>2
<1>. QED BY <1>4, <1>5 DEF LastReadings

\* The average forgets: it lies among the last Len + 1 readings, however long the
\* sensor has been read and whatever the interval was set to (Sensor.cpp:12-24).
THEOREM AverageTheorem ==
  ASSUME Measurable
  PROVE  SensorSpec => []AverageWithinRecent
<1>1. ASSUME SInv, Averaged PROVE LET recent == LastReadings(Len(temp_history) + 1) IN
        /\ \E t \in recent : t <= last_avg_temp
        /\ \E t \in recent : t >= last_avg_temp
  <2>. DEFINE L == Len(temp_history)
              recent == LastReadings(L + 1)
              a == last_avg_temp
  <2>1. PICK top \in Nat : Temperatures \subseteq 0 .. top /\ \A n \in Intervals : 2 * (n * top) < IntMod
    BY DEF Measurable
  <2>2. /\ temp_history \in Seq(Temperatures) /\ temp_history # <<>> /\ L \in Intervals
        /\ a = Average(temp_history) /\ a \in Int /\ L \in Nat /\ L > 0
    BY <1>1, EmptySeq DEF SInv, SensorTypeOK, HistoryInv, AveragedInv, Averaged
  <2>3. temp_history \in Seq(Int) BY <2>2, SensorAssumption, SeqMonotonic
  <2>4. \A k \in 1 .. L : temp_history[k] \in recent /\ temp_history[k] \in 0 .. top
    BY <1>1, <2>1, <2>2, SlotRecent, ElementOfSeq
  <2>5. 2 * (L * top) < IntMod BY <2>1, <2>2
  <2>between. ASSUME NEW lo \in Nat, NEW hi \in Nat, 2 * (L * hi) < IntMod,
                     \A k \in 1 .. L : lo <= temp_history[k] /\ temp_history[k] <= hi
              PROVE  lo <= a /\ a <= hi
    BY <2>2, <2>3, <2>between, AverageBetween
  <2>6. a \in Nat /\ a <= top
    <3>1. \A k \in 1 .. L : 0 <= temp_history[k] /\ temp_history[k] <= top BY <2>4
    <3>2. 0 <= a /\ a <= top BY <2>5, <2>between, <3>1
    <3>. QED BY <2>2, <3>2
  <2>7. \E t \in recent : t <= a
    <3>. SUFFICES ASSUME \A k \in 1 .. L : temp_history[k] >= a + 1 PROVE FALSE
      BY <2>2, <2>4
    <3>1. \A k \in 1 .. L : a + 1 <= temp_history[k] /\ temp_history[k] <= top BY <2>4, <2>6
    <3>2. a + 1 \in Nat BY <2>6
    <3>3. a + 1 <= a BY <2>1, <2>5, <2>between, <3>1, <3>2
    <3>. QED BY <2>2, <3>3
  <2>8. \E t \in recent : t >= a
    <3>. SUFFICES ASSUME \A k \in 1 .. L : temp_history[k] <= a - 1 PROVE FALSE
      BY <2>2, <2>4
    <3>1. a - 1 \in Nat BY <2>2, <2>4, <2>6
    <3>2. 2 * (L * (a - 1)) < IntMod
      <4>1. L * (a - 1) <= L * top BY <2>2, <2>6, <3>1
      <4>2. L * (a - 1) \in Int /\ L * top \in Int /\ IntMod \in Int
        BY <2>2, <2>6, SensorAssumption
      <4>. QED BY <2>5, <4>1, <4>2
    <3>3. \A k \in 1 .. L : 0 <= temp_history[k] /\ temp_history[k] <= a - 1 BY <2>4
    <3>4. a <= a - 1 BY <2>between, <3>1, <3>2, <3>3
    <3>. QED BY <2>2, <3>4
  <2>. QED BY <2>7, <2>8
<1>2. SInv => AverageWithinRecent BY <1>1 DEF AverageWithinRecent
<1>. QED BY <1>2, SensorInvariant, PTL
=============================================================================
