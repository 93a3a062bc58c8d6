------------------------- MODULE CalibrationProofs --------------------------
(* The test of a fan, for every fan, driver, width and number of readings that *)
(* are off: what it maps to a speed rises with the speed and keeps the fan     *)
(* running; and, if no more than one write fails, its start PWM starts the fan. *)
EXTENDS Calibration, FiniteSetTheorems, WellFoundedInduction, NaturalsInduction, TLAPS

-----------------------------------------------------------------------------
(* Numbers and sets of them                                                   *)

LEMMA MinIs ==
  ASSUME NEW S, S # {}, S \subseteq Nat
  PROVE  Min(S) \in S /\ \A n \in S : Min(S) <= n
<1>1. PICK m \in S : \A n \in S : ~(<<n, m>> \in OpToRel(<, Nat))
  BY WFMin, NatLessThanWellFounded, Zenon
<1>2. \A n \in S : ~(n < m) BY <1>1, Zenon DEF OpToRel
<1>3. \A n \in S : m <= n BY <1>2
<1>. QED BY <1>3 DEF Min

LEMMA MaxIs ==
  ASSUME NEW S, S # {}, NEW b \in Nat, S \subseteq 0 .. b
  PROVE  Max(S) \in S /\ \A n \in S : n <= Max(S)
<1>. DEFINE T == {b - n : n \in S}
<1>1. T # {} /\ T \subseteq Nat
  <2>1. \A n \in S : b - n \in Nat OBVIOUS
  <2>. QED BY <2>1
<1>2. Min(T) \in T /\ \A n \in T : Min(T) <= n BY <1>1, MinIs
<1>3. PICK k \in S : Min(T) = b - k BY <1>2
<1>4. \A n \in S : b - k <= b - n BY <1>2, <1>3
<1>5. \A n \in S : n <= k BY <1>4
<1>. QED BY <1>5 DEF Max

\* A part of a range stays in it.
LEMMA PartBound ==
  ASSUME NEW a \in Nat, NEW t \in Nat, NEW n \in Nat \ {0}, t <= n
  PROVE  (t * a) \div n \in 0 .. a
<1>1. t * a <= n * a /\ t * a \in Nat OBVIOUS
<1>. DEFINE q == (t * a) \div n
<1>2. q \in Nat /\ q * n <= t * a BY <1>1
<1>3. q <= a
  <2>. SUFFICES ASSUME q >= a + 1 PROVE FALSE BY <1>2
  <2>1. q * n >= (a + 1) * n BY <1>2
  <2>. QED BY <1>1, <1>2, <2>1
<1>. QED BY <1>2, <1>3

\* The place of an element among those of its set.
Rank(D, p) == Cardinality({q \in D : q <= p})

LEMMA FiniteNumbers ==
  ASSUME NEW D, D \subseteq 0 .. PwmMax
  PROVE  IsFiniteSet(D) /\ \A T \in SUBSET D : IsFiniteSet(T) /\ Cardinality(T) \in Nat
<1>1. IsFiniteSet(0 .. PwmMax) BY FS_Interval, CalibrationAssumption
<1>2. IsFiniteSet(D) BY <1>1, FS_Subset
<1>. QED BY <1>2, FS_Subset, FS_CardinalityType

\* A part of a set of numbers that lacks one of them is smaller.
LEMMA FewerIs ==
  ASSUME NEW D, D \subseteq 0 .. PwmMax, NEW T \in SUBSET D, NEW U \in SUBSET T
  PROVE  /\ Cardinality(U) <= Cardinality(T)
         /\ U # T => Cardinality(U) < Cardinality(T)
<1>1. IsFiniteSet(T) /\ Cardinality(T) \in Nat /\ Cardinality(U) \in Nat
  BY FiniteNumbers
<1>2. Cardinality(U) <= Cardinality(T) /\ (Cardinality(T) = Cardinality(U) => T = U)
  BY <1>1, FS_Subset
<1>. QED BY <1>1, <1>2

\* Every number up to the size of the set is the place of an element: places
\* differ, and there are as many of them as elements.
LEMMA RankedExists ==
  ASSUME NEW D, D \subseteq 0 .. PwmMax, NEW k \in 1 .. Cardinality(D)
  PROVE  \E p \in D : Rank(D, p) = k
<1>. DEFINE n == Cardinality(D)
            rank == [p \in D |-> Rank(D, p)]
<1>0. IsFiniteSet(D) /\ n \in Nat BY FiniteNumbers
<1>1. \A p \in D : Rank(D, p) \in 1 .. n
  <2>. TAKE p \in D
  <2>. DEFINE B == {q \in D : q <= p}
  <2>1. B \in SUBSET D /\ p \in B OBVIOUS
  <2>2. Cardinality(B) <= n /\ Cardinality(B) \in Nat BY <2>1, FewerIs, FiniteNumbers
  <2>3. Cardinality(B) # 0 BY <2>1, FiniteNumbers, FS_EmptySet
  <2>. QED BY <1>0, <2>2, <2>3 DEF Rank
<1>2. \A p, q \in D : p # q => Rank(D, p) # Rank(D, q)
  <2>1. ASSUME NEW p \in D, NEW q \in D, p < q PROVE Rank(D, p) < Rank(D, q)
    <3>. DEFINE U == {x \in D : x <= p}
                T == {x \in D : x <= q}
    <3>1. p \in Nat /\ q \in Nat /\ \A x \in D : x \in Nat OBVIOUS
    <3>2. \A x \in D : x <= p => x <= q BY <2>1, <3>1
    <3>3. U \in SUBSET T /\ T \in SUBSET D BY <3>2
    <3>4. q \in T /\ q \notin U BY <2>1, <3>1
    <3>. QED BY <3>3, <3>4, FewerIs DEF Rank
  <2>2. \A p, q \in D : p # q => p < q \/ q < p OBVIOUS
  <2>3. \A p \in D : Rank(D, p) \in Nat BY <1>1
  <2>. QED BY <2>1, <2>2, <2>3
<1>3. rank \in Injection(D, 1 .. n) BY <1>1, <1>2 DEF Injection, IsInjective
<1>4. IsFiniteSet(1 .. n) /\ Cardinality(1 .. n) = n BY <1>0, FS_Interval
<1>5. rank \in Surjection(D, 1 .. n) BY <1>3, <1>4, FS_Injection
<1>. QED BY <1>5 DEF Surjection

LEMMA NthIs ==
  ASSUME NEW m, DOMAIN m \subseteq 0 .. PwmMax, NEW k \in 1 .. Cardinality(DOMAIN m)
  PROVE  Nth(m, k) \in DOMAIN m /\ Rank(DOMAIN m, Nth(m, k)) = k
<1>1. \E p \in DOMAIN m : Rank(DOMAIN m, p) = k BY RankedExists
<1>. QED BY <1>1 DEF Nth, Rank

-----------------------------------------------------------------------------
(* rpm_to_pwm_from                                                            *)

\* A map of PWMs to speeds.
Table(m) == m \in [DOMAIN m -> Nat] /\ DOMAIN m \subseteq 0 .. PwmMax
Below(m, rpm) == {p \in DOMAIN m : m[p] <= rpm}

LEMMA StoreIs ==
  ASSUME NEW m, Table(m), NEW rpm \in Range(m)
  PROVE  /\ rpm \in Nat /\ Store(m)[rpm] \in DOMAIN m
         /\ Rank(DOMAIN m, Store(m)[rpm]) = Cardinality(Below(m, rpm))
<1>1. PICK p \in DOMAIN m : m[p] = rpm BY DEF Range
<1>2. rpm \in Nat /\ p \in Below(m, rpm) BY <1>1 DEF Table, Below
<1>3. Below(m, rpm) \in SUBSET DOMAIN m /\ Below(m, rpm) # {} BY <1>2 DEF Below
<1>4. Cardinality(Below(m, rpm)) \in 1 .. Cardinality(DOMAIN m)
  <2>1. /\ IsFiniteSet(Below(m, rpm)) /\ Cardinality(Below(m, rpm)) \in Nat
        /\ Cardinality(DOMAIN m) \in Nat
        /\ Cardinality(Below(m, rpm)) <= Cardinality(DOMAIN m)
    BY <1>3, FiniteNumbers, FewerIs DEF Table
  <2>2. Cardinality(Below(m, rpm)) # 0 BY <1>3, <2>1, FS_EmptySet
  <2>. QED BY <2>1, <2>2
<1>5. Store(m)[rpm] = Nth(m, Cardinality(Below(m, rpm))) BY DEF Store, Below
<1>. QED BY <1>2, <1>4, <1>5, NthIs DEF Table

LEMMA StoreRises ==
  ASSUME NEW m, Table(m), NEW a \in DOMAIN Store(m), NEW b \in DOMAIN Store(m), a < b
  PROVE  Store(m)[a] < Store(m)[b]
<1>. DEFINE D == DOMAIN m
            p == Store(m)[a]
            q == Store(m)[b]
<1>1. a \in Range(m) /\ b \in Range(m) BY DEF Store
<1>2. /\ a \in Nat /\ p \in D /\ Rank(D, p) = Cardinality(Below(m, a))
      /\ b \in Nat /\ q \in D /\ Rank(D, q) = Cardinality(Below(m, b))
  BY <1>1, StoreIs
<1>3. Cardinality(Below(m, a)) < Cardinality(Below(m, b))
  <2>1. PICK x \in D : m[x] = b BY <1>1 DEF Range
  <2>2. \A y \in D : m[y] \in Nat BY DEF Table
  <2>3. x \in Below(m, b) /\ x \notin Below(m, a) BY <1>2, <2>1 DEF Below
  <2>4. Below(m, a) \in SUBSET Below(m, b) /\ Below(m, b) \in SUBSET D
    BY <1>2, <2>2 DEF Below
  <2>. QED BY <2>3, <2>4, FewerIs DEF Table
<1>4. D \subseteq 0 .. PwmMax /\ p \in Nat /\ q \in Nat BY <1>2 DEF Table
<1>. HIDE DEF p, q
<1>5. CASE q <= p
  <2>1. \A x \in D : x \in Nat BY <1>4
  <2>2. {x \in D : x <= q} \in SUBSET {x \in D : x <= p} BY <1>4, <1>5, <2>1
  <2>3. Rank(D, q) <= Rank(D, p) BY <1>4, <2>2, FewerIs DEF Rank
  <2>4. Rank(D, p) \in Nat /\ Rank(D, q) \in Nat BY <1>4, FiniteNumbers DEF Rank
  <2>. QED BY <1>2, <1>3, <2>3, <2>4
<1>. QED BY <1>4, <1>5 DEF p, q

\* If no PWM below a limit has a speed, no speed above 0 gets a PWM below it:
\* there are more PWMs that are no faster than there are below the limit.
LEMMA StoreRuns ==
  ASSUME NEW m, Table(m), NEW limit \in Nat,
         \A p \in DOMAIN m : m[p] > 0 => p >= limit,
         NEW rpm \in DOMAIN Store(m), rpm > 0
  PROVE  Store(m)[rpm] >= limit
<1>. DEFINE D == DOMAIN m
            q == Store(m)[rpm]
            L == {p \in D : p < limit}
<1>1. rpm \in Range(m) BY DEF Store
<1>2. rpm \in Nat /\ q \in D /\ Rank(D, q) = Cardinality(Below(m, rpm)) BY <1>1, StoreIs
<1>3. D \subseteq 0 .. PwmMax /\ \A y \in D : y \in Nat /\ m[y] \in Nat
  BY DEF Table
<1>4. Cardinality(L) < Cardinality(Below(m, rpm))
  <2>1. PICK x \in D : m[x] = rpm BY <1>1 DEF Range
  <2>2. x \in Below(m, rpm) /\ x \notin L BY <1>2, <1>3, <2>1 DEF Below
  <2>3. L \in SUBSET Below(m, rpm) /\ Below(m, rpm) \in SUBSET D
    BY <1>2, <1>3 DEF Below
  <2>. QED BY <1>3, <2>2, <2>3, FewerIs
<1>5. q \in Nat BY <1>2, <1>3
<1>. HIDE DEF q
<1>6. CASE q < limit
  <2>1. {x \in D : x <= q} \in SUBSET L BY <1>3, <1>5, <1>6
  <2>2. L \in SUBSET D OBVIOUS
  <2>3. Rank(D, q) <= Cardinality(L) BY <1>3, <2>1, <2>2, FewerIs DEF Rank
  <2>4. Rank(D, q) \in Nat /\ Cardinality(L) \in Nat BY <1>3, FiniteNumbers DEF Rank
  <2>. QED BY <1>2, <1>4, <2>3, <2>4
<1>. QED BY <1>5, <1>6 DEF q

-----------------------------------------------------------------------------
(* The fan and its driver                                                     *)

Plant == hw \in Hardware /\ pwm \in 0 .. PwmMax /\ spinning \in BOOLEAN
\* A fan that turns has as much as it needs to go on.
Runs == spinning => pwm >= hw.stall
\* The driver may keep the PWM as it is written.
Keeps(p) == p \in Levels(p)

LEMMA HardwareIs ==
  ASSUME Plant
  PROVE  /\ hw.kick \in Nat /\ hw.stall \in Nat /\ hw.stall <= hw.kick /\ hw.percent \in BOOLEAN
         /\ 0 \in hw.levels /\ PwmMax \in hw.levels /\ hw.levels \subseteq 0 .. PwmMax
         /\ PwmMax \in Nat \ {0}
BY HardwareAssumption, CalibrationAssumption DEF Plant

LEMMA PercentBound ==
  ASSUME NEW p \in 0 .. PwmMax
  PROVE  percent_to_pwm(pwm_to_percent(p)) \in 0 .. p
<1>. DEFINE c == pwm_to_percent(p)
<1>0. PwmMax \in Nat \ {0} BY CalibrationAssumption
<1>1. c \in Nat /\ c * PwmMax <= p * 100 BY <1>0 DEF pwm_to_percent
<1>2. percent_to_pwm(c) = (c * PwmMax) \div 100 BY DEF percent_to_pwm
<1>. HIDE DEF c
<1>3. c * PwmMax \in Nat BY <1>0, <1>1
<1>4. (c * PwmMax) \div 100 \in Nat /\ ((c * PwmMax) \div 100) * 100 <= c * PwmMax
  BY <1>3
<1>5. (c * PwmMax) \div 100 <= p BY <1>1, <1>3, <1>4
<1>. QED BY <1>2, <1>4, <1>5 DEF c

\* The driver keeps a PWM that is not above what is written, or the lowest above
\* it that it keeps.
LEMMA LevelsAre ==
  ASSUME Plant, NEW p \in 0 .. PwmMax, NEW l \in Levels(p)
  PROVE  /\ l \in 0 .. PwmMax
         /\ \A q \in p .. l - 1 : ~Keeps(q)
         /\ p = 0 => l = 0
<1>0. /\ PwmMax \in Nat /\ p \in Nat /\ p <= PwmMax /\ hw.percent \in BOOLEAN
      /\ 0 \in hw.levels /\ PwmMax \in hw.levels /\ hw.levels \subseteq 0 .. PwmMax
  BY HardwareIs
<1>1. CASE hw.percent
  <2>1. l \in 0 .. p BY <1>1, PercentBound DEF Levels
  <2>. QED BY <1>0, <2>1
<1>2. CASE ~hw.percent
  <2>. DEFINE lo(q) == {x \in hw.levels : x <= q}
              hi(q) == {x \in hw.levels : x >= q}
  <2>1. \A x \in hw.levels : x \in Nat /\ x \in 0 .. PwmMax BY <1>0
  <2>2. ASSUME NEW q \in 0 .. PwmMax
        PROVE  /\ Max(lo(q)) \in lo(q) /\ Min(hi(q)) \in hi(q)
               /\ \A x \in hi(q) : Min(hi(q)) <= x
               /\ Levels(q) = {Max(lo(q)), Min(hi(q))}
    <3>1. 0 \in lo(q) /\ lo(q) \subseteq 0 .. PwmMax BY <1>0, <2>1
    <3>2. PwmMax \in hi(q) /\ hi(q) \subseteq Nat BY <1>0, <2>1
    <3>. HIDE DEF lo, hi
    <3>3. Max(lo(q)) \in lo(q) BY <1>0, <3>1, MaxIs
    <3>4. Min(hi(q)) \in hi(q) /\ \A x \in hi(q) : Min(hi(q)) <= x BY <3>2, MinIs
    <3>5. Levels(q) = {Max(lo(q)), Min(hi(q))} BY <1>2 DEF Levels, lo, hi
    <3>. QED BY <3>3, <3>4, <3>5
  <2>. \A q, x : /\ x \in lo(q) <=> x \in hw.levels /\ x <= q
                 /\ x \in hi(q) <=> x \in hw.levels /\ x >= q
    OBVIOUS
  <2>. HIDE DEF lo, hi
  <2>3. l \in hw.levels /\ (l <= p \/ l = Min(hi(p))) BY <2>2
  <2>4. ASSUME NEW q \in p .. l - 1, Keeps(q) PROVE FALSE
    <3>1. q \in 0 .. PwmMax /\ l = Min(hi(p)) BY <1>0, <2>1, <2>3, <2>4
    <3>2. q \in hw.levels BY <2>2, <2>4, <3>1 DEF Keeps
    <3>3. q \in hi(p) BY <3>2
    <3>4. l <= q BY <2>2, <3>1, <3>3
    <3>. QED BY <2>1, <2>3, <2>4, <3>4
  <2>5. p = 0 => l = 0
    <3>1. ASSUME p = 0 PROVE Min(hi(p)) = 0 /\ Max(lo(p)) = 0
      <4>1. 0 \in hi(p) BY <1>0, <3>1
      <4>2. Min(hi(p)) <= 0 /\ Min(hi(p)) \in Nat BY <2>1, <2>2, <4>1
      <4>3. Max(lo(p)) <= 0 /\ Max(lo(p)) \in Nat BY <2>1, <2>2, <3>1
      <4>. QED BY <4>2, <4>3
    <3>. QED BY <2>2, <3>1
  <2>. QED BY <1>0, <2>1, <2>3, <2>4, <2>5
<1>. QED BY <1>0, <1>1, <1>2

\* What set_stabilised_pwm does: nothing, or the fan gets a PWM that the driver
\* keeps, and a speed is the result only if that is the one that was written.
Effect(p, o) ==
  \/ o.pwm = pwm /\ o.spinning = spinning /\ o.rpm = None /\ (p <= PwmMax => o.fault = 1)
  \/ /\ p <= PwmMax /\ o.pwm \in Levels(p) /\ o.spinning = Turns(o.pwm) /\ o.fault = 0
     /\ o.rpm # None => o.pwm = p

Counts == noise \in Nat /\ faults \in 0 .. MaxFaults

LEMMA OutcomeIs ==
  ASSUME Plant, Runs, Counts, NEW p \in Nat, NEW o \in Stabilise(p)
  PROVE  /\ o.pwm \in 0 .. PwmMax /\ o.spinning \in BOOLEAN /\ o.rpm \in Nat \cup {None}
         /\ noise + o.noise \in Nat /\ faults + o.fault \in 0 .. MaxFaults
         /\ o.spinning => o.pwm >= hw.stall
         /\ o.rpm # None => o.pwm = p /\ p <= PwmMax
         /\ o.rpm \notin {None, 0} => o.spinning
         /\ Effect(p, o)
<1>0. /\ hw.kick \in Nat /\ hw.stall \in Nat /\ hw.stall <= hw.kick /\ PwmMax \in Nat
      /\ Noises \subseteq Nat /\ None \notin Int /\ MaxFaults \in Nat
      /\ pwm \in 0 .. PwmMax /\ spinning \in BOOLEAN /\ (spinning => pwm >= hw.stall)
      /\ noise \in Nat /\ faults \in 0 .. MaxFaults
  BY HardwareIs, CalibrationAssumption DEF Plant, Runs, Counts
<1>1. /\ o \in IF p > PwmMax THEN Refused ELSE Written(p) \cup Failed
      /\ faults + o.fault <= MaxFaults
  BY DEF Stabilise
<1>2. CASE o \in Refused /\ p > PwmMax
  <2>. o = Outcome(pwm, spinning, None, 0, 0) BY <1>2 DEF Refused
  <2>. QED BY <1>0, <1>2 DEF Outcome, Effect
<1>3. CASE o \in Failed
  <2>. o = Outcome(pwm, spinning, None, 0, 1) BY <1>3 DEF Failed
  <2>. QED BY <1>0, <1>1 DEF Outcome, Effect
<1>4. CASE o \in Written(p) /\ p <= PwmMax
  <2>1. PICK l \in Levels(p) : o \in
          LET t == Turns(l) IN
          IF l # p THEN {Outcome(l, t, None, 0, 0)}
          ELSE {Outcome(l, t, Speed(l, t), 0, 0)} \cup
               {Outcome(l, t, Speed(l, t) + d, 1, 0) : d \in IF t THEN Noises ELSE {}}
    BY <1>4 DEF Written
  <2>. DEFINE t == Turns(l)
  <2>2. l \in 0 .. PwmMax BY <1>4, <1>0, LevelsAre
  <2>3. t \in BOOLEAN /\ (t => l >= hw.stall) BY <1>0, <2>2 DEF Turns
  <2>4. Speed(l, t) \in Nat /\ (~t => Speed(l, t) = 0) BY <2>2 DEF Speed
  <2>. HIDE DEF t
  <2>5. \E rpm \in Nat \cup {None}, n \in {0, 1} :
          /\ o = Outcome(l, t, rpm, n, 0)
          /\ rpm # None => l = p
          /\ rpm \notin {None, 0} => t
    <3>1. CASE l # p
      <4>. o = Outcome(l, t, None, 0, 0) BY <2>1, <3>1 DEF t
      <4>. QED OBVIOUS
    <3>2. CASE l = p /\ o = Outcome(l, t, Speed(l, t), 0, 0) BY <2>4, <3>2
    <3>3. ASSUME l = p, t, NEW d \in Noises, o = Outcome(l, t, Speed(l, t) + d, 1, 0)
          PROVE  \E rpm \in Nat \cup {None}, n \in {0, 1} :
                   /\ o = Outcome(l, t, rpm, n, 0)
                   /\ rpm # None => l = p
                   /\ rpm \notin {None, 0} => t
      <4>. Speed(l, t) + d \in Nat BY <1>0, <2>4
      <4>. QED BY <3>3
    <3>4. \/ l # p
          \/ l = p /\ o = Outcome(l, t, Speed(l, t), 0, 0)
          \/ l = p /\ t /\ \E d \in Noises : o = Outcome(l, t, Speed(l, t) + d, 1, 0)
      BY <2>1 DEF t
    <3>. QED BY <3>1, <3>2, <3>3, <3>4
  <2>6. PICK rpm \in Nat \cup {None}, n \in {0, 1} :
          /\ o = Outcome(l, t, rpm, n, 0)
          /\ rpm # None => l = p
          /\ rpm \notin {None, 0} => t
    BY <2>5
  <2>7. /\ o.pwm = l /\ o.spinning = t /\ o.rpm = rpm /\ o.noise = n /\ o.fault = 0
    BY <2>6 DEF Outcome
  <2>8. Effect(p, o) BY <1>4, <2>1, <2>6, <2>7 DEF Effect, t
  <2>. QED BY <1>0, <1>4, <2>2, <2>3, <2>6, <2>7, <2>8
<1>. QED BY <1>0, <1>1, <1>2, <1>3, <1>4

LEMMA DriveIs ==
  ASSUME Plant, Runs, Counts, NEW p \in Nat, NEW o \in Stabilise(p), Drive(o)
  PROVE  Plant' /\ Runs' /\ Counts' /\ hw' = hw
BY OutcomeIs DEF Drive, Plant, Runs, Counts

LEMMA SettleIs == ASSUME NEW p, NEW o \in Settle(p) PROVE o \in Stabilise(p)
BY DEF Settle

-----------------------------------------------------------------------------
(* The inductive invariant: until it is known whether the fan starts, and after *)
(* that if it does, only PWMs that keep the fan running have a speed.         *)

Running == {p \in 0 .. PwmMax : p >= hw.stall}
Grounded(m) == \A p \in DOMAIN m : m[p] > 0 => p \in Running

Book ==
  /\ target \in 0 .. UintMod - 1 /\ cur_rpm \in Nat \cup {None}
  /\ Table(pwm_to_rpm) /\ Table(older) /\ DOMAIN older \subseteq Running
  /\ results \in Seq(Running \X Nat) /\ Len(results) <= 3
  /\ start_pwm \in 0 .. PwmMax /\ pre_pwm \in 0 .. PwmMax
  /\ status \in {-1, 0, 20, 50, 75, 100} /\ first \in Nat \cup {None}
Early == phase \in {"take", "stopped", "start"}
Course ==
  /\ phase \in {"start", "mapping"} => target <= PwmMax + 2
  /\ phase = "stopped" => status = 0
  /\ phase = "start" => status = 20
  /\ phase \in {"min", "keep"} => status = 50
  /\ Early => (Started <=> phase = "start" /\ cur_rpm \notin {None, 0})
  /\ phase = "start" /\ Started => spinning /\ pwm = first
  /\ Early \/ Started => Grounded(pwm_to_rpm)
  /\ phase = "done" => rpm_to_pwm = Store(pwm_to_rpm)

CInv == Plant /\ Runs /\ Counts /\ Book /\ Course

LEMMA Bounds ==
  /\ PwmMax \in Nat \ {0} /\ UintMod \in Nat /\ UintMod > PwmMax + 7 /\ MaxFaults \in Nat
  /\ None \notin Int
BY CalibrationAssumption

LEMMA OverIs ==
  ASSUME NEW f, Table(f), NEW g, Table(g)
  PROVE  /\ Table(Over(f, g)) /\ DOMAIN Over(f, g) = DOMAIN f \cup DOMAIN g
         /\ Grounded(f) /\ Grounded(g) => Grounded(Over(f, g))
<1>1. DOMAIN Over(f, g) = DOMAIN f \cup DOMAIN g BY DEF Over
<1>2. \A p \in DOMAIN Over(f, g) :
        Over(f, g)[p] = IF p \in DOMAIN f THEN f[p] ELSE g[p]
  BY DEF Over
<1>3. /\ \A p \in DOMAIN f : f[p] \in Nat /\ p \in 0 .. PwmMax
      /\ \A p \in DOMAIN g : g[p] \in Nat /\ p \in 0 .. PwmMax
  BY DEF Table
<1>4. Over(f, g) \in [DOMAIN Over(f, g) -> Nat]
  BY <1>3 DEF Over
<1>5. Table(Over(f, g)) BY <1>1, <1>3, <1>4 DEF Table
<1>6. Grounded(f) /\ Grounded(g) => Grounded(Over(f, g)) BY <1>1, <1>2 DEF Grounded
<1>. QED BY <1>1, <1>5, <1>6

LEMMA EntryIs ==
  ASSUME NEW p \in 0 .. PwmMax, NEW rpm \in Nat
  PROVE  /\ Table(Entry(p, rpm)) /\ DOMAIN Entry(p, rpm) = {p}
         /\ (rpm > 0 => p \in Running) => Grounded(Entry(p, rpm))
BY DEF Entry, Table, Grounded

LEMMA PutIs ==
  ASSUME Book, NEW p \in 0 .. PwmMax, NEW rpm \in Nat, Put(p, rpm)
  PROVE  /\ Table(pwm_to_rpm')
         /\ Grounded(pwm_to_rpm) /\ (rpm > 0 => p \in Running) /\ hw' = hw
              => Grounded(pwm_to_rpm)'
<1>1. pwm_to_rpm' = Over(Entry(p, rpm), pwm_to_rpm) BY DEF Put
<1>2. Table(Entry(p, rpm)) /\ Table(pwm_to_rpm) BY EntryIs DEF Book
<1>3. Table(pwm_to_rpm') BY <1>1, <1>2, OverIs
<1>4. Grounded(pwm_to_rpm) /\ (rpm > 0 => p \in Running) => Grounded(pwm_to_rpm')
  BY <1>1, <1>2, EntryIs, OverIs
<1>. QED BY <1>3, <1>4 DEF Grounded, Running

LEMMA InitCalibration == Init => CInv
<1>. SUFFICES ASSUME Init PROVE CInv OBVIOUS
<1>1. hw \in Hardware BY DEF Init
<1>2. /\ hw.kick \in Nat /\ hw.stall \in Nat /\ hw.stall <= hw.kick
      /\ hw.levels \subseteq 0 .. PwmMax
  BY <1>1, HardwareAssumption
<1>3. pwm \in 0 .. PwmMax
  <2>1. ASSUME NEW c \in 0 .. 100 PROVE percent_to_pwm(c) \in 0 .. PwmMax
    <3>. DEFINE x == c * PwmMax
    <3>1. x \in Nat /\ x <= 100 * PwmMax BY Bounds
    <3>. HIDE DEF x
    <3>2. x \div 100 \in 0 .. PwmMax BY <3>1, Bounds
    <3>. QED BY <3>2 DEF percent_to_pwm, x
  <2>. QED BY <1>2, <2>1 DEF Init
<1>4. Plant /\ Runs
  <2>1. spinning = (pwm >= hw.kick) BY DEF Init
  <2>2. CASE pwm >= hw.kick
    <3>. spinning = TRUE BY <2>1, <2>2
    <3>. QED BY <1>1, <1>2, <1>3, <2>2 DEF Plant, Runs
  <2>3. CASE ~(pwm >= hw.kick)
    <3>. (pwm >= hw.kick) = FALSE BY <2>3
    <3>. spinning = FALSE BY <2>1, Zenon
    <3>. QED BY <1>1, <1>3 DEF Plant, Runs
  <2>. QED BY <2>2, <2>3
<1>5. Counts BY Bounds DEF Init, Counts
<1>6. Book
  <2>1. Table(<<>>) BY DEF Table
  <2>. QED BY <2>1, Bounds DEF Init, Book
<1>7. Course BY DEF Init, Course, Early, Started, Grounded
<1>. QED BY <1>4, <1>5, <1>6, <1>7 DEF CInv

-----------------------------------------------------------------------------
(* Every part of the test keeps it.                                           *)

LEMMA TakeInv == ASSUME CInv, TakeControl PROVE CInv'
<1>. DEFINE p == IF pwm # 0 THEN 0 ELSE PwmMax
<1>1. PICK o \in Settle(p) :
        /\ Drive(o)
        /\ pre_pwm' = pwm
        /\ IF o.pwm = p
           THEN phase' = "stopped" /\ status' = 0
           ELSE phase' = "failed" /\ status' = -1
  BY DEF TakeControl
<1>2. p \in Nat BY Bounds
<1>3. Plant' /\ Runs' /\ Counts' /\ hw' = hw BY <1>1, <1>2, SettleIs, DriveIs DEF CInv
<1>4. phase = "take" /\ UNCHANGED <<target, cur_rpm, found, first>> BY DEF TakeControl
<1>5. phase' \in {"stopped", "failed"} /\ status' \in {-1, 0} /\ (phase' = "stopped" => status' = 0)
  BY <1>1
<1>6. Book'
  BY <1>1, <1>3, <1>4, <1>5 DEF CInv, Plant, Book, found, Running
<1>7. Course'
  BY <1>3, <1>4, <1>5 DEF CInv, Course, Early, Started, found, Grounded, Running
<1>. QED BY <1>3, <1>6, <1>7 DEF CInv

LEMMA StoppedInv == ASSUME CInv, TestStopped PROVE CInv'
<1>1. PICK o \in Settle(0) : Drive(o) /\ Put(o.pwm, Speed(o.pwm, o.spinning))
  BY DEF TestStopped
<1>2. o \in Stabilise(0) /\ 0 \in Nat BY SettleIs
<1>3. Plant' /\ Runs' /\ Counts' /\ hw' = hw BY <1>1, <1>2, DriveIs DEF CInv
<1>4. o.pwm \in 0 .. PwmMax /\ o.spinning \in BOOLEAN /\ (o.spinning => o.pwm >= hw.stall)
  BY <1>2, OutcomeIs DEF CInv
<1>5. Speed(o.pwm, o.spinning) \in Nat /\ (Speed(o.pwm, o.spinning) > 0 => o.pwm \in Running)
  BY <1>4 DEF Speed, Running
<1>6. phase = "stopped" /\ status = 0 /\ Grounded(pwm_to_rpm) /\ ~Started
  BY DEF TestStopped, CInv, Course, Early
<1>7. /\ UNCHANGED <<results, older, start_pwm, rpm_to_pwm, pre_pwm, first>>
      /\ phase' = "start" /\ status' = 20 /\ target' = 0 /\ cur_rpm' = 0
  BY <1>6 DEF TestStopped
<1>8. Table(pwm_to_rpm') /\ Grounded(pwm_to_rpm)'
  BY <1>1, <1>3, <1>4, <1>5, <1>6, PutIs DEF CInv
<1>9. Book' BY <1>3, <1>7, <1>8, Bounds DEF CInv, Book, Running
<1>10. Course' BY <1>6, <1>7, <1>8, Bounds DEF Course, Early, Started
<1>. QED BY <1>3, <1>9, <1>10 DEF CInv

LEMMA StartInv == ASSUME CInv, TestStart PROVE CInv'
<1>1. PICK o \in Stabilise(target) :
        /\ Drive(o) /\ cur_rpm' = o.rpm
        /\ first' = IF o.rpm \in {None, 0} THEN first ELSE target
  BY DEF TestStart
<1>2. target \in Nat BY Bounds DEF CInv, Book
<1>3. Plant' /\ Runs' /\ Counts' /\ hw' = hw BY <1>1, <1>2, DriveIs DEF CInv
<1>4. /\ o.rpm \in Nat \cup {None} /\ (o.rpm # None => o.pwm = target)
      /\ o.rpm \notin {None, 0} => o.spinning
  BY <1>2, OutcomeIs DEF CInv
<1>5. /\ phase = "start" /\ target <= PwmMax /\ ~Started /\ status = 20
      /\ Grounded(pwm_to_rpm)
  BY DEF TestStart, CInv, Course, Early
<1>6. target' = target + 2 /\ UNCHANGED <<phase, found, status, pre_pwm>> BY DEF TestStart
<1>7. pwm' = o.pwm /\ spinning' = o.spinning BY <1>1 DEF Drive
<1>8. Book' BY <1>1, <1>2, <1>3, <1>4, <1>5, <1>6, Bounds DEF CInv, Book, Running, found
<1>9. Course'
  <2>1. Grounded(pwm_to_rpm)' BY <1>3, <1>5, <1>6 DEF Grounded, Running, found
  <2>2. Started' <=> cur_rpm' \notin {None, 0} BY <1>1, <1>2, <1>5, Bounds DEF Started
  <2>3. Started' => spinning' /\ pwm' = first' BY <1>1, <1>4, <1>7, <2>2
  <2>. QED BY <1>5, <1>6, <2>1, <2>2, <2>3, Bounds, <1>2 DEF Course, Early
<1>. QED BY <1>3, <1>8, <1>9 DEF CInv

LEMMA StartedInv == ASSUME CInv, TestStarted PROVE CInv'
<1>1. PICK rpm \in IF cur_rpm = None THEN {0, 10 * PwmMax} ELSE {cur_rpm} : Put(pwm, rpm)
  BY DEF TestStarted
<1>2. rpm \in Nat /\ pwm \in 0 .. PwmMax BY <1>1, Bounds DEF CInv, Book, Plant
<1>3. UNCHANGED <<hw, plant, cur_rpm, results, older, rpm_to_pwm, pre_pwm, first>>
  BY DEF TestStarted
<1>4. Plant' /\ Runs' /\ Counts' BY <1>3 DEF CInv, Plant, Runs, Counts, plant
<1>5. phase = "start" /\ status = 20 /\ Grounded(pwm_to_rpm)
  BY DEF TestStarted, CInv, Course, Early
<1>6. start_pwm' = pwm /\ target' = pwm /\ phase' = "min" /\ status' = 50
  BY <1>5 DEF TestStarted
<1>7. Table(pwm_to_rpm') /\ (Started => Grounded(pwm_to_rpm)')
  <2>1. Started => pwm \in Running
    BY <1>2, <1>5 DEF CInv, Course, Runs, Running
  <2>. QED BY <1>1, <1>2, <1>3, <1>5, <2>1, PutIs DEF CInv
<1>8. Book' BY <1>2, <1>3, <1>6, <1>7, Bounds DEF CInv, Book, Running
<1>9. Course' BY <1>3, <1>6, <1>7 DEF Course, Early, Started
<1>. QED BY <1>4, <1>8, <1>9 DEF CInv

LEMMA Minus2Is == ASSUME NEW p \in Nat PROVE Minus2(p) \in 0 .. UintMod - 1
BY Bounds DEF Minus2

LEMMA ResultTaken ==
  ASSUME Book, NEW p \in Running, NEW rpm \in Nat, Take(p, rpm)
  PROVE  /\ results' \in Seq(Running \X Nat) /\ Len(results') <= 3
         /\ Table(older') /\ DOMAIN older' \subseteq Running
<1>. DEFINE S == Running \X Nat
<1>0. results \in Seq(S) /\ Len(results) <= 3 /\ <<p, rpm>> \in S
      /\ Table(older) /\ DOMAIN older \subseteq Running
  BY DEF Book
<1>1. CASE Len(results) = 3
  <2>1. results[1] \in S BY <1>0, <1>1
  <2>2. results[1][1] \in Running /\ results[1][2] \in Nat BY <2>1
  <2>3. results' = Append(Tail(results), <<p, rpm>>)
        /\ older' = Over(Entry(results[1][1], results[1][2]), older)
    BY <1>1 DEF Take
  <2>. HIDE DEF S
  <2>4. Tail(results) \in Seq(S) /\ Len(Tail(results)) = 2 BY <1>0, <1>1
  <2>5. results' \in Seq(S) /\ Len(results') = 3 BY <1>0, <2>3, <2>4
  <2>6. Table(Entry(results[1][1], results[1][2]))
        /\ DOMAIN Entry(results[1][1], results[1][2]) = {results[1][1]}
    BY <2>2, EntryIs DEF Running
  <2>7. Table(older') /\ DOMAIN older' \subseteq Running
    BY <1>0, <2>2, <2>3, <2>6, OverIs
  <2>. QED BY <2>5, <2>7 DEF S
<1>2. CASE Len(results) # 3
  <2>. HIDE DEF S
  <2>1. results' = Append(results, <<p, rpm>>) /\ older' = older BY <1>2 DEF Take
  <2>2. Len(results) \in Nat BY <1>0
  <2>3. results' \in Seq(S) /\ Len(results') = Len(results) + 1 BY <1>0, <2>1
  <2>4. Len(results') <= 3
    <3>. DEFINE n == Len(results)
    <3>1. n \in Nat /\ n <= 3 /\ n # 3 BY <1>0, <1>2, <2>2
    <3>. HIDE DEF n
    <3>2. n + 1 <= 3 BY <3>1
    <3>. QED BY <2>3, <3>2 DEF n
  <2>. QED BY <1>0, <2>1, <2>3, <2>4 DEF S
<1>. QED BY <1>1, <1>2

LEMMA MinInv == ASSUME CInv, RunningMin PROVE CInv'
<1>1. PICK o \in Stabilise(target) :
        /\ Drive(o) /\ cur_rpm' = o.rpm
        /\ IF o.rpm \in {None, 0} THEN UNCHANGED <<results, older>> ELSE Take(target, o.rpm)
        /\ IF o.rpm = 0 THEN phase' = "keep" /\ UNCHANGED target
                        ELSE target' = Minus2(target) /\ UNCHANGED phase
  BY DEF RunningMin
<1>2. target \in Nat /\ target \in 0 .. UintMod - 1 BY Bounds DEF CInv, Book
<1>3. Plant' /\ Runs' /\ Counts' /\ hw' = hw BY <1>1, <1>2, DriveIs DEF CInv
<1>4. /\ o.rpm \in Nat \cup {None}
      /\ o.rpm \notin {None, 0} => target \in Running
  BY <1>2, OutcomeIs DEF CInv, Running
<1>5. phase = "min" /\ UNCHANGED <<pwm_to_rpm, start_pwm, rpm_to_pwm, status, pre_pwm, first>>
  BY DEF RunningMin
<1>6. phase' \in {"min", "keep"} /\ target' \in 0 .. UintMod - 1
  BY <1>1, <1>2, <1>5, Minus2Is
<1>7. /\ results' \in Seq(Running \X Nat) /\ Len(results') <= 3
      /\ Table(older') /\ DOMAIN older' \subseteq Running
  <2>1. CASE o.rpm \in {None, 0} BY <1>1, <2>1 DEF CInv, Book
  <2>2. CASE o.rpm \notin {None, 0} BY <1>1, <1>4, <2>2, ResultTaken DEF CInv
  <2>. QED BY <2>1, <2>2
<1>8. Running' = Running BY <1>3 DEF Running
<1>9. Book' BY <1>1, <1>4, <1>5, <1>6, <1>7, <1>8 DEF CInv, Book
<1>10. Course' BY <1>5, <1>6, <1>8 DEF CInv, Course, Early, Started, Grounded
<1>. QED BY <1>3, <1>9, <1>10 DEF CInv

LEMMA KeepInv == ASSUME CInv, KeepRunning PROVE CInv'
<1>. DEFINE kept == Over(older, pwm_to_rpm)
            third == Entry(results[1][1], results[1][2])
            next == {start_pwm + (IF start_pwm % 2 # 0 THEN 1 ELSE 2), PwmMax}
<1>1. /\ pwm_to_rpm' = IF Len(results) = 3 THEN Over(third, kept) ELSE kept
      /\ target' = Min(next)
      /\ phase = "keep" /\ phase' = "mapping" /\ status' = status + 25
      /\ UNCHANGED <<hw, plant, cur_rpm, results, older, start_pwm, rpm_to_pwm, pre_pwm, first>>
  BY DEF KeepRunning
<1>2. Plant' /\ Runs' /\ Counts' BY <1>1 DEF CInv, Plant, Runs, Counts, plant
<1>3. /\ Table(older) /\ Table(pwm_to_rpm) /\ DOMAIN older \subseteq Running
      /\ results \in Seq(Running \X Nat) /\ start_pwm \in 0 .. PwmMax
  BY DEF CInv, Book
<1>4. target' \in 0 .. PwmMax
  <2>1. next \subseteq Nat /\ PwmMax \in next BY <1>3, Bounds
  <2>. HIDE DEF next
  <2>2. Min(next) \in Nat /\ Min(next) <= PwmMax BY <2>1, MinIs
  <2>. QED BY <1>1, <2>2, Bounds
<1>5. Table(kept) /\ (Grounded(pwm_to_rpm) => Grounded(kept))
  <2>. Grounded(older) BY <1>3 DEF Grounded
  <2>. QED BY <1>3, OverIs
<1>6. Table(pwm_to_rpm') /\ (Grounded(pwm_to_rpm) => Grounded(pwm_to_rpm'))
  <2>1. CASE Len(results) = 3
    <3>1. results[1] \in Running \X Nat BY <1>3, <2>1
    <3>2. results[1][1] \in Running /\ results[1][2] \in Nat BY <3>1
    <3>3. Table(third) /\ Grounded(third) BY <3>2, EntryIs DEF Running
    <3>. HIDE DEF third, kept
    <3>. QED BY <1>1, <1>5, <2>1, <3>3, OverIs
  <2>2. CASE Len(results) # 3 BY <1>1, <1>5, <2>2
  <2>. QED BY <2>1, <2>2
<1>7. status' = 75 BY <1>1 DEF CInv, Course
<1>. HIDE DEF kept, third, next
<1>8. Book' BY <1>1, <1>4, <1>6, <1>7, Bounds DEF CInv, Book, Running
<1>9. Course'
  <2>. Started' => Grounded(pwm_to_rpm)'
    BY <1>1, <1>6 DEF CInv, Course, Started, Grounded, Running
  <2>. QED BY <1>1, <1>4, Bounds DEF Course, Early
<1>. QED BY <1>2, <1>8, <1>9 DEF CInv

LEMMA MappingInv == ASSUME CInv, TestMapping PROVE CInv'
<1>1. PICK o \in Stabilise(target) :
        /\ Drive(o)
        /\ IF o.rpm = None THEN UNCHANGED pwm_to_rpm ELSE Put(target, o.rpm)
  BY DEF TestMapping
<1>2. target \in Nat /\ target <= PwmMax BY Bounds DEF CInv, Book, TestMapping
<1>3. Plant' /\ Runs' /\ Counts' /\ hw' = hw BY <1>1, <1>2, DriveIs DEF CInv
<1>4. /\ o.rpm \in Nat \cup {None}
      /\ o.rpm \notin {None, 0} => target \in Running
  BY <1>2, OutcomeIs DEF CInv, Running
<1>5. /\ phase = "mapping" /\ target' = target + (IF target < PwmMax - 1 THEN 2 ELSE 1)
      /\ UNCHANGED <<phase, cur_rpm, results, older, start_pwm, rpm_to_pwm, status, pre_pwm, first>>
  BY DEF TestMapping
<1>6. target' \in Nat /\ target' <= PwmMax + 2 BY <1>2, <1>5, Bounds
<1>7. Table(pwm_to_rpm') /\ (Grounded(pwm_to_rpm) => Grounded(pwm_to_rpm)')
  <2>1. CASE o.rpm = None BY <1>1, <1>3, <2>1 DEF CInv, Book, Grounded, Running
  <2>2. CASE o.rpm # None
    <3>. o.rpm \in Nat /\ target \in 0 .. PwmMax /\ Put(target, o.rpm)
      BY <1>1, <1>2, <1>4, <2>2, Bounds
    <3>. QED BY <1>3, <1>4, Bounds, PutIs DEF CInv
  <2>. QED BY <2>1, <2>2
<1>8. Book' BY <1>3, <1>5, <1>6, <1>7, Bounds DEF CInv, Book, Running
<1>9. Course' BY <1>5, <1>6, <1>7 DEF CInv, Course, Early, Started
<1>. QED BY <1>3, <1>8, <1>9 DEF CInv

LEMMA EndInv == ASSUME CInv, TestMapped \/ StoreResults PROVE CInv'
<1>1. CASE TestMapped
  <2>1. /\ phase' = "store" /\ status' = 100 /\ phase = "mapping"
        /\ UNCHANGED <<hw, plant, target, cur_rpm, found, pre_pwm, first>>
    BY <1>1 DEF TestMapped
  <2>2. Plant' /\ Runs' /\ Counts' BY <2>1 DEF CInv, Plant, Runs, Counts, plant
  <2>3. Book' BY <2>1 DEF CInv, Book, Running, found
  <2>4. Course' BY <2>1 DEF CInv, Course, Early, Started, Grounded, Running, found
  <2>. QED BY <2>2, <2>3, <2>4 DEF CInv
<1>2. CASE StoreResults
  <2>1. PICK o \in Settle(pre_pwm) : Drive(o) BY <1>2 DEF StoreResults
  <2>2. pre_pwm \in Nat /\ o \in Stabilise(pre_pwm) BY <2>1, SettleIs, Bounds DEF CInv, Book
  <2>3. Plant' /\ Runs' /\ Counts' /\ hw' = hw BY <2>1, <2>2, DriveIs DEF CInv
  <2>4. /\ phase = "store" /\ phase' = "done" /\ rpm_to_pwm' = Store(pwm_to_rpm)
        /\ UNCHANGED <<target, cur_rpm, pwm_to_rpm, results, older, start_pwm, status, pre_pwm, first>>
    BY <1>2 DEF StoreResults
  <2>5. Book' BY <2>3, <2>4 DEF CInv, Book, Running
  <2>6. Course' BY <2>3, <2>4 DEF CInv, Course, Early, Started, Grounded, Running
  <2>. QED BY <2>3, <2>5, <2>6 DEF CInv
<1>. QED BY <1>1, <1>2

LEMMA NextCalibration == CInv /\ [Next]_vars => CInv'
<1>. SUFFICES ASSUME CInv, [Next]_vars PROVE CInv' OBVIOUS
<1>1. CASE Next
  BY <1>1, TakeInv, StoppedInv, StartInv, StartedInv, MinInv, KeepInv, MappingInv, EndInv DEF Next
<1>2. CASE UNCHANGED vars
  BY <1>2 DEF vars, plant, found, CInv, Plant, Runs, Counts, Book, Course, Early, Started,
              Grounded, Running
<1>. QED BY <1>1, <1>2

LEMMA CalibrationInvariant == Spec => []CInv
<1>. QED BY InitCalibration, NextCalibration, PTL DEF Spec

\* The parts of a test's state have their types (Fan.cpp:163-330).
THEOREM CalibrationTypeTheorem == Spec => []CalibrationTypeOK
<1>1. CInv => CalibrationTypeOK BY DEF CInv, Plant, Book, Table, CalibrationTypeOK
<1>. QED BY <1>1, CalibrationInvariant, PTL

\* What a test maps to a speed rises with the speed, whatever was read off and
\* whatever failed (Fan.cpp:446-460).
THEOREM IncreasesTheorem == Spec => []RpmIncreasesWithPwm
<1>1. CInv => RpmIncreasesWithPwm
  BY StoreRises DEF CInv, Book, Course, RpmIncreasesWithPwm
<1>. QED BY <1>1, CalibrationInvariant, PTL

\* At the PWM that a test maps to a speed the fan keeps running, if the test saw
\* it start (Fan.cpp:289-294, 446-460).
THEOREM KeepsRunningTheorem == Spec => []MappedKeepsRunning
<1>1. ASSUME CInv, phase = "done", Started, NEW rpm \in DOMAIN rpm_to_pwm, rpm > 0
      PROVE  rpm_to_pwm[rpm] >= hw.stall
  <2>1. rpm_to_pwm = Store(pwm_to_rpm) /\ Table(pwm_to_rpm) /\ Grounded(pwm_to_rpm)
    BY <1>1 DEF CInv, Book, Course
  <2>2. hw.stall \in Nat BY <1>1, HardwareIs DEF CInv
  <2>3. \A p \in DOMAIN pwm_to_rpm : pwm_to_rpm[p] > 0 => p >= hw.stall
    BY <2>1 DEF Grounded, Running
  <2>. QED BY <1>1, <2>1, <2>2, <2>3, StoreRuns
<1>2. CInv => MappedKeepsRunning BY <1>1 DEF MappedKeepsRunning
<1>. QED BY <1>2, CalibrationInvariant, PTL

-----------------------------------------------------------------------------
(* The start PWM, when no more than one write fails. While a start is looked  *)
(* for, a fan that turns already does so because the driver kept a higher PWM *)
(* than was written: it keeps none between that and the one that starts a fan. *)

SInv == Stops(hw) =>
  /\ phase = "start" => target = 0 \/ target >= 2
  /\ phase = "start" /\ target = 0 => ~spinning \/ faults >= 1
  /\ phase = "start" /\ target # 0 /\ ~Started /\ spinning =>
       \A q \in target - 2 .. hw.kick - 1 : ~Keeps(q)
  /\ phase = "start" /\ Started => pwm >= hw.kick
  /\ ~Early /\ Started => start_pwm >= hw.kick

LEMMA StoppedStart ==
  ASSUME CInv, TestStopped
  PROVE  SInv'
<1>. SUFFICES ASSUME Stops(hw)' PROVE ~spinning' \/ faults' >= 1
  <2>1. phase' = "start" /\ target' = 0 /\ first' = first /\ phase = "stopped"
    BY DEF TestStopped
  <2>2. ~Started' BY <2>1 DEF CInv, Course, Early, Started
  <2>. QED BY <2>1, <2>2 DEF SInv, Early
<1>1. PICK o \in Settle(0) : Drive(o) BY DEF TestStopped
<1>2. o \in Stabilise(0) /\ 0 \in Nat /\ 0 \in 0 .. PwmMax BY SettleIs, Bounds
<1>3. hw' = hw /\ spinning' = o.spinning /\ faults' = faults + o.fault BY <1>1 DEF Drive
<1>4. Effect(0, o) BY <1>2, OutcomeIs DEF CInv
<1>5. /\ faults \in Nat /\ hw.stall \in Nat /\ hw.kick \in Nat /\ hw.stall <= hw.kick
      /\ hw.stall > 0
  BY <1>3, HardwareIs, Bounds DEF CInv, Counts, Stops
<1>6. CASE o.fault = 1 BY <1>3, <1>5, <1>6
<1>7. CASE o.pwm \in Levels(0) /\ o.spinning = Turns(o.pwm)
  <2>1. o.pwm = 0 BY <1>2, <1>7, LevelsAre DEF CInv
  <2>2. ~Turns(0) BY <1>5 DEF Turns
  <2>. QED BY <1>3, <1>7, <2>1, <2>2
<1>. QED BY <1>4, <1>6, <1>7, Bounds DEF Effect

LEMMA StartStart ==
  ASSUME MaxFaults <= 1, CInv, SInv, TestStart
  PROVE  SInv'
<1>. SUFFICES ASSUME Stops(hw)' PROVE SInv'
  BY DEF SInv
<1>1. PICK o \in Stabilise(target) :
        /\ Drive(o) /\ cur_rpm' = o.rpm
        /\ first' = IF o.rpm \in {None, 0} THEN first ELSE target
  BY DEF TestStart
<1>2. /\ hw' = hw /\ pwm' = o.pwm /\ spinning' = o.spinning
      /\ phase = "start" /\ phase' = "start" /\ target' = target + 2 /\ ~Started
      /\ target \in 0 .. PwmMax
  BY <1>1, Bounds DEF Drive, TestStart, CInv, Course, Early, Book
<1>3. /\ hw.stall \in Nat /\ hw.kick \in Nat /\ hw.stall <= hw.kick /\ hw.stall > 0
      /\ faults \in Nat /\ faults + o.fault <= MaxFaults
  BY <1>1, <1>2, HardwareIs, OutcomeIs, Bounds DEF CInv, Counts, Stops
<1>4. /\ target = 0 => ~spinning \/ faults >= 1
      /\ target # 0 /\ spinning => \A q \in target - 2 .. hw.kick - 1 : ~Keeps(q)
      /\ target = 0 \/ target >= 2
  BY <1>2 DEF SInv
<1>5. /\ Effect(target, o) /\ (o.rpm # None => o.pwm = target) /\ o.pwm \in 0 .. PwmMax
      /\ o.rpm \notin {None, 0} => o.spinning
  BY <1>2, OutcomeIs, Bounds DEF CInv
<1>6. Started' <=> o.rpm \notin {None, 0} BY <1>1, <1>2, Bounds DEF Started
<1>7. ASSUME spinning, o.spinning, target # 0
      PROVE  \A q \in target .. hw.kick - 1 : ~Keeps(q)
  BY <1>2, <1>3, <1>4, <1>7
<1>kept. ASSUME \A q \in target .. hw.kick - 1 : ~Keeps(q)
      PROVE  \A q \in target' - 2 .. hw'.kick - 1 : ~Keeps(q)'
  BY <1>2, <1>kept DEF Keeps, Levels
<1>8. CASE o.pwm = pwm /\ o.spinning = spinning /\ o.rpm = None /\ o.fault = 1
  <2>1. ~Started' BY <1>6, <1>8
  <2>2. target = 0 => ~spinning BY <1>3, <1>4, <1>8, Bounds
  <2>3. spinning' => \A q \in target .. hw.kick - 1 : ~Keeps(q)
    BY <1>2, <1>7, <1>8, <2>2
  <2>4. spinning' => \A q \in target' - 2 .. hw'.kick - 1 : ~Keeps(q)'
    BY <1>2, <1>kept, <2>3
  <2>. QED BY <1>2, <2>1, <2>4 DEF SInv, Early
<1>9. CASE /\ o.pwm \in Levels(target) /\ o.spinning = Turns(o.pwm)
           /\ o.rpm # None => o.pwm = target
  <2>1. /\ \A q \in target .. o.pwm - 1 : ~Keeps(q)
        /\ target = 0 => o.pwm = 0
    BY <1>2, <1>9, LevelsAre DEF CInv
  <2>2. o.spinning => o.pwm >= hw.kick \/ (spinning /\ target # 0)
    <3>1. o.spinning => Turns(o.pwm) BY <1>9
    <3>2. o.pwm >= hw.stall => o.pwm # 0 BY <1>3, <1>5, Bounds
    <3>. QED BY <2>1, <3>1, <3>2 DEF Turns
  <2>3. o.spinning => \A q \in target .. hw.kick - 1 : ~Keeps(q)
    <3>1. CASE o.pwm >= hw.kick
      BY <1>2, <1>3, <1>5, <2>1, <3>1
    <3>2. CASE spinning /\ target # 0
      BY <1>7, <3>2
    <3>. QED BY <2>2, <3>1, <3>2
  <2>4. Started' => pwm' >= hw.kick
    <3>. SUFFICES ASSUME Started', o.pwm < hw.kick PROVE FALSE
      BY <1>2, <1>3, <1>5
    <3>1. o.pwm = target /\ o.spinning BY <1>5, <1>6
    <3>2. Keeps(target) BY <1>9, <3>1 DEF Keeps
    <3>3. target \in target .. hw.kick - 1 BY <1>2, <1>3, <3>1
    <3>. QED BY <2>3, <3>1, <3>2, <3>3
  <2>5. spinning' => \A q \in target' - 2 .. hw'.kick - 1 : ~Keeps(q)'
    BY <1>2, <1>kept, <2>3
  <2>. QED BY <1>2, <2>4, <2>5 DEF SInv, Early
<1>. QED BY <1>2, <1>5, <1>8, <1>9, Bounds DEF Effect

LEMMA NextStart ==
  ASSUME MaxFaults <= 1
  PROVE  CInv /\ SInv /\ [Next]_vars => SInv'
<1>. SUFFICES ASSUME CInv, SInv, [Next]_vars PROVE SInv' OBVIOUS
<1>1. CASE TestStopped BY <1>1, StoppedStart
<1>2. CASE TestStart BY <1>2, StartStart
<1>3. CASE TakeControl
  <2>1. phase = "take" /\ phase' \in {"stopped", "failed"} /\ first' = first
    BY <1>3 DEF TakeControl
  <2>2. ~Started' BY <2>1 DEF CInv, Course, Early, Started
  <2>. QED BY <2>1, <2>2 DEF SInv
<1>4. CASE TestStarted
  <2>. phase = "start" /\ phase' = "min" /\ start_pwm' = pwm /\ first' = first /\ hw' = hw
    BY <1>4 DEF TestStarted
  <2>. QED BY DEF SInv, Started, Stops
<1>5. CASE RunningMin \/ KeepRunning \/ TestMapping \/ TestMapped \/ StoreResults
  <2>1. /\ phase \in {"min", "keep", "mapping", "store"}
        /\ phase' \in {"min", "keep", "mapping", "store", "done"}
        /\ UNCHANGED <<start_pwm, first>>
    BY <1>5 DEF RunningMin, KeepRunning, TestMapping, TestMapped, StoreResults, found
  <2>2. hw' = hw
    BY <1>5 DEF RunningMin, KeepRunning, TestMapping, TestMapped, StoreResults, Drive
  <2>. QED BY <2>1, <2>2 DEF SInv, Started, Stops, Early
<1>6. CASE UNCHANGED vars
  BY <1>6 DEF vars, plant, found, SInv, Started, Stops, Early, Keeps, Levels
<1>. QED BY <1>1, <1>2, <1>3, <1>4, <1>5, <1>6 DEF Next

\* The start PWM of a test that found a start does start a standing fan that can
\* stand, whatever the driver alters and whatever is misread, if no more than
\* one write fails (Fan.cpp:235-247).
THEOREM StartPwmTheorem == ASSUME MaxFaults <= 1 PROVE Spec => []StartPwmStarts
<1>1. Init => SInv BY DEF Init, SInv, Early
<1>2. SInv => StartPwmStarts BY DEF SInv, StartPwmStarts, Early
<1>. QED BY <1>1, <1>2, NextStart, CalibrationInvariant, PTL DEF Spec
=============================================================================
